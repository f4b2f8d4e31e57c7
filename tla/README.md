# A TLA+ model of FrontierSmith

FrontierSmith synthesises open-ended programming problems (`synthesis/`), generates
solutions to problems with language models and evaluates them (`Frontier-CS/`). Both stand
on one service, the judge (`Frontier-CS/algorithmic/`), a Node program in front of the
go-judge sandbox. This directory holds a formal model of the parts of the system where order,
failure and sharing matter: TLA+ modules, TLC configurations that check them on small
instances, and proofs that TLAPS checks for instances of every size.

Paths below are relative to the repository. `judge_engine.js`, `utils.js`, `router.js`,
`gojudge.js`, `problem_manager.js` and `upload.js` are those of
`Frontier-CS/algorithmic/judge/src/`; `batch/`, `runner/`, `gen/` and `cli.py` those of
`Frontier-CS/src/frontier_cs/`; `pipeline.py`, `stage*.py`, `utils.py` and `judge_client.py`
in the synthesis those of `synthesis/`.

## 1. Inventory

| Component | State it keeps | Operations | Interacts with |
|---|---|---|---|
| **Judge engine** `judge_engine.js`, `SubmissionManager` in `utils.js` | queue, results map, submission counter and `counter.txt`, `submissions/<bucket>/<sid>/` | submit, getResult, clearResults, N worker loops, nextSubmissionId, resetCounter | routes (awaited calls), workers (shared queue and maps), disk |
| **Checker cache** `judge_engine.js` L21-166 | cache, compiles in flight, active key per problem | getOrCompileChecker / Interactor, eviction | go-judge (stored files), the problem's files on disk |
| **Routes** `router.js`, `upload.js` | uploaded zips | submit, result, reset, problem set-up and add, exports | engine, problem manager |
| **Problem manager** `problem_manager.js` | a directory per problem, a temporary one while it is set up | setupProblem, addProblem, deleteProblem, reads | go-judge, the engine's own copy of it |
| **go-judge client** `gojudge.js` | none | run, upload, delete, with and without time-outs | the external sandbox |
| **Judge clients** `synthesis/judge_client.py`, `runner/algorithmic_local.py`, the harbor verifier | one sid each | submit, poll until final or out of time | judge over HTTP |
| **Synthesis pipeline** `pipeline.py`, `stage*.py`, `utils.py` | candidates, a checkpoint file per stage and iteration, output packages, the seed pool | six stages, resume, fresh | LLM clients, judge client, disk |
| **Stage 4** `stage4_build_env.py` | a candidate's generator, checker, tests and scores | rounds of write, install, run, cross-validate | judge client |
| **Batch evaluator** `batch/` | results per (solution, problem) pair, the state file, a work queue, cluster pools | evaluate, resume, retry, evaluate missing, sync from bucket | worker threads, runners, bucket |
| **Runners** `runner/` | a judge or research clusters in the cloud, a local judge container | ensure, evaluate, stop | docker, sky |
| **Solution generation** `gen/`, `algorithmic/scripts/generate_solutions.py` | solution files and failure markers; failures, back-off, use and disabled flag per key | select tasks, execute, acquire, report | worker threads, LLM clients |
| **Result bucket** `storage/bucket.py` | remote result files | sync, read, write | batch state |

`verl/` and `ALE-Bench/` are vendored. None of the project's own components above has
unit tests of its concurrency or its failure paths.

What is hard in each, and what makes it correct:

* **Judge engine.** Handlers, workers and the reset interleave at every `await`; a poll
  *removes* the result it returns; the id counter is written to disk without being
  awaited; a job can lose its directory. Correct: a submission is judged once, by one
  worker, its answer goes to its own client, nothing vanishes, no failure stops a worker.
* **Checker cache.** Several workers need the same checker, whose file may change at any
  time; the old binary must be freed without pulling it from under a running job. Correct:
  one compile per key at a time, no stale or deleted binary, no file kept for a
  version that is gone (not quite the case, section 8).
* **Problem manager and stage 4.** Two set-ups of one problem share a temporary directory, a
  set-up that fails leaves half a problem, a client gives up on a set-up that goes on.
  Correct: a set-up that says *ok* has installed its package and no other's, and a candidate
  is validated against what it is written with.
* **Pipeline.** Checkpoints and packages are written in place, and a run may be killed between
  any two writes. Correct: what is saved fits together, is not done again, and a run that ends
  has written everything it selected.
* **Batch evaluator.** Threads share the state and its file; a crash at any moment must
  leave a state from which a resume repeats nothing that is valid.
* **Cloud runners.** Threads find, launch, share and stop clusters they know by name or address
  only. Correct: answers do not cross, each pool cluster serves one thread, nothing is left up.
* **Generation.** Threads acquire keys while the main thread reports; the next run reads from
  the files what this one did. Correct: use follows the weights, a disabled key stays
  disabled, what is reported is what is on disk.

The `hazards` of `PROJECT.json` list these one by one with their line.

## 2. Plan

The order was: the service everything else calls, then its clients, then the drivers.

| Module | Models | Proofs |
|---|---|---|
| `CheckerService`, `CheckerCache` | what a job may rely on when it asks for its checker; the compiled-checker cache, shown to implement it | `CheckerCacheProofs` |
| `JudgeService`, `JudgeEngine` | what a client may rely on; the engine, shown to implement it | `JudgeEngineProofs` |
| `ProblemSetup`, `BuildEnvironment` | installing a problem; stage 4 of the synthesis, composed with it | `BuildEnvironmentProofs` |
| `SynthesisRun`, `Pipeline` | one run that nothing interrupts; the synthesis, its checkpoints, kills and resumes, shown to implement it | `PipelineProofs` |
| `BatchEvaluator` | commands, threads, saves, bucket | `BatchEvaluatorProofs` |
| `CloudJudge` | threads that share one judge on one cluster | `CloudJudgeProofs` |
| `ClusterPool` | pools of research clusters, and Ctrl+C | `ClusterPoolProofs` |
| `Generation` | tasks, key pool, solution files | `GenerationProofs` |

State machines come as a module `X` with constants and assumptions, `MCX` and its
`.cfg` files for TLC, and `XProofs` for TLAPS. No module uses a `RECURSIVE` operator of
its own. All of the plan is done; what could follow is in the last paragraph of section 9.

## 3. What a step is

*In the judge.* Node runs one callback at a time. Between two awaits of real I/O the code is
atomic: an `await` of a promise that is already settled only re-enters the microtask queue,
which is emptied before the next I/O callback. So a step is what runs from one I/O completion
to the next `await` of I/O. Two consequences are used:

* in `CheckerCache`, an eviction that deletes no file is one step with the lookup that
  follows it, and when a compile's promise settles, its owner and all who await it
  continue in one step;
* in `JudgeEngine`, taking an id and entering `queued` into the map is one step (the mkdir
  is the first I/O).

The file operation itself happens in libuv's thread pool before its callback: reading a file
and acting on what was read are separate steps, with edits and other workers between them.

*In the Python threads.* A step is what a thread does between two accesses to what others may
change: a field of a shared object, a lock, a file, a request. What one lock protects is one step.

*In the single-threaded drivers* (the pipeline, the main thread of a command) steps are split
where a kill makes a difference: between truncating a file and having written it.

## 4. Modules

Definitions named `X_Fault` in the modules are faulty variants of `X`, each a bug the property
beside it in `PROJECT.json` (`mutants`) must catch; they are part of no specification.

### CheckerService and CheckerCache

`getOrCompileChecker` and `getOrCompileInteractor` (L102-166) are the same code with other
names, over keys that never collide; a *slot* is a (problem, role) pair.

| Model | Code |
|---|---|
| `src`, `bin` | `chk.cc` / `interactor.cpp` and their `.bin` on disk; contents stand for bytes up to sha1 |
| `store` | the files go-judge keeps (external), by id |
| `cache`, `compiling`, `activeKey` | `checkerCache`, `checkerCompiling`, the two `…ActiveKey` maps |
| `pc`, `slot`, `want`, `file` | where each worker is; its job's slot; the key of what it read; the file id it holds |
| `undeleted` | history: files that a call which failed has left in go-judge |
| `overtaken` | history: keys that stopped being active in the middle of their compile, or of the deletion that made way for them, and were not read since |
| `StatBin`, `ReadBin`, `ReadSource` | `_checkerCacheMaterial`: `fileExists`, then the read, then the hash |
| `EvictStaleEntry`, `LookupAfterDelete` | `_evictStaleCacheEntry` around `await deleteFile`: before it, and after it with the lookup |
| `LookupFresh` | eviction with nothing to delete, and the lookup |
| `CompileDone`, `CacheResult`, `CompileError` | `_compileChecker` (a source is compiled from the text that was hashed; a `.bin` is opened again), the promise, its `finally` |
| `EditSource`, `WriteBin` | `setupProblem`, and whoever edits the problem in place |

A `.bin` that is being overwritten may be read half written: that is one more content.

`CheckerService` has the same disk and the same jobs, but nothing is cached, shared, awaited or evicted: a job reads
its contents (`Read`) and is given a checker of them (`Answer`: for a source, of exactly those; for a `.bin`, which is
opened again when it is uploaded, of any once the problems have been edited), or ends with an error of its own
(`NoChecker`, `Fail`). What sharing costs a job is explicit: several may be answered together, and a job loses its
checker, but only while another job holds other contents of the same problem (`Outdated`). The mapping: a job is
*given* its checker while it judges with `store[file[w]]`, it has *read* from its hash until then, and evictions,
compiles in flight and promises are not seen.

### JudgeService and JudgeEngine

`JudgeService` is the promise to a client, whatever the disk does. Until a reset or a crash, a submission is refused
(there is no directory for it) or goes through *accepted*, *judged*, *delivered*, each once, although its handler may
fail once it is queued. Its verdict changes only in `TakeBack`: an outcome that cannot be saved is replaced by an error,
twice at most (`unsaved`), and each may be handed out. The mapping reads the stage off the results map, what was popped
and where the job is, and `unsaved` off the worker that is saving.

| Model | Code |
|---|---|
| `counter`, `counterRead`, `counterFile`, `counterWrites` | `_counter`, `_initPromise`, `counter.txt` and its un-awaited writes |
| `results`, `queue` | the engine's map and array; a job remembers its submission so that properties can name it |
| `disk` | `submissions/<bucket>/<sid>`: does it exist, and its `source.code`. `meta.json` and `result.json` are left out because nothing reads them (the only reader throws first, section 8); whether they could be written is in the steps that write them |
| `phase`, `sid`, `popped` | the handler of `POST /submit`, then its polling client |
| `wpc`, `job`, `code` | each worker loop |
| `rpc` | the handler of `POST /submissions/reset` |
| `SubmitId` … `SubmitFails` | `submit` and the `catch` of its route |
| `PollResult` | `getResult`: a final result leaves the map, whether or not the response arrives |
| `TakeJob` … `SaveIgnored` | `startWorker`, `judgeDefault`, `judgeInteractive`, with their nested `catch`es: a failed save of a verdict publishes an error, a failed save of that error publishes it again from `startWorker`, and there a last failure is ignored |
| `Judge` | everything between reading the source and publishing, with its three ways to end; the checker's share of it is `CheckerCache` |
| `ResetEmptyDir`, `ResetCounter`, `ResetResults`, `ResetFails` | the reset, one step per await |
| `Crash` | the process dies and `server.js` starts again |

`emptyDir` removes directories one after the other; a reset that succeeds is modelled with the
moment at which all are gone, one that fails with any part of them gone.

### ProblemSetup and BuildEnvironment

`ProblemSetup` is the handlers of `/problem/add-problem` and `/problem/setup` for one problem, file
by file; a file is known by the number of the package it came from. `BuildEnvironment` extends it with
`_build_one` of stage 4, the client that numbers its packages by its rounds.

| Model | Code |
|---|---|
| `exists`, `installed`, `bin`, `tmp` | the problem's directory, its `chk.cc.bin`, and `tmp_<pid>` |
| `spc`, `todo`, `source`, `reply` | each handler: where it is, what is left to extract or copy, the source it read, its answer |
| `CheckAdd`, `MakeDir`, `CheckSetup` | `addProblem`, and the head of `setupProblem` |
| `Extract` … `RemoveTmp` | `extractZip`, `setProblem`, the copies, the removal of `tmp_<pid>` |
| `ReadChecker`, `CompileChecker`, `Pack` | the rest of `setupProblem` |
| `phase`, `package`, `rounds`, `next`, `matrix`, `kept`, `checkerErrors` | `_build_one` and the locals of `_run_solutions` |
| `AddProblem`, `AddAnswered`, `InstallEnds`, `InstallTimesOut` | `JudgeClient.add_problem` with its fallback to set-up, and its exceptions |
| `RunScored`, `RunNotCompiled`, `RunErrors`, `CrossValidate` | `_run_solutions`, `_cross_validate` |

The test data are several files: between the first and the last copy they are `Mixed`. Judging one
solution is one step (its submission is `JudgeEngine`'s).

### Pipeline

| Model | Code |
|---|---|
| `checkpoint` | `iter_<i>/<stage>.json`: absent, torn (truncated and not yet written), or whole with its candidates |
| `started`, `written` | packages in the output directory: begun, and whole |
| `Begin`, `EndIteration`, `End`, `Crash` | `run`, with and without `--fresh` |
| `Produce`, `OpenCheckpoint`, `CloseCheckpoint`, `LoadCheckpoint`, `LoadRaises` | `_stage_with_checkpoint` over `save_checkpoint` and `load_checkpoint` |
| `Outputs` | what each stage may yield from its input (`mutate`, `coarse_filter`, `idea_divergence_filter`, `build_environment`) |
| `OpenPackage`, `ClosePackage`, `Selected` | `select_and_write` |

Which candidates survive a stage is arbitrary: every property holds whatever the language models say.

`SynthesisRun` is the same work by one run that is never killed: it decides the result of each stage once and in order
(`Decide`, stage 3 keeping exactly the best `NDiv`), writes packages, begins an iteration when all packages of those
before are whole, and finishes when all are. There are no files, runs, kills or loads in it. The mapping: what is
saved whole is decided, and the run has finished where `phase` is *ended*. A resumed run goes over the packages of
iterations long done once more, so a package may stop being whole for a while: the service says so (`Rewrite`).

### BatchEvaluator

Each command line (`frontier batch …`) is a process: it loads the state file, works, and exits or is
killed. Commands do not overlap.

| Model | Code |
|---|---|
| `content` | the solution file and the problem's own directory of a pair, up to their hashes; an edit may bring an earlier content back |
| `file`, `results` | the state file and `self.state.results`; a result is its status, its hashes (`None`: stored without), and, for the properties only, what was judged and whether it had been edited between the hashes and the reading (`touched`) |
| `bucket` | `results/*.json` in the bucket |
| `resume`, `useBucket`, `wanted` | does the command validate what the file has, has it a bucket, which pairs is it about |
| `phase` | the main thread: `begin` (sync, save), `prepare` (hashes, pending pairs), `working` (in the executor), `export` |
| `Evaluate`, `Resume`, `RetryFailed` | the commands: `evaluate_pairs` with and without validation, `resume`, `retry_failed`, up to their first save (`fresh` is `--no-resume`, and `evaluate_missing` on fewer pairs) |
| `Begin`, `Prepare`, `Join`, `Export` | `evaluate_pairs` |
| `Take` … `Raise` | the loop of a worker thread; `_save_state` is two steps, the copy of the results under the lock (`Snapshot`) and the rename (`Replace`) |
| `WriteToBucket`, `Outcomes` | what the cluster's run script writes, and what the runner returns |
| `SaveFails`, `MainSaveFails`, `Crash` | an exception of `save` in a thread (which dies) and in the main thread (which ends the command); the process is killed |

The statuses are those the code tells apart: a success with score 0, which `retry` evaluates again, another success, and
an error (a timeout is one).

Taking a pair and marking it running are one step: a snapshot between the two is the same as one before
both. Sync and save of the main thread are one step: it runs alone, and what a crash between them loses was
only in memory. Hashing all the pairs is one step: an edit of one pair commutes with the hashing of the others.

### CloudJudge

The threads of a batch over one `AlgorithmicSkyPilotRunner`. A cluster is the number of its launch, which
stands for its address; the judge on it is `JudgeEngine` reduced to what crosses the network: ids from 1,
results handed out once.

| Model | Code |
|---|---|
| `up`, `launched`, `jobs` | the cloud, and the judge of the cluster that is up (external) |
| `initialized`, `url`, `judgeUrl`, `judgeStarted` | `_initialized`, `_judge_url`, `judge_url`, `_judge_started` of the one runner |
| `clusterLock`, `startupLock` | `_cluster_lock`, `_startup_lock` |
| `half` | a machine of that name that a failed launch left and that is not up (external) |
| `Look`, `ProbeAnswered`, `ProbeFails` | the fast path of `_ensure_cluster`, and its copy under the lock: between the look at the flag and the answer of the judge others go on |
| `Lock` … `Return` | the rest of `_ensure_cluster`: lock, find, launch, wait |
| `Raise` (`LaunchFails`, `NeverReady`) | its two exceptions; the machine may be missing, `half`, or up |
| `SetUrl` … `PollTimesOut` | the rest of `evaluate`, over `_ensure_judge`, `_submit` and `_poll_result` of the local runner |
| `Finally`, `Down`, `DownFails`, `Clear` | the `finally` of `evaluate` and `stop_cluster`, which clears the fields after the down and outside the lock: the next cluster may be up by then |
| `mishap`, `wiped` | history: a request to a live cluster or its launch failed; a thread reset the flag of a live cluster on account of an older one |
| `LoseCluster` | autostop, or a machine that is taken back |

### ClusterPool

The clusters of `_evaluate_with_workers` for research problems. The constants of the batch (which problem each
pair is of, how many clusters, whether they are kept) are chosen in `Init`.

| Model | Code |
|---|---|
| `Groups`, `Proportion`, `Remaining`, `Share`, `Before`, `Count`, `Planned` | the sharing-out of clusters in `_create_cluster_pool` |
| `Part` | `int(self.clusters * proportion)`, a product of floats: a constant, which may be one less than the exact quotient where that is whole |
| `CreatePools`, `NoPools` | the parallel creation, each of which may fail with or without a cluster left |
| `pools`, `on`, `Borrow`, `BorrowTimesOut`, `GiveBack` | the `Queue` of each group and the worker loop around it |
| `Own`, `Launch`, `Run`, `Fetch`, `DownOwn` | `ResearchSkyPilotRunner`: naming, launch, run script, results, `finally` |
| `left` | `results/score.txt` on each cluster |
| `Take`, `Release` | the saves before and after an evaluation, either of which may raise and end the worker: before, with its pair taken and never recorded; after, with the pair recorded and the cluster already back |
| `Interrupt`, `Exit` | the handler of Ctrl+C in `cli.py`, first and second, and the interpreter waiting for its threads |

### Generation

| Model | Code |
|---|---|
| `sol`, `marker` | the solution file (none, torn, whole) and its `.FAILED` marker |
| `Selected`, `Start` | the selection of tasks by mode: default, `--force`, `--only-failed`, `--mark-failed` |
| `Begin` … `UnlinkMarker` | `execute_task` on its thread: `acquire`, the call, `write_text` (truncates first), the marker |
| `Except` | its `except`: write a marker, or raise because it cannot be written |
| `Report`, `ReportSuccess`, `ReportFailure`, `Abort` | the main thread's loop over `as_completed` |
| `failures`, `disabled`, `backoff`, `usage` | the fields of a key in `APIKeyPool` |
| `everOff`, `lost` | history: keys some acquire passed over; tasks whose run was killed or could not mark them |

## 5. What is checked

| Run | Bounds | Shows |
|---|---|---|
| `cache` | 2 workers, 1 slot, 2 contents of which one does not compile, 3 file ids, 1 edit, failing go-judge calls, fairness | `SingleFlight`, `KeptWhileUnedited`, `OnlyOvertakenLinger`, `CachedFileIsLive`; `JobsEnd`, `EditsReachJobs`; `SharingIsTransparent` (`CheckerCache` implements `CheckerService`) |
| `judge_safety` | 2 submissions, 2 workers, queue limit 1, lost responses, failing disk, a reset or a crash | `OneJobPerSubmission`, `AnswerIsOwn`, `NothingVanishes`; `ImplementsService` (`JudgeEngine` implements `JudgeService`) |
| `judge_live` | 2 submissions, 1 worker whom nobody would replace, queue limit 1, failing disk, a reset; fairness | `EveryClientAnswered`, `QueueDrains` |
| `batch_safety` | 2 pairs, 2 contents, 2 workers, 2 commands, 2 edits, 1 crash, failing saves, with and without a bucket | `DurableProgress`, `JoinedMeansEvaluated`, `SkipIsCurrent`, `ProgressIsKept` |
| `batch_live` | 2 pairs, 2 workers, 1 command, failing saves, fairness | `CommandsEnd` |
| `generation` | 3 tasks, of the third of which an earlier run may have left a solution and a marker, 2 threads, 2 keys of weights 1 and 2, back-off up to 2 minutes, clock up to 1, 1 run of any mode, 1 kill, failing disk, fairness | `UsageBalanced`, `OutcomeMatchesDisk`, `DisabledForGood`, `WorkIsKept`, `RunsEnd` |
| `build` | 2 rounds, 2 packages, 3 solutions, 2 score vectors, failing disk and go-judge, time-outs, fairness | `TypeOK`, `NoFailureWithoutCause`, `JudgedAsBuilt`, `InstalledWhole`, `BuildEnds` |
| `pipeline` | 2 iterations, batches of 2, N_div 2, N_final 1, 2 runs, kills anywhere | `Lineage`, `EndsComplete`, `SavedWorkKept`; `ResumedRunsAreOne` (`Pipeline` implements `SynthesisRun`) |
| `cloud` | 2 threads, 3 evaluations, 1 loss of the cluster, failing requests, fairness | `AnswerIsOwn`, `NothingLeftRunning`, `EvaluationsEnd` |
| `pool` | 2 problems, 2 workers, 2 pairs in every assignment, 1 to 3 clusters, failing launches, runs, downloads, downs and saves, interrupts, fairness | `TypeOK`, `AllAreShared`, `LentToOne`, `NothingLeftUp`, `BatchEnds` |

Why the bounds are enough for the interesting cases: one worker compiles or deletes while another waits for it, reads
a newer content, or holds the file; one edit separates the key that is read from the one on disk. Two submissions
suffice for one to be given the other's id or result, and with a queue limit of 1 the second is queued without its
code. Two batch workers contend for the lock and still leave one to take over from the other; two commands are a run
and the one that finds its file; the second edit may undo the first, and two contents tell a current result from a
stale one. Two packages are a set-up and the next round's that meets it or its leftovers. Two runs of the pipeline are
one that is killed and one that resumes. Three evaluations on two threads are two that share a cluster and one that
begins when a thread of theirs has stopped it. Two problems, two pairs and three clusters give every group more, fewer
or as many clusters as pairs. Larger instances (three workers of the cache, three runs of the pipeline) were too large
for a run of a few minutes; the proofs cover them.

In `judge_safety` the reset and crash exclude each other (`OneDisturbance`), as all but `OneJobPerSubmission`, which
is proved, promise nothing after the first. Symmetry is used in safety runs only. `MCGeneration` starts with files of
an earlier run for the third task alone, to keep the run small; `MCClusterPool` fixes the problem of the first pair,
as problems are interchangeable. Deadlock is checked where the system never rests (`cache`); elsewhere the
submissions, commands or runs are used up and the system stops.

### What the code does not do as its comments say

| Run | Claim | What happens |
|---|---|---|
| `pool_score` | `research_skypilot.py:266`: "No score parsed - this is an infrastructure/evaluator error" | the run script never clears `results/`: a pair whose script ends early is recorded with the score the previous pair left on that cluster |
| `cloud_share` | `batch/evaluator.py:379`: "All workers share a single go-judge cluster" | without `keep_cluster` the first evaluation to end stops the cluster under the polls of the others |

## 6. Fairness

Always weak, and only of steps the code's scheduling takes by itself:

* `CheckerCache`: each worker's steps. Every step waits for one I/O of that worker alone, so it stays
  enabled until taken. File reads end; `runOne` has a 300 s time-out (`gojudge.js` L15); uploads and
  deletions have none, so for those the model assumes that go-judge answers (a hazard of its own).
  Starting jobs and editing problems is not fair.
* `JudgeEngine`: each worker's loop, and each client's poll (both clients poll in a loop). `TakeJob` of an
  idle worker may be disabled by another that takes the job, which weak fairness allows. Nobody must submit, reset
  or crash, and the handler of a submission need not go on: `EveryClientAnswered` starts at a client that has its sid.
* `BatchEvaluator`: the main thread and each worker. The runners bound every evaluation by a time-out; a save
  ends or raises; the lock is taken finitely often by the others. Nobody must start a command.
* `Generation`: the steps of a run taken together, without the failures of the disk, which nothing forces. Calls have
  a time limit, and the tasks are finitely many. The clock need not tick: a back-off that outlasts the run refuses the
  tasks.
* `BuildEnvironment`: the client, and each handler of the judge. Time-outs and deaths of the client are not forced.
* `CloudJudge`: each thread; requests, launches and waits end. Nobody must begin an evaluation, the cluster need
  not go, and its judge need not judge: a poll has its own time-out.
* `ClusterPool`: the main thread and each worker; what runs on a cluster ends (its time-out). A wait for a cluster
  ends after 300 s at the latest.

`Pipeline` has no liveness: between its writes it waits for language models without a bound of its own.

## 7. What is proved

Each theorem is for every value of the constants that satisfies the named `ASSUME`s of its module: any sets
of workers, threads, tasks or submissions, any bounds. None of the properties is inductive alone; each proof
module begins with the inductive invariant, in named parts, and has one step per action.

**`CheckerCacheProofs`**: `TypeOK`, `SingleFlight`, `WaitersAwaitCompile`, `CachedFileIsLive`, `CheckerMatchesRead`,
`OnlyOvertakenLinger`, `KeptWhileUnedited`, and the refinement `SharingIsTransparent`. The invariant conjoins the
shape of a worker (which of `slot`, `want`, `file` it has at each `pc`); `compiling[k] = w` exactly when `w` builds
`k`, which makes compiles single-flight; a waiting worker's key is in `compiling`; cached files are stored, and no two
entries or owners share a file id, without which the deletion of one entry's file could empty another's; a stored file
under a source key was built from that source; every stored file has an owner or was left by a failed call, and an
owner in the cache that is not under an active key is under one that was overtaken. `KeptWhileUnedited` needs more:
while nothing was edited, active keys and wanted keys are the key of what is on disk, so no entry is stale. The
refinement (`RInv`) adds who may take a checker away: what a job judges with is in the cache under its own key or
nowhere, and a worker that is deleting it is on the same problem with another key (`Held`); and that whatever is
cached or about to be compiles, fits its key, and before the first edit is exactly what was read (`BuildsFit`). Then
each step maps to a step of the service or to none: the deletion of a stale file and the hit that may follow it are
one `Answer`, which takes one set of jobs' checkers away and gives the deleting job its own.

**`JudgeEngineProofs`**: `TypeOK`, `OneJobPerSubmission`, `AnswerIsOwn`, `NothingVanishes`, and the refinement
`ImplementsService`. Jobs in the queue and with workers belong to submissions whose
handler has passed `SubmitEnqueue`, and no two of them to one; until a reset or a crash, ids that were
given out are pairwise different and not above the counter, a result under an id is that of the submission
with the id, and the code on disk is what its submission wrote. For the refinement: a submission with a job has no
final result yet and none was popped until it is published, so `LoadFails` and `Judge` are the service's one `Judge`
(`PublishMoves`); as no two jobs are one submission's, the worker that saves an outcome is the only one that may take it
back, and `SaveFails` counts `unsaved` down from where it stands (`UnsavedIs`), which the end of the job settles
(`EndSettles`). A handler that fails before `SubmitEnqueue` refuses, one that fails later is a stutter (`FailureRefuses`).

**`BatchEvaluatorProofs`**: `TypeOK`, `DurableProgress`, `ProgressIsKept`, `SkipIsCurrent`,
`JoinedMeansEvaluated`. Added to the types: what the main thread's phase says of the workers; a pair is in
the hands of at most one worker, and then not queued (`Exclusive`), and where that worker is tells whether the
pair's result is running or final (`Marked`); what is about to be written agrees with the results on the
writer's own pair and on each finished pair that nobody holds (`SnapshotIsCurrent`); what a result or a reading
was of has the hash it carries, or had been edited since the hashes were computed, also of the readings that are under
way and what has been edited since (`Fits`, `Traces`); what is settled in the file is so in the
results and in any snapshot, and is not queued (`Kept`); a wanted pair is queued, held, or final (`Accounted`).

**`GenerationProofs`**: `TypeOK`, `OutcomeMatchesDisk`, `DisabledForGood`, `WorkIsKept`, `UsageBalanced`. The files of
a task are related to where it is and how its run was started (a queued task of a default run has no whole solution);
for the balance, that use per weight of any key is at most one call ahead of every key that was never passed over,
which a choice of the least ratio preserves (products of naturals, a lemma of its own).

**`BuildEnvironmentProofs`**: `TypeOK`, `InstalledWhole`, `NoFailureWithoutCause`, `JudgedAsBuilt`. The judge's part
(`SInv`) says of a handler that runs alone how far it has come: what it has not extracted is all that `tmp` misses,
what it has not copied all that the directory misses, then nothing is left in `tmp`, and the source it read and
the `.bin` are its own (`Progress`). Handlers beside each other are all in `beside`, so one that is not in it is alone.
The client's part (`CInv`) adds that nobody else is at a package that is being installed or tried, and that the runs so far
saw it whole.

**`PipelineProofs`**: `TypeOK`, `Lineage`, `EndsComplete`, `SavedWorkKept`, and the refinement `ResumedRunsAreOne`.
While a run goes on it agrees with the checkpoints it has passed: its candidates are those of the last one, its seeds
those selected from the last stages of the iterations before; without a fresh run over older checkpoints, nothing
ahead of it exists that an earlier stage does not cover. For the refinement, what is about to be saved is still what
the stage may yield (`RInv`); then only the close of a checkpoint decides a stage (`CloseDecides`), and of its opening
nothing is seen (`OpenUnseen`): without a fresh run over older checkpoints no whole one is opened.

**`CloudJudgeProofs`**: `TypeOK`, `AnswerIsOwn`, `NothingLeftRunning`. A job under an id a thread holds is of that
thread's evaluation, until a cluster goes under a poll. While a cluster is up that is not kept, either the thread that
launched it is about to tell the runner, or the runner knows it and some thread is still on its way to the `finally`
that stops it (`NInv`): this breaks only where a request or a launch fails on a cluster that is up (`mishap`), or the
flag is reset for an older cluster's sake (`wiped`). Nothing is assumed of the order of launches and resets.

**`ClusterPoolProofs`**: `TypeOK`, `AllAreShared`, `LentToOne`, `NothingLeftUp`. The cardinalities of `LentToOne`
follow from three facts that are inductive: no pool holds a cluster twice, none that a worker is on is in a pool, and
every cluster of the pools is in its pool or with a worker (`InPools`, `Lent`), none of whom has died with one: before
the first save of a pair a worker has none, and before the last it gives it back; that a pool begins with all of its
group's clusters is counting (`OrderedHoldsAll`: an injection between finite sets of one size is onto). For the
clean-up, what is up is in the pools or in the hands of a worker unless somebody's mishap or an interrupt is on record
(`Known`). `AllAreShared` is about the arithmetic of the sharing-out, and its proof is by induction over the pairs
that name the groups (`SharedOut`): as many clusters have been given out as are gone, and what is left is zero or at
most the exact parts of the pairs still to come plus one for each group seen, since a part that is not cut short loses
less than one, or exactly one where the float is low. So what remains after the last pair is at most one per group,
and the second loop gives out exactly that (`LoopShares`, `GivesAll`). The library's induction theorems cannot be used
here, for they take an operator as a parameter; the induction is by least counterexample instead (`Least`, from the
well-foundedness of the naturals).

Not proved, only model-checked: liveness (out of the prover's reach, as is all that needs `ENABLED`).

`TypeOK` is an invariant of a run only for `build` and `pool`, where it says something a bug of the code
could break (a row without its index, a cluster in another group's pool). For the others it
is proved.

## 8. What the models do not promise

Met while modelling, faithful to the code, and the reason why some properties above are qualified:

* *Cache.* A compile of old contents that ends after the active key has moved on is cached under a key no eviction
  will look at again: one go-judge file is kept per such patch, until the same contents are read again, although the
  comments at `judge_engine.js:33-34` and 88-90 say that none is leaked. The same holds of an entry that a second
  worker caches while the first awaits the deletion that makes way for another key. `OnlyOvertakenLinger` says exactly
  this: these are the only files kept beyond those of failed calls.
* *Engine.* A result saved on disk is never served after a restart: `fs` is `fs/promises`, `readFileSync` is
  undefined, and the `catch` answers null (L205-210). A reset with jobs in flight lets them publish under ids that are
  given out again (L206-207 says otherwise): hence "until a reset or a crash". What is promised over a reset is less:
  a job is taken once and ends (`OneJobPerSubmission`, `QueueDrains`).
* *Problem set-up.* An `addProblem` that timed out goes on beside the next, in the same `tmp_<pid>`; a failed compile
  leaves an older `.bin`, a failed extraction its files. `deleteProblem` has no route.
* *Stage 4 and 5.* The test feedback of an earlier round is kept for the next; the `solution_index` of the judge's
  feedback is renumbered (`stage5_output.py:65-72`) where `kept_indices` has the original.
* *Pipeline.* A checkpoint torn by a kill makes every later run that is not fresh die of it (`utils.py:40-51`). A run
  that finds no seed problem on disk says DONE at once (`pipeline.py:115-118`, L143): in the model it does not come to
  its end.
* *Batch.* The placeholder of `research_skypilot.py:243` is recorded as a success, and a sync replaces no success: the
  bucket's score never arrives (`evaluator.py:263-267`). Pairs still queued when a command is killed are in no result,
  so not in a resumed command (`evaluator.py:855-862`). The hashes are taken once, before the workers begin: when a
  solution or a problem is edited between that and its evaluation and the edit is undone later, the result of the
  edited files is skipped under the hash of the old ones (hence the exception in `SkipIsCurrent`; without an undone
  edit such a result is evaluated again). The `common/` directories of a problem's parents, which every run copies
  (`research_docker.py:210-217`, `research_skypilot.py:307-313`), are in no hash (`evaluator.py:235-236`): an edit of
  these invalidates nothing. They are outside the model, and `SkipIsCurrent` is about what the hashes cover.
* *Clusters.* The minimum of one cluster per group (L514) is not kept: groups of 5, 1, 1 and 1 pairs with 4 clusters
  get 2, 1, 1 and 0; the group without one has no pool, and its pairs are evaluated without waiting, each on a cluster
  of its own (`evaluator.py:420-423`, 441). A save that raises before an evaluation (L415) ends the worker with its
  pair unrecorded, one after it (L468) ends the worker only; hence the exceptions of `BatchEnds`. An own cluster is
  named by problem and minute (`research_skypilot.py:169-172`), so two pairs may share one. `cli.py:494` looks for
  `_cluster_names`, which no evaluator has, so Ctrl+C cleans nothing; the creation is outside the `try`
  (`evaluator.py:398`), so an interrupt then leaks; a second Ctrl+C takes the pool's clusters down under the workers.
* *Cloud judge.* `ensureJudge` starts a judge on this machine although `judge_url` is the cloud's. The judge of a new
  cluster begins its ids again, so an old sid may fetch another thread's verdict: hence "as long as no cluster goes
  under a poll". `stop_cluster` resets `_initialized` and `_judge_url` when `sky.down` has returned, outside the lock
  (L320-324), and so does a failed probe of an old address (L204): when the next cluster is ready by then, no
  `finally` finds the flag set and the cluster is left running (`wiped`; TLC finds it when that exception is taken out
  of `NothingLeftRunning`). A launch that raises, or a service that is not ready in time, stops nothing (L237, L241,
  L260-267): a machine that is up, or half up, stays until the next evaluation's `finally` or its autostop.
* *Generation.* The LLM clients turn every refusal into an empty answer, so a rejected key is never disabled, while a
  local "Permission denied" disables it; a late success clears a back-off; a torn solution of a killed run counts as
  generated; tasks that were refused a key leave no marker. A run with `--only-failed` or `--force` writes a whole
  solution anew, in place: `WorkIsKept` is about the others.

## 9. Not modelled

* The judging of cases: running programs, scores, messages, `SAVE_OUTPUTS`. The `Judge` step has any
  outcome.
* Exports, aggregates, problem listing and statements: they only read.
* The contents of requests; validation answers 400 and changes nothing.
* Prompts, parsing of answers, the numbers of the divergence: data whose effect is arbitrary in the models.
* `batch/pair.py` (strings to pairs), the harbor verifier (one client, submit and poll, as in `CloudJudge`), the
  docker runner (sequential glue over a command line, but for where it reads the solution).
* `research/scripts/generate_solutions.py` is built like the algorithmic script and shares its executor and key pool.
* `verl/` and `ALE-Bench/`: vendored third-party projects, a distributed trainer and a benchmark's tool box. They are
  about nine tenths of the implementation's lines, which is why the lines the models translate are a small share of the
  repository although the program's own stateful components are nearly all covered.

What could follow: two commands of the batch evaluator at once over one state file (the code takes no lock between
processes), several problems in one `ProblemSetup` (they share only the process id in `tmp_<pid>`).
