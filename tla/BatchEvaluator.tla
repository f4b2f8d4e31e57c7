--------------------------- MODULE BatchEvaluator ---------------------------
(***************************************************************************)
(* The batch evaluator (batch/evaluator.py, batch/state.py): each command  *)
(* is a process that loads the state file, chooses the (solution, problem) *)
(* pairs that need an evaluation, and lets worker threads evaluate them;   *)
(* every change of a result is saved, by a snapshot and an atomic replace  *)
(* under a lock. Commands follow one another, end or crash; solutions and  *)
(* problems are edited meanwhile. With a bucket (the research track on one *)
(* cloud cluster) the cluster leaves each score there, to be merged at     *)
(* both ends of a command.                                                 *)
(*                                                                         *)
(* A command names a pair once. The content of a pair is what its hashes   *)
(* cover: the solution and the problem's own directory. An edit may bring  *)
(* an earlier content back, and its hash with it. A run also reads the     *)
(* common/ directories of the problem's parents, which are in no hash: an  *)
(* edit of these changes nothing the evaluator looks at, nor anything      *)
(* here. A timeout counts as an error.                                     *)
(***************************************************************************)
EXTENDS Naturals, FiniteSets

CONSTANTS
  Pairs,        \* the (solution, problem) pairs
  Workers,      \* the worker threads of a command
  Buckets,      \* the values of "a bucket is configured" to choose from
  SaveMayFail,  \* may a write of the state file fail?
  Contents,     \* the contents a pair may have, up to their hashes
  MaxEdits,     \* bound: edits of the contents
  MaxCommands,  \* bound: commands started
  MaxCrashes,   \* bound: commands killed
  None          \* no result, no hash, nobody

\* Two kinds of status "success": with score 0, and with another or none.
\* "of" is known to the model only: what a result with hashes was computed from,
\* and whether that had been edited between the hashes and the reading.
Successes == {"success", "zero"}
Final     == Successes \union {"error", "skipped"}
Reading == [content : Contents, edited : BOOLEAN]
Result == [status : Final \union {"running"},
           hash   : Contents \union {None},
           of     : Reading \union {None}]

ASSUME BatchAssumption ==
  /\ Buckets \subseteq BOOLEAN /\ SaveMayFail \in BOOLEAN
  /\ MaxEdits \in Nat /\ MaxCommands \in Nat /\ MaxCrashes \in Nat
  /\ None \notin Workers \union Pairs \union Contents \union Reading \union Result \union Successes

Results == [Pairs -> Result \union {None}]

VARIABLES
  content,   \* the content of each pair on disk
  file,      \* the state file: results by pair
  bucket,    \* the result files in the bucket: their status
  phase,     \* where the main thread of the command is
  resume,    \* does it validate what the file has?
  useBucket, \* has it a bucket?
  wanted,    \* the pairs it is about
  results,   \* self.state.results
  hashes,    \* self._pair_hashes
  todo,      \* the work queue
  wpc,       \* where each worker thread is
  pair,      \* the pair it works on
  seen,      \* what its evaluation read
  snapshot,  \* the results it is writing to the file
  lock,      \* the holder of _state_lock
  edits, commands, crashes,
  touched    \* history: the pairs edited since this command hashed them

diskVars   == <<content, file, bucket>>
mainVars   == <<phase, resume, useBucket, wanted, hashes, touched>>
threadVars == <<todo, wpc, pair, seen, snapshot, lock>>
boundVars  == <<edits, commands, crashes>>
vars == <<diskVars, mainVars, results, threadVars, boundVars>>

Complete(r) == r # None /\ r.status \in Final
Failed(r)   == r # None /\ r.status \in {"error", "zero"}
Running     == [status |-> "running", hash |-> None, of |-> None]
HashesMatch(r, hash) == r.hash = None \/ r.hash = hash

NoResults == [p \in Pairs |-> None]

Init ==
  /\ \E c \in Contents : content = [p \in Pairs |-> c]
  /\ file = NoResults /\ bucket = NoResults /\ results = NoResults
  /\ phase = "off" /\ resume = FALSE /\ useBucket = FALSE /\ wanted = {}
  /\ hashes = [p \in Pairs |-> None]
  /\ todo = {}
  /\ wpc = [w \in Workers |-> "off"]
  /\ pair = [w \in Workers |-> None]
  /\ seen = [w \in Workers |-> None]
  /\ snapshot = [w \in Workers |-> NoResults]
  /\ lock = None
  /\ edits = 0 /\ commands = 0 /\ crashes = 0
  /\ touched = {}

-----------------------------------------------------------------------------
(* The main thread                                                         *)

\* The constructor loads the file; sync and save come with Begin.
Start(validate, pairs, loaded) ==
  /\ phase = "off" /\ commands < MaxCommands
  /\ pairs # {}
  /\ phase' = "begin" /\ resume' = validate /\ wanted' = pairs
  /\ useBucket' \in Buckets
  /\ results' = loaded
  /\ commands' = commands + 1
  /\ UNCHANGED <<content, bucket, hashes, touched, threadVars, edits, crashes>>

Evaluate(pairs) ==
  /\ \E validate \in BOOLEAN : Start(validate, pairs, file)
  /\ UNCHANGED file

Resume ==
  /\ Start(TRUE, {p \in Pairs : file[p] # None}, file)
  /\ UNCHANGED file

\* The failed results are deleted and the file is saved before anything is evaluated.
RetryFailed ==
  LET kept == [p \in Pairs |-> IF Failed(file[p]) THEN None ELSE file[p]]
  IN  /\ Start(FALSE, {p \in Pairs : Failed(file[p])}, kept)
      /\ file' = kept

\* What sync_from_bucket makes of the results: from the bucket, where all are
\* successes and none has a hash, it takes those of pairs that have no success yet.
Merged ==
  [p \in Pairs |->
     IF bucket[p] # None /\ (results[p] = None \/ results[p].status \notin Successes)
     THEN [status |-> bucket[p], hash |-> None, of |-> None]
     ELSE results[p]]

Synced == IF useBucket THEN Merged ELSE results

Begin ==
  /\ phase = "begin"
  /\ phase' = "prepare"
  /\ results' = Synced /\ file' = Synced
  /\ UNCHANGED <<content, bucket, resume, useBucket, wanted, hashes, touched, threadVars, boundVars>>

\* _compute_hashes reads the solutions and the problems' own directories.
ComputedHashes == [p \in Pairs |-> IF p \in wanted THEN content[p] ELSE None]

\* Fault: pending pairs are chosen by hash alone: a result without one is evaluated again.
NeedsEvaluation_Strict(p) == ~Complete(results[p]) \/ results[p].hash # ComputedHashes[p]

NeedsEvaluation(p) == ~Complete(results[p]) \/ ~HashesMatch(results[p], ComputedHashes[p])

Pending ==
  IF resume THEN {p \in wanted : NeedsEvaluation(p)} ELSE wanted

\* Hashes are computed, pending pairs chosen and the workers started.
Prepare ==
  /\ phase = "prepare"
  /\ hashes' = ComputedHashes
  /\ todo' = Pending
  /\ IF Pending = {}
     THEN phase' = "export" /\ UNCHANGED wpc
     ELSE phase' = "working" /\ wpc' = [w \in Workers |-> "idle"]
  /\ UNCHANGED <<diskVars, resume, useBucket, wanted, touched, results,
                 pair, seen, snapshot, lock, boundVars>>

\* The executor has joined every worker, those that died of an exception included.
Join ==
  /\ phase = "working"
  /\ \A w \in Workers : wpc[w] \in {"done", "dead"}
  /\ phase' = "export"
  /\ UNCHANGED <<diskVars, resume, useBucket, wanted, hashes, touched, results, threadVars, boundVars>>

\* The process is gone, and its memory with it.
Exit ==
  /\ phase' = "off" /\ resume' = FALSE /\ useBucket' = FALSE /\ wanted' = {}
  /\ results' = NoResults
  /\ hashes' = [p \in Pairs |-> None] /\ touched' = {}
  /\ todo' = {}
  /\ wpc' = [w \in Workers |-> "off"]
  /\ pair' = [w \in Workers |-> None]
  /\ seen' = [w \in Workers |-> None]
  /\ snapshot' = [w \in Workers |-> NoResults]
  /\ lock' = None

\* _export_all_results: a last sync, which saves only what it has merged.
Export ==
  /\ phase = "export"
  /\ file' = IF Synced = results THEN file ELSE Synced
  /\ Exit
  /\ UNCHANGED <<content, bucket, boundVars>>

\* A save of the main thread raises, which ends the command.
MainSaveFails ==
  /\ SaveMayFail
  /\ \/ phase = "begin"
     \/ phase = "export" /\ Synced # results
  /\ Exit
  /\ UNCHANGED <<diskVars, boundVars>>

Crash ==
  /\ phase # "off" /\ crashes < MaxCrashes
  /\ crashes' = crashes + 1
  /\ Exit
  /\ UNCHANGED <<diskVars, edits, commands>>

-----------------------------------------------------------------------------
(* A worker thread                                                         *)

MoveTo(w, there) == wpc' = [wpc EXCEPT ![w] = there]

Take(w, p) ==
  /\ wpc[w] = "idle"
  /\ p \in todo
  /\ todo' = todo \ {p}
  /\ pair' = [pair EXCEPT ![w] = p]
  /\ results' = [results EXCEPT ![p] = Running]
  /\ MoveTo(w, "saveRunning")
  /\ UNCHANGED <<diskVars, mainVars, seen, snapshot, lock, boundVars>>

NoMoreWork(w) ==
  /\ wpc[w] = "idle" /\ todo = {}
  /\ MoveTo(w, "done")
  /\ UNCHANGED <<diskVars, mainVars, results, todo, pair, seen, snapshot, lock, boundVars>>

\* Fault: a save that does not take the lock.
Snapshot_NoLock(w) ==
  /\ wpc[w] \in {"saveRunning", "saveResult"}
  /\ lock' = w
  /\ snapshot' = [snapshot EXCEPT ![w] = results]
  /\ MoveTo(w, IF wpc[w] = "saveRunning" THEN "writeRunning" ELSE "writeResult")
  /\ UNCHANGED <<diskVars, mainVars, results, todo, pair, seen, boundVars>>

\* _save_state: under the lock the results are copied, written to a temporary
\* file, and renamed over the state file.
Snapshot(w) ==
  /\ wpc[w] \in {"saveRunning", "saveResult"}
  /\ lock = None
  /\ lock' = w
  /\ snapshot' = [snapshot EXCEPT ![w] = results]
  /\ MoveTo(w, IF wpc[w] = "saveRunning" THEN "writeRunning" ELSE "writeResult")
  /\ UNCHANGED <<diskVars, mainVars, results, todo, pair, seen, boundVars>>

\* The next pair is taken as soon as the result is saved.
Replace(w) ==
  /\ wpc[w] \in {"writeRunning", "writeResult"}
  /\ file' = snapshot[w]
  /\ snapshot' = [snapshot EXCEPT ![w] = NoResults]
  /\ lock' = None
  /\ IF wpc[w] = "writeRunning"
     THEN MoveTo(w, "evaluate") /\ UNCHANGED pair
     ELSE MoveTo(w, "idle") /\ pair' = [pair EXCEPT ![w] = None]
  /\ UNCHANGED <<content, bucket, mainVars, results, todo, seen, boundVars>>

\* Fault: a failed save does not release the lock.
SaveFails_KeepsLock(w) ==
  /\ SaveMayFail
  /\ wpc[w] \in {"writeRunning", "writeResult"}
  /\ snapshot' = [snapshot EXCEPT ![w] = NoResults]
  /\ MoveTo(w, "dead")
  /\ UNCHANGED <<diskVars, mainVars, results, todo, pair, seen, lock, boundVars>>

\* Both saves are outside the worker's try: the exception ends its thread.
SaveFails(w) ==
  /\ SaveMayFail
  /\ wpc[w] \in {"writeRunning", "writeResult"}
  /\ snapshot' = [snapshot EXCEPT ![w] = NoResults]
  /\ lock' = None
  /\ MoveTo(w, "dead")
  /\ UNCHANGED <<diskVars, mainVars, results, todo, pair, seen, boundVars>>

\* The runner copies the solution and the problem, and judges the copy.
ReadContent(w) ==
  /\ wpc[w] = "evaluate"
  /\ seen' = [seen EXCEPT ![w] =
       [content |-> content[pair[w]], edited |-> pair[w] \in touched]]
  /\ MoveTo(w, "judge")
  /\ UNCHANGED <<diskVars, mainVars, results, todo, pair, snapshot, lock, boundVars>>

\* On the cluster, the run script writes the score to the bucket.
WriteToBucket(w) ==
  /\ useBucket /\ wpc[w] = "judge"
  /\ \E s \in Successes : bucket' = [bucket EXCEPT ![pair[w]] = s]
  /\ MoveTo(w, "judged")
  /\ UNCHANGED <<content, file, mainVars, results, todo, pair, seen, snapshot, lock, boundVars>>

\* What the runner can return: with a bucket, "Results written to bucket" for a
\* success, whatever became of the run.
Outcomes == IF useBucket THEN {"success", "error"} ELSE Final

Record(w, status, hash, of) ==
  /\ wpc[w] \in {"judge", "judged"}
  /\ results' = [results EXCEPT ![pair[w]] = [status |-> status, hash |-> hash, of |-> of]]
  /\ seen' = [seen EXCEPT ![w] = None]
  /\ MoveTo(w, "saveResult")
  /\ UNCHANGED <<diskVars, mainVars, todo, pair, snapshot, lock, boundVars>>

\* Fault: the hash is computed when the result is recorded.
RecordedHash_Now(p) == content[p]

\* _record_result gives a result the hashes computed before the workers began.
RecordedHash(p) == hashes[p]

Return(w) == \E s \in Outcomes : Record(w, s, RecordedHash(pair[w]), seen[w])

\* Fault: a raising runner is logged, and nothing is recorded.
Raise_LogOnly(w) ==
  /\ wpc[w] \in {"judge", "judged"}
  /\ seen' = [seen EXCEPT ![w] = None]
  /\ MoveTo(w, "saveResult")
  /\ UNCHANGED <<diskVars, mainVars, results, todo, pair, snapshot, lock, boundVars>>

\* The runner raises: an error without hashes is recorded.
Raise(w) == Record(w, "error", None, None)

-----------------------------------------------------------------------------
\* An edit of a solution, or of a problem for one of its pairs; it may undo
\* another.
Edit(p, c) ==
  /\ edits < MaxEdits
  /\ c # content[p]
  /\ edits' = edits + 1
  /\ content' = [content EXCEPT ![p] = c]
  /\ touched' = IF hashes[p] = None THEN touched ELSE touched \union {p}
  /\ UNCHANGED <<file, bucket, phase, resume, useBucket, wanted, hashes, results, threadVars,
                 commands, crashes>>

Command == (\E pairs \in SUBSET Pairs : Evaluate(pairs)) \/ Resume \/ RetryFailed

MainStep == Begin \/ Prepare \/ Join \/ Export \/ MainSaveFails

WorkerStep(w) ==
  \/ \E p \in Pairs : Take(w, p)
  \/ NoMoreWork(w)
  \/ Snapshot(w) \/ Replace(w) \/ SaveFails(w)
  \/ ReadContent(w) \/ WriteToBucket(w) \/ Return(w) \/ Raise(w)

Next ==
  \/ Command \/ MainStep \/ Crash
  \/ \E w \in Workers : WorkerStep(w)
  \/ \E p \in Pairs, c \in Contents : Edit(p, c)

Spec == Init /\ [][Next]_vars

\* Threads go on, a save ends, and the runner's time limit ends every evaluation.
FairSpec ==
  /\ Spec
  /\ WF_vars(MainStep)
  /\ \A w \in Workers : WF_vars(WorkerStep(w))

-----------------------------------------------------------------------------
(* Properties                                                              *)

Pcs == {"off", "idle", "saveRunning", "writeRunning", "evaluate", "judge", "judged",
        "saveResult", "writeResult", "done", "dead"}

Holding == {w \in Workers : wpc[w] \in {"writeRunning", "writeResult"}}
Busy    == {w \in Workers : wpc[w] \notin {"off", "idle", "done"}}

\* Every variable has its type; while workers run, exactly the wanted pairs
\* have hashes, every busy worker has a pair, and the lock is held by the
\* thread that writes the file (_compute_hashes, the worker loop, _save_state).
TypeOK ==
  /\ content \in [Pairs -> Contents]
  /\ file \in Results /\ results \in Results
  /\ bucket \in [Pairs -> Successes \union {None}]
  /\ phase \in {"off", "begin", "prepare", "working", "export"}
  /\ resume \in BOOLEAN /\ useBucket \in BOOLEAN /\ wanted \subseteq Pairs
  /\ hashes \in [Pairs -> Contents \union {None}]
  /\ phase \in {"working", "export"} => \A p \in Pairs : hashes[p] # None <=> p \in wanted
  /\ todo \subseteq wanted
  /\ wpc \in [Workers -> Pcs]
  /\ pair \in [Workers -> Pairs \union {None}]
  /\ \A w \in Workers : w \in Busy <=> pair[w] # None
  /\ seen \in [Workers -> Reading \union {None}]
  /\ snapshot \in [Workers -> Results]
  /\ Holding = {w \in Workers : lock = w}
  /\ touched \subseteq Pairs
  /\ edits \in 0 .. MaxEdits /\ commands \in 0 .. MaxCommands /\ crashes \in 0 .. MaxCrashes

\* Once a worker has gone on to other work, the result it recorded is in the
\* file, whatever the other threads save: no later replace brings back older
\* results (_save_state, "thread-safe").
DurableProgress ==
  phase \in {"working", "export"} =>
    \A p \in Pairs :
      Complete(results[p]) /\ (\A w \in Workers : pair[w] # p) => file[p] = results[p]

\* A command that validates never undoes or repeats an evaluation the file has
\* with the hashes of this command, not even through a crash, a failed save
\* or a sync (get_pending_pairs).
ProgressIsKept ==
  [][phase = "working" /\ resume =>
       \A p \in wanted :
         Complete(file[p]) /\ HashesMatch(file[p], hashes[p]) => file'[p] = file[p]]_vars

\* When the workers have been joined, every wanted pair has a final result,
\* except one that a failed save took a worker away from, or any if no worker
\* is left (_evaluate_with_workers).
JoinedMeansEvaluated ==
  phase = "export" =>
    \/ \A w \in Workers : wpc[w] = "dead"
    \/ \A p \in wanted : Complete(results[p]) \/ \E w \in Workers : wpc[w] = "dead" /\ pair[w] = p

\* A saved result whose hashes are those of the files on disk, and which is
\* therefore skipped, was computed from these files, however edits, undone edits,
\* evaluations and crashes interleave, unless an edit came between the hashes of
\* its command and the reading of its evaluation (_compute_hashes runs before any
\* evaluation reads; a result keeps those hashes). It is not said of the common/
\* directories of the problem's parents, which are in no hash.
SkipIsCurrent ==
  \A p \in Pairs :
    Complete(file[p]) /\ file[p].hash = content[p] =>
      file[p].of.content = content[p] \/ file[p].of.edited

\* A command that is not killed ends, whichever saves fail: no worker waits
\* for a lock whose holder has died, and the join finds every worker ended.
CommandsEnd == phase # "off" ~> phase = "off"
=============================================================================
