------------------------ MODULE BatchEvaluatorProofs ------------------------
(***************************************************************************)
(* The safety of the batch evaluator, for any number of pairs, workers,    *)
(* commands, edits and crashes.                                            *)
(***************************************************************************)
EXTENDS BatchEvaluator, TLAPS

\* What the main thread's phase says of the workers.
Phases ==
  /\ phase \in {"off", "begin", "prepare"} => todo = {} /\ \A w \in Workers : wpc[w] = "off"
  /\ phase = "working" => \A w \in Workers : wpc[w] # "off"
  /\ phase = "export" => \A w \in Workers : wpc[w] \in {"off", "done", "dead"}

\* A worker that is judging knows what it judges, and works on a wanted pair.
Judging ==
  \A w \in Workers :
    /\ wpc[w] \in {"judge", "judged"} => seen[w] \in Reading
    /\ pair[w] # None => pair[w] \in wanted

TInv == TypeOK /\ Phases /\ Judging

-----------------------------------------------------------------------------
\* Whatever ends the process leaves a well-typed state behind.
LEMMA ExitTyped ==
  ASSUME TInv, Exit, UNCHANGED <<content, bucket, edits, commands>>,
         crashes' \in 0 .. MaxCrashes, file' \in Results
  PROVE  TInv'
<1> USE BatchAssumption DEF TInv, Exit
<1>1. NoResults \in Results
  BY DEF NoResults, Results
<1>2. /\ \A w \in Workers : wpc'[w] = "off" /\ pair'[w] = None
      /\ Holding' = {} /\ Busy' = {} /\ {w \in Workers : lock' = w} = {}
  BY DEF Holding, Busy
<1>3. TypeOK'
  BY <1>1, <1>2 DEF TypeOK, Pcs
<1>4. Phases' /\ Judging'
  BY <1>2 DEF Phases, Judging
<1>5. QED
  BY <1>3, <1>4

\* What a sync makes of well-typed results is well typed.
LEMMA SyncedTyped ==
  ASSUME TypeOK
  PROVE  Synced \in Results
BY DEF TypeOK, Synced, Merged, Results, Result, Successes, Final

\* The start of a command, up to its first save.
LEMMA StartTyped ==
  ASSUME TInv, NEW validate \in BOOLEAN,
         NEW pairs \in SUBSET Pairs, NEW loaded \in Results,
         Start(validate, pairs, loaded), file' \in Results
  PROVE  TInv'
<1> USE BatchAssumption DEF TInv, Start, Phases, Judging, threadVars, Busy, Holding
<1>1. TypeOK'
  BY DEF TypeOK
<1>2. Phases' /\ Judging'
  BY DEF TypeOK
<1>3. QED
  BY <1>1, <1>2

\* Commands start from a process that is off.
LEMMA CommandTyped ==
  ASSUME TInv, Command
  PROVE  TInv'
<1>1. ASSUME NEW pairs \in SUBSET Pairs, Evaluate(pairs) PROVE TInv'
  BY <1>1, StartTyped, ZenonT(60) DEF Evaluate, TInv, TypeOK
<1>2. CASE Resume
  BY <1>2, StartTyped DEF Resume, TInv, TypeOK
<1>3. CASE RetryFailed
  <2> DEFINE kept == [p \in Pairs |-> IF Failed(file[p]) THEN None ELSE file[p]]
  <2>1. kept \in Results
    BY DEF TInv, TypeOK, Results
  <2>2. Start(FALSE, {p \in Pairs : Failed(file[p])}, kept) /\ file' = kept
    BY <1>3 DEF RetryFailed
  <2> HIDE DEF kept
  <2>3. QED
    BY <2>1, <2>2, StartTyped
<1>4. QED
  BY <1>1, <1>2, <1>3 DEF Command

\* The main thread hashes exactly the wanted pairs, and leaves threads to themselves.
LEMMA MainTyped ==
  ASSUME TInv, MainStep
  PROVE  TInv'
<1> USE BatchAssumption
<1>1. CASE Begin
  BY <1>1, SyncedTyped
     DEF TInv, TypeOK, Pcs, Phases, Judging, Begin, threadVars, boundVars, Busy, Holding
<1>2. CASE Prepare
  <2>1. Pending \subseteq wanted
    BY DEF Pending
  <2>2. ComputedHashes \in [Pairs -> Contents \union {None}]
        /\ \A p \in Pairs : ComputedHashes[p] # None <=> p \in wanted
    BY BatchAssumption DEF ComputedHashes, TInv, TypeOK
  <2>3. QED
    BY <1>2, <2>1, <2>2
       DEF TInv, TypeOK, Pcs, Phases, Judging, Prepare, diskVars, boundVars, Busy, Holding
<1>3. CASE Join
  BY <1>3
     DEF TInv, TypeOK, Pcs, Phases, Judging, Join, diskVars, threadVars, boundVars, Busy, Holding
<1>4. CASE Export
  BY <1>4, SyncedTyped, ExitTyped DEF TInv, TypeOK, Export, boundVars
<1>5. CASE MainSaveFails
  BY <1>5, ExitTyped DEF TInv, TypeOK, MainSaveFails, diskVars, boundVars
<1>6. QED
  BY <1>1, <1>2, <1>3, <1>4, <1>5 DEF MainStep

\* A worker takes its pair when it becomes busy and the lock when it writes.
LEMMA WorkerTyped ==
  ASSUME TInv, NEW w \in Workers, WorkerStep(w)
  PROVE  TInv'
<1> USE BatchAssumption DEF TInv, TypeOK, Pcs, Phases, Judging, Busy, Holding, MoveTo,
      diskVars, mainVars, boundVars
<1>1. ASSUME NEW p \in Pairs, Take(w, p) PROVE TInv'
  <2>1. results' \in Results
    BY <1>1 DEF Take, Results, Result, Running, Final
  <2>2. QED
    BY <1>1, <2>1 DEF Take
<1>2. CASE NoMoreWork(w)
  BY <1>2 DEF NoMoreWork
<1>3. CASE Snapshot(w)
  BY <1>3 DEF Snapshot
<1>4. CASE Replace(w)
  <2>1. file' \in Results /\ snapshot' \in [Workers -> Results]
    BY <1>4 DEF Replace, NoResults, Results
  <2>2. QED
    BY <1>4, <2>1 DEF Replace
<1>5. CASE SaveFails(w)
  <2>1. snapshot' \in [Workers -> Results]
    BY <1>5 DEF SaveFails, NoResults, Results
  <2>2. QED
    BY <1>5, <2>1 DEF SaveFails
<1>6. CASE ReadContent(w)
  <2>1. [content |-> content[pair[w]], edited |-> pair[w] \in touched] \in Reading
    BY <1>6 DEF ReadContent, Reading
  <2>2. QED
    BY <1>6, <2>1 DEF ReadContent
<1>7. CASE WriteToBucket(w)
  <2>1. bucket' \in [Pairs -> Successes \union {None}]
    BY <1>7 DEF WriteToBucket
  <2>2. QED
    BY <1>7, <2>1 DEF WriteToBucket
<1>8. ASSUME NEW s \in Final, NEW h \in Contents \union {None},
            NEW o \in Reading \union {None}, Record(w, s, h, o) PROVE TInv'
  <2>1. results' \in Results
    BY <1>8 DEF Record, Results, Result
  <2>2. QED
    BY <1>8, <2>1 DEF Record
<1>9. CASE Return(w)
  <2>1. /\ wpc[w] \in {"judge", "judged"}
        /\ \E s \in Final : Record(w, s, hashes[pair[w]], seen[w])
    BY <1>9 DEF Return, Outcomes, RecordedHash, Final, Successes, Record
  <2>2. hashes[pair[w]] \in Contents \union {None} /\ seen[w] \in Reading \union {None}
    BY <2>1
  <2>3. QED
    BY <1>8, <2>1, <2>2
<1>10. CASE Raise(w)
  BY <1>8, <1>10 DEF Raise, Final
<1>11. QED
  BY <1>1, <1>2, <1>3, <1>4, <1>5, <1>6, <1>7, <1>9, <1>10 DEF WorkerStep

\* An edit gives a pair another content.
LEMMA EditTyped ==
  ASSUME TInv, NEW p \in Pairs, NEW c \in Contents, Edit(p, c)
  PROVE  TInv'
BY BatchAssumption DEF TInv, TypeOK, Phases, Judging, Edit, threadVars, Busy, Holding

\* A crash is an exit at any moment.
LEMMA CrashTyped ==
  ASSUME TInv, Crash
  PROVE  TInv'
BY BatchAssumption, ExitTyped DEF TInv, TypeOK, Crash, diskVars

\* The system starts well typed.
LEMMA TInvInit == Init => TInv
<1> SUFFICES ASSUME Init PROVE TInv
  OBVIOUS
<1> USE BatchAssumption DEF Init
<1>1. NoResults \in Results /\ NoResults \in [Pairs -> Successes \union {None}]
  BY DEF NoResults, Results
<1>2. Holding = {} /\ Busy = {} /\ {w \in Workers : lock = w} = {}
  BY DEF Holding, Busy
<1>3. TypeOK
  <2>1. 0 \in 0 .. MaxEdits /\ 0 \in 0 .. MaxCommands /\ 0 \in 0 .. MaxCrashes
    OBVIOUS
  <2>2. /\ content \in [Pairs -> Contents]
        /\ hashes \in [Pairs -> Contents \union {None}]
        /\ wpc \in [Workers -> {"off"}] /\ pair \in [Workers -> {None}]
        /\ seen \in [Workers -> {None}] /\ snapshot \in [Workers -> Results]
    BY <1>1, <2>1
  <2>3. QED
    BY <1>1, <1>2, <2>1, <2>2 DEF TypeOK, Pcs
<1>4. Phases /\ Judging
  BY DEF Phases, Judging
<1>5. QED
  BY <1>3, <1>4 DEF TInv

\* Every step keeps the types.
LEMMA TInvStep == TInv /\ [Next]_vars => TInv'
<1> SUFFICES ASSUME TInv, [Next]_vars PROVE TInv'
  OBVIOUS
<1>1. CASE UNCHANGED vars
  BY <1>1
     DEF TInv, TypeOK, Phases, Judging, vars, diskVars, mainVars, threadVars, boundVars, Busy,
         Holding
<1>2. QED
  BY <1>1, CommandTyped, MainTyped, CrashTyped, WorkerTyped, EditTyped DEF Next

\* Every reachable state is well typed: the lock is held by exactly the thread
\* that writes the file, and every busy worker has a pair.
THEOREM TypeCorrect == Spec => []TypeOK
<1>1. TInv => TypeOK
  BY DEF TInv
<1>2. QED
  BY <1>1, TInvInit, TInvStep, PTL DEF Spec

-----------------------------------------------------------------------------
\* A pair is in the hands of one worker at most, and then no longer queued.
Exclusive ==
  /\ \A v, w \in Workers : pair[v] # None /\ pair[v] = pair[w] => v = w
  /\ \A w \in Workers : pair[w] \notin todo

\* Where a worker is tells what its pair's result is.
Marked ==
  \A w \in Workers :
    /\ wpc[w] \in {"saveRunning", "writeRunning", "evaluate", "judge", "judged"}
         => results[pair[w]] = Running
    /\ wpc[w] \in {"saveResult", "writeResult"} => Complete(results[pair[w]])

Free(p) == \A w \in Workers : pair[w] # p

\* What is about to be written is current: for the writer's own pair, and for
\* every pair that is finished and left alone.
SnapshotIsCurrent ==
  \A w \in Holding :
    /\ snapshot[w][pair[w]] = results[pair[w]]
    /\ \A p \in Pairs : Complete(results[p]) /\ Free(p) => snapshot[w][p] = results[p]

SavedFirst == phase = "prepare" => file = results

\* What was read for a hash is what was hashed, or was edited in between.
Fits(reading, hash) == reading.content = hash \/ reading.edited

Traced(r) == r # None /\ r.hash # None => r.of # None /\ Fits(r.of, r.hash)

Traces ==
  /\ \A p \in Pairs : Traced(file[p]) /\ Traced(results[p])
  /\ \A w \in Workers, p \in Pairs : Traced(snapshot[w][p])
  /\ \A p \in Pairs : hashes[p] # None => content[p] = hashes[p] \/ p \in touched
  /\ \A w \in Workers : wpc[w] \in {"judge", "judged"} => Fits(seen[w], hashes[pair[w]])

Settled(r, p) == Complete(r) /\ HashesMatch(r, hashes[p])

\* While a validating command works, what is settled in the file is so in the
\* results and in whatever is about to be written, and the other way round.
Kept ==
  phase = "working" /\ resume =>
    \A p \in wanted :
      /\ Settled(results[p], p) => p \notin todo
      /\ Settled(file[p], p) => results[p] = file[p]
      /\ \A w \in Holding :
           /\ Settled(snapshot[w][p], p) => results[p] = snapshot[w][p]
           /\ Settled(file[p], p) => snapshot[w][p] = file[p]

\* A wanted pair is queued, or in the hands of a worker, or evaluated.
Accounted ==
  /\ phase \in {"working", "export"} =>
       \A p \in wanted : p \in todo \/ Complete(results[p]) \/ \E w \in Workers : pair[w] = p
  /\ \A w \in Workers : wpc[w] = "done" => todo = {}
  /\ phase = "export" => todo = {} \/ \A w \in Workers : wpc[w] = "dead"

Rest ==
  /\ Exclusive /\ Marked
  /\ SavedFirst /\ SnapshotIsCurrent /\ DurableProgress
  /\ Traces
  /\ Kept
  /\ Accounted

IInv == TInv /\ Rest

\* Workers run only while the main thread waits for them.
LEMMA Quiet ==
  ASSUME TInv, phase # "working"
  PROVE  Holding = {} /\ \A w \in Workers : wpc[w] \in {"off", "done", "dead"}
BY DEF TInv, TypeOK, Phases, Holding

\* A busy worker has a wanted pair, which has a hash.
LEMMA Working ==
  ASSUME TInv, NEW w \in Workers, wpc[w] \notin {"off", "done", "dead"}
  PROVE  /\ phase = "working"
         /\ wpc[w] # "idle" =>
              pair[w] \in wanted /\ pair[w] \in Pairs /\ hashes[pair[w]] \in Contents
BY DEF TInv, TypeOK, Phases, Judging, Busy

\* The writer is the holder of the lock.
LEMMA OneWriter ==
  ASSUME TInv, NEW v \in Holding, NEW w \in Holding
  PROVE  v = w
BY DEF TInv, TypeOK

\* A process that is gone leaves only the file behind.
LEMMA ExitKeeps ==
  ASSUME IInv, Exit, UNCHANGED <<content, edits>>, \A p \in Pairs : Traced(file'[p])
  PROVE  Rest'
<1> USE BatchAssumption DEF Exit
<1>1. /\ \A w \in Workers : wpc'[w] = "off" /\ pair'[w] = None /\ snapshot'[w] = NoResults
      /\ Holding' = {}
  BY DEF Holding
<1>2. Traces'
  BY <1>1 DEF IInv, Rest, Traces, Traced, Fits, NoResults, TInv, TypeOK
<1>3. QED
  BY <1>1, <1>2
     DEF Rest, Exclusive, Marked, SavedFirst, SnapshotIsCurrent, DurableProgress, Kept, Accounted

\* A sync brings in results without hashes only.
LEMMA SyncedTraced ==
  ASSUME IInv
  PROVE  \A p \in Pairs : Traced(Synced[p])
BY DEF IInv, Rest, Traces, Traced, Fits, Synced, Merged

LEMMA StartKeeps ==
  ASSUME IInv, NEW validate, NEW pairs, NEW loaded, Start(validate, pairs, loaded),
         \A p \in Pairs : Traced(file'[p]) /\ Traced(loaded[p])
  PROVE  Rest'
<1> USE DEF Start, threadVars
<1>1. \A w \in Workers : wpc[w] = "off" /\ pair[w] = None
  BY DEF IInv, TInv, TypeOK, Phases, Busy
<1>2. Holding' = {}
  BY <1>1 DEF Holding
<1>3. Traces'
  BY <1>1 DEF IInv, Rest, Traces, Traced, Fits
<1>4. Exclusive'
  BY DEF IInv, Rest, Exclusive
<1>5. QED
  BY <1>1, <1>2, <1>3, <1>4
     DEF Rest, Marked, SavedFirst, SnapshotIsCurrent, DurableProgress, Kept, Accounted

\* A command starts from the file, or from what a retry leaves of it.
LEMMA CommandKeeps ==
  ASSUME IInv, Command
  PROVE  Rest'
<1>1. \A p \in Pairs : Traced(file[p])
  BY DEF IInv, Rest, Traces
<1>2. ASSUME NEW pairs \in SUBSET Pairs, Evaluate(pairs) PROVE Rest'
  BY <1>1, <1>2, StartKeeps DEF Evaluate
<1>3. CASE Resume
  BY <1>1, <1>3, StartKeeps DEF Resume
<1>4. CASE RetryFailed
  <2> DEFINE kept == [p \in Pairs |-> IF Failed(file[p]) THEN None ELSE file[p]]
  <2>1. \A p \in Pairs : Traced(kept[p])
    BY <1>1 DEF Traced
  <2>2. Start(FALSE, {p \in Pairs : Failed(file[p])}, kept) /\ file' = kept
    BY <1>4 DEF RetryFailed
  <2> HIDE DEF kept
  <2>3. QED
    BY <2>1, <2>2, StartKeeps
<1>5. QED
  BY <1>2, <1>3, <1>4 DEF Command

\* The first save makes the file what the results are.
LEMMA BeginKeeps ==
  ASSUME IInv, Begin
  PROVE  Rest'
<1> USE DEF Begin, threadVars, boundVars
<1>1. \A w \in Workers : wpc[w] = "off" /\ pair[w] = None
  BY DEF IInv, TInv, TypeOK, Phases, Busy
<1>2. Holding' = {}
  BY <1>1 DEF Holding
<1>3. Traces'
  BY <1>1, SyncedTraced DEF IInv, Rest, Traces, Traced, Fits
<1>4. Exclusive'
  BY DEF IInv, Rest, Exclusive
<1>5. QED
  BY <1>1, <1>2, <1>3, <1>4
     DEF Rest, Marked, SavedFirst, SnapshotIsCurrent, DurableProgress, Kept, Accounted

\* What is not pending is settled; the file is what the results are.
LEMMA PrepareKeeps ==
  ASSUME IInv, Prepare
  PROVE  Rest'
<1> USE BatchAssumption DEF Prepare, diskVars, boundVars
<1>1. file = results /\ \A w \in Workers : wpc[w] = "off" /\ pair[w] = None
  BY DEF IInv, Rest, SavedFirst, TInv, TypeOK, Phases, Busy
<1>2. \A w \in Workers : wpc'[w] \in {"off", "idle"} /\ pair'[w] = None
  BY <1>1
<1>3. Holding' = {}
  BY <1>2 DEF Holding
<1>4. Pending \subseteq Pairs
  BY DEF Pending, IInv, TInv, TypeOK
<1>5. Exclusive'
  BY <1>2, <1>4 DEF Exclusive
<1>6. Traces'
  <2>1. \A p \in Pairs : hashes'[p] # None => content[p] = hashes'[p]
    BY DEF ComputedHashes
  <2>2. QED
    BY <1>2, <2>1 DEF IInv, Rest, Traces, Traced, Fits
<1>7. resume => \A p \in wanted : Settled(results[p], p)' => p \notin todo'
  BY DEF Pending, NeedsEvaluation, Settled
<1>8. Kept'
  BY <1>1, <1>3, <1>7 DEF Kept
<1>9. Accounted'
  BY <1>2 DEF Accounted, Pending, NeedsEvaluation
<1>10. QED
  BY <1>1, <1>2, <1>3, <1>5, <1>6, <1>8, <1>9
  DEF Rest, Marked, SavedFirst, SnapshotIsCurrent, DurableProgress

\* Workers that have ended hold no lock and have saved what they left.
LEMMA JoinKeeps ==
  ASSUME IInv, Join
  PROVE  Rest'
<1> USE DEF Join, diskVars, threadVars, boundVars, IInv, Rest
<1>1. Holding' = {}
  BY DEF Holding
<1>2. Exclusive' /\ Marked' /\ SavedFirst' /\ DurableProgress'
  BY DEF Exclusive, Marked, SavedFirst, DurableProgress
<1>3. Traces'
  BY DEF Traces, Traced, Fits
<1>4. Accounted'
  BY DEF Accounted
<1>5. QED
  BY <1>1, <1>2, <1>3, <1>4 DEF SnapshotIsCurrent, Kept

\* The steps of the main thread.
LEMMA MainKeeps ==
  ASSUME IInv, MainStep
  PROVE  Rest'
<1>1. \A p \in Pairs : Traced(file[p])
  BY DEF IInv, Rest, Traces
<1>2. CASE Export
  BY <1>1, <1>2, SyncedTraced, ExitKeeps DEF Export, boundVars
<1>3. CASE MainSaveFails
  BY <1>1, <1>3, ExitKeeps DEF MainSaveFails, diskVars, boundVars
<1>4. QED
  BY <1>2, <1>3, BeginKeeps, PrepareKeeps, JoinKeeps DEF MainStep

\* A crash leaves the file as it was last replaced.
LEMMA CrashKeeps ==
  ASSUME IInv, Crash
  PROVE  Rest'
<1>1. \A p \in Pairs : Traced(file[p])
  BY DEF IInv, Rest, Traces
<1>2. QED
  BY <1>1, ExitKeeps DEF Crash, diskVars

\* An edit of a pair that has its hashes is remembered.
LEMMA EditKeeps ==
  ASSUME IInv, NEW p \in Pairs, NEW c \in Contents, Edit(p, c)
  PROVE  Rest'
<1> USE BatchAssumption DEF Edit, threadVars, IInv, Rest
<1>1. \A q \in Pairs : hashes[q] # None => content'[q] = hashes[q] \/ q \in touched'
  BY DEF Traces, TInv, TypeOK
<1>2. Traces'
  BY <1>1 DEF Traces, Traced, Fits
<1>3. Exclusive' /\ Marked' /\ SavedFirst' /\ DurableProgress' /\ Accounted'
  BY DEF Exclusive, Marked, SavedFirst, DurableProgress, Accounted
<1>4. QED
  BY <1>2, <1>3 DEF SnapshotIsCurrent, Kept, Holding, Free, Settled

\* A taken pair was not settled, and nobody had it.
LEMMA TakeKeeps ==
  ASSUME IInv, NEW w \in Workers, NEW p \in Pairs, Take(w, p)
  PROVE  Rest'
<1> USE BatchAssumption DEF Take, MoveTo, diskVars, mainVars, boundVars, IInv, Rest
<1>1. /\ phase = "working" /\ pair[w] = None /\ \A v \in Workers : pair[v] # p
      /\ wpc \in [Workers -> Pcs] /\ pair \in [Workers -> Pairs \union {None}]
      /\ results \in [Pairs -> Result \union {None}]
  BY Working, SMTT(30) DEF Exclusive, TInv, TypeOK, Busy, Results
<1>2. /\ Holding' = Holding /\ w \notin Holding
      /\ \A v \in Workers \ {w} : pair'[v] = pair[v] /\ wpc'[v] = wpc[v]
      /\ pair'[w] = p /\ wpc'[w] = "saveRunning"
      /\ results'[p] = Running /\ ~Complete(Running)
      /\ \A q \in Pairs \ {p} : results'[q] = results[q]
  BY <1>1 DEF Holding, Complete, Running, Final, Successes
<1>3. Exclusive'
  BY <1>1, <1>2 DEF Exclusive
<1>4. Marked'
  <2>1. \A v \in Workers \ {w} : wpc[v] \notin {"off", "idle", "done", "dead"} => pair[v] \in Pairs \ {p}
    BY <1>1, Working
  <2>2. QED
    BY <1>1, <1>2, <2>1 DEF Marked
<1>5. \A q \in Pairs : Complete(results'[q]) /\ Free(q)' => Free(q) /\ results'[q] = results[q]
  BY <1>1, <1>2 DEF Free
<1>6. SnapshotIsCurrent'
  <2>1. \A v \in Holding : v # w /\ pair[v] \in Pairs \ {p}
    BY <1>1, <1>2, Working DEF Holding
  <2>2. QED
    BY <1>2, <1>5, <2>1 DEF SnapshotIsCurrent, Holding
<1>7. DurableProgress'
  BY <1>1, <1>5 DEF DurableProgress, Free
<1>8. Traces'
  BY <1>2 DEF Traces, Traced, Fits, Running
<1>9. Kept'
  <2>1. SUFFICES ASSUME resume, NEW q \in wanted PROVE
          /\ Settled(results'[q], q) => q \notin todo'
          /\ Settled(file[q], q) => results'[q] = file[q]
          /\ \A v \in Holding :
               /\ Settled(snapshot[v][q], q) => results'[q] = snapshot[v][q]
               /\ Settled(file[q], q) => snapshot[v][q] = file[q]
    BY <1>2 DEF Kept, Settled
  <2>2. q \in Pairs
    BY DEF TInv, TypeOK
  <2>3. CASE q # p
    BY <1>1, <1>2, <2>1, <2>2, <2>3 DEF Kept
  <2>4. CASE q = p
    BY <1>1, <1>2, <2>1, <2>2, <2>4 DEF Kept, Settled
  <2>5. QED
    BY <2>3, <2>4
<1>10. Accounted'
  BY <1>1, <1>2 DEF Accounted, TInv, TypeOK
<1>11. QED
  BY <1>1, <1>3, <1>4, <1>6, <1>7, <1>8, <1>9, <1>10 DEF SavedFirst

\* A worker ends when nothing is queued.
LEMMA NoMoreWorkKeeps ==
  ASSUME IInv, NEW w \in Workers, NoMoreWork(w)
  PROVE  Rest'
<1> USE BatchAssumption DEF NoMoreWork, MoveTo, diskVars, mainVars, boundVars, IInv, Rest
<1>1. phase = "working" /\ Holding' = Holding
  BY Working DEF Holding, TInv, TypeOK
<1>2. Exclusive' /\ Marked' /\ SavedFirst' /\ DurableProgress'
  BY DEF Exclusive, Marked, SavedFirst, DurableProgress, TInv, TypeOK
<1>3. Traces' /\ Accounted'
  BY <1>1 DEF Traces, Traced, Fits, Accounted, TInv, TypeOK
<1>4. SnapshotIsCurrent' /\ Kept'
  BY <1>1 DEF SnapshotIsCurrent, Kept, Free, Settled
<1>5. QED
  BY <1>2, <1>3, <1>4

\* Under the lock, the copy is of the results as they are.
LEMMA SnapshotKeeps ==
  ASSUME IInv, NEW w \in Workers, Snapshot(w)
  PROVE  Rest'
<1> USE BatchAssumption DEF Snapshot, MoveTo, diskVars, mainVars, boundVars, IInv, Rest
<1>1. /\ phase = "working" /\ pair[w] \in Pairs
      /\ wpc \in [Workers -> Pcs] /\ snapshot \in [Workers -> Results]
  BY Working DEF TInv, TypeOK
<1>2. Holding = {}
  BY DEF TInv, TypeOK
<1>3. Holding' = {w} /\ snapshot'[w] = results
  BY <1>1, <1>2 DEF Holding
<1>4. Exclusive' /\ SavedFirst' /\ DurableProgress'
  BY DEF Exclusive, SavedFirst, DurableProgress
<1>5. Marked'
  BY <1>1 DEF Marked
<1>6. Traces' /\ Accounted'
  BY <1>1 DEF Traces, Traced, Fits, Accounted
<1>7. SnapshotIsCurrent'
  BY <1>3 DEF SnapshotIsCurrent
<1>8. Kept'
  BY <1>3 DEF Kept, Settled
<1>9. QED
  BY <1>4, <1>5, <1>6, <1>7, <1>8

\* What is written is current, so what the writer leaves alone is saved.
LEMMA ReplaceKeeps ==
  ASSUME IInv, NEW w \in Workers, Replace(w)
  PROVE  Rest'
<1> USE BatchAssumption DEF Replace, MoveTo, mainVars, boundVars, IInv, Rest
<1>1. /\ phase = "working" /\ pair[w] \in Pairs /\ w \in Holding
      /\ wpc \in [Workers -> Pcs] /\ pair \in [Workers -> Pairs \union {None}]
      /\ snapshot \in [Workers -> Results]
  BY Working DEF TInv, TypeOK, Holding
<1>2. /\ Holding' = {}
      /\ \A v \in Workers \ {w} : pair'[v] = pair[v] /\ wpc'[v] = wpc[v]
      /\ pair'[w] \in {pair[w], None}
      /\ wpc'[w] \in {"evaluate", "idle"}
      /\ wpc'[w] = "evaluate" => wpc[w] = "writeRunning" /\ pair'[w] = pair[w]
      /\ pair'[w] = None => wpc[w] = "writeResult"
  BY <1>1, OneWriter DEF Holding
<1>3. Exclusive'
  BY <1>1, <1>2 DEF Exclusive, TInv, TypeOK
<1>4. Marked'
  BY <1>1, <1>2 DEF Marked
<1>5. DurableProgress'
  <2>1. \A p \in Pairs : Free(p)' => Free(p) \/ p = pair[w]
    BY <1>1, <1>2 DEF Free
  <2>2. QED
    BY <1>1, <2>1 DEF DurableProgress, SnapshotIsCurrent, Free
<1>6. Traces'
  BY <1>1, <1>2 DEF Traces, Traced, Fits, NoResults
<1>7. Kept'
  BY <1>1, <1>2 DEF Kept, Settled
<1>8. Accounted'
  <2>1. pair'[w] = None => Complete(results[pair[w]])
    BY <1>2 DEF Marked
  <2>2. QED
    BY <1>1, <1>2, <2>1 DEF Accounted, TInv, TypeOK
<1>9. QED
  BY <1>1, <1>2, <1>3, <1>4, <1>5, <1>6, <1>7, <1>8 DEF SavedFirst, SnapshotIsCurrent

\* A worker that dies of a failed save releases the lock and keeps its pair.
LEMMA SaveFailsKeeps ==
  ASSUME IInv, NEW w \in Workers, SaveFails(w)
  PROVE  Rest'
<1> USE BatchAssumption DEF SaveFails, MoveTo, diskVars, mainVars, boundVars, IInv, Rest
<1>1. phase = "working" /\ w \in Holding /\ wpc \in [Workers -> Pcs] /\ snapshot \in [Workers -> Results]
  BY Working DEF TInv, TypeOK, Holding
<1>2. Holding' = {}
  BY <1>1, OneWriter DEF Holding
<1>3. Exclusive' /\ SavedFirst' /\ DurableProgress'
  BY DEF Exclusive, SavedFirst, DurableProgress
<1>4. Marked' /\ Accounted'
  BY <1>1 DEF Marked, Accounted
<1>5. Traces'
  BY <1>1 DEF Traces, Traced, Fits, NoResults
<1>6. QED
  BY <1>2, <1>3, <1>4, <1>5 DEF SnapshotIsCurrent, Kept, Settled

\* Reading comes after hashing.
LEMMA ReadContentKeeps ==
  ASSUME IInv, NEW w \in Workers, ReadContent(w)
  PROVE  Rest'
<1> USE BatchAssumption DEF ReadContent, MoveTo, diskVars, mainVars, boundVars, IInv, Rest
<1>1. /\ phase = "working" /\ pair[w] \in Pairs /\ hashes[pair[w]] \in Contents
      /\ wpc \in [Workers -> Pcs] /\ seen \in [Workers -> Reading \union {None}]
  BY Working DEF TInv, TypeOK
<1>2. Holding' = Holding
  BY <1>1 DEF Holding
<1>3. Exclusive' /\ SavedFirst' /\ DurableProgress'
  BY DEF Exclusive, SavedFirst, DurableProgress
<1>4. Marked' /\ Accounted'
  BY <1>1 DEF Marked, Accounted
<1>5. Traces'
  <2>1. Fits(seen'[w], hashes[pair[w]])
    BY <1>1 DEF Traces, Fits
  <2>2. QED
    BY <1>1, <2>1 DEF Traces, Traced, Fits
<1>6. QED
  BY <1>2, <1>3, <1>4, <1>5 DEF SnapshotIsCurrent, Kept, Free, Settled

\* The bucket is no part of the invariant: a sync gives its results no hash.
LEMMA WriteToBucketKeeps ==
  ASSUME IInv, NEW w \in Workers, WriteToBucket(w)
  PROVE  Rest'
<1> USE BatchAssumption DEF WriteToBucket, MoveTo, mainVars, boundVars, IInv, Rest
<1>1. phase = "working" /\ wpc \in [Workers -> Pcs]
  BY Working DEF TInv, TypeOK
<1>2. Holding' = Holding
  BY <1>1 DEF Holding
<1>3. Exclusive' /\ SavedFirst' /\ DurableProgress'
  BY DEF Exclusive, SavedFirst, DurableProgress
<1>4. Marked' /\ Accounted' /\ Traces'
  BY <1>1 DEF Marked, Accounted, Traces, Traced, Fits
<1>5. QED
  BY <1>2, <1>3, <1>4 DEF SnapshotIsCurrent, Kept, Free, Settled

\* A result is recorded for a pair that is marked running, so never over a
\* settled one, with the hash taken before its content was read.
LEMMA RecordKeeps ==
  ASSUME IInv, NEW w \in Workers, NEW s \in Final,
         NEW h \in {None, hashes[pair[w]]}, NEW o \in {None, seen[w]}, Record(w, s, h, o),
         h # None => o = seen[w]
  PROVE  Rest'
<1> USE BatchAssumption DEF Record, MoveTo, diskVars, mainVars, boundVars, IInv, Rest
<1> DEFINE p == pair[w]
           r == [status |-> s, hash |-> h, of |-> o]
<1>1. /\ phase = "working" /\ p \in Pairs /\ hashes[p] \in Contents
      /\ seen[w] \in Reading
      /\ wpc \in [Workers -> Pcs] /\ results \in [Pairs -> Result \union {None}]
      /\ seen \in [Workers -> Reading \union {None}]
  BY Working DEF TInv, TypeOK, Judging, Results
<1>2. /\ Holding' = Holding /\ w \notin Holding
      /\ \A v \in Workers \ {w} : wpc'[v] = wpc[v] /\ (pair[v] # p)
      /\ wpc'[w] = "saveResult"
      /\ results'[p] = r
      /\ \A q \in Pairs \ {p} : results'[q] = results[q]
  BY <1>1 DEF Holding, Exclusive
<1>3. r \in Result /\ r # None
  BY <1>1 DEF Result
<1>4. Complete(r) /\ results[p] = Running /\ ~Complete(Running)
  BY <1>1, <1>3 DEF Complete, Marked, Running, Final, Successes
<1>5. Exclusive' /\ SavedFirst'
  BY <1>1 DEF Exclusive, SavedFirst
<1>6. Marked'
  <2>1. \A v \in Workers \ {w} : wpc[v] \notin {"off", "idle", "done", "dead"} => pair[v] \in Pairs \ {p}
    BY <1>2, Working
  <2>2. QED
    BY <1>1, <1>2, <1>4, <2>1 DEF Marked
<1>7. DurableProgress'
  BY <1>1, <1>2 DEF DurableProgress
<1>8. SnapshotIsCurrent'
  <2>1. \A v \in Holding : v # w /\ pair[v] \in Pairs \ {p}
    BY <1>1, <1>2, Working DEF Holding
  <2>2. \A q \in Pairs : Free(q) => q # p
    BY DEF Free
  <2>3. QED
    BY <1>2, <2>1, <2>2 DEF SnapshotIsCurrent, Holding, Free
<1>9. Traces'
  <2>1. seen[w] # None /\ Fits(seen[w], hashes[p])
    BY <1>1 DEF Traces
  <2>2. Traced(r)
    BY <2>1 DEF Traced
  <2>3. \A q \in Pairs : Traced(results'[q])
    BY <1>2, <2>2 DEF Traces
  <2>4. QED
    BY <1>1, <1>2, <2>3 DEF Traces, Traced, Fits
<1>10. Kept'
  <2>1. SUFFICES ASSUME resume, NEW q \in wanted PROVE
          /\ Settled(results'[q], q) => q \notin todo
          /\ Settled(file[q], q) => results'[q] = file[q]
          /\ \A v \in Holding :
               /\ Settled(snapshot[v][q], q) => results'[q] = snapshot[v][q]
               /\ Settled(file[q], q) => snapshot[v][q] = file[q]
    BY <1>2 DEF Kept, Settled
  <2>2. q \in Pairs
    BY DEF TInv, TypeOK
  <2>3. CASE q # p
    BY <1>1, <1>2, <2>1, <2>2, <2>3 DEF Kept
  <2>4. CASE q = p
    BY <1>1, <1>4, <2>1, <2>2, <2>4 DEF Kept, Settled, Exclusive
  <2>5. QED
    BY <2>3, <2>4
<1>11. Accounted'
  BY <1>1, <1>2, <1>4 DEF Accounted, TInv, TypeOK
<1>12. QED
  BY <1>5, <1>6, <1>7, <1>8, <1>9, <1>10, <1>11

\* The steps of a worker thread.
LEMMA WorkerKeeps ==
  ASSUME IInv, NEW w \in Workers, WorkerStep(w)
  PROVE  Rest'
<1>1. CASE Return(w)
  BY <1>1, RecordKeeps DEF Return, RecordedHash, Outcomes, Final, Successes
<1>2. CASE Raise(w)
  BY <1>2, RecordKeeps DEF Raise, Final
<1>3. QED
  BY <1>1, <1>2, TakeKeeps, NoMoreWorkKeeps, SnapshotKeeps, ReplaceKeeps, SaveFailsKeeps,
     ReadContentKeeps, WriteToBucketKeeps DEF WorkerStep

-----------------------------------------------------------------------------
\* The invariant holds at first.
LEMMA IInvInit == Init => IInv
<1> SUFFICES ASSUME Init PROVE IInv
  OBVIOUS
<1> USE BatchAssumption DEF Init
<1>1. Holding = {}
  BY DEF Holding
<1>2. Traces
  BY DEF Traces, Traced, Fits, NoResults
<1>3. QED
  BY <1>1, <1>2, TInvInit DEF IInv, Rest, Exclusive, Marked, SavedFirst, SnapshotIsCurrent,
     DurableProgress, Kept, Accounted

\* Every step keeps the invariant.
LEMMA IInvStep == IInv /\ [Next]_vars => IInv'
<1> SUFFICES ASSUME IInv, [Next]_vars PROVE IInv'
  OBVIOUS
<1>1. TInv'
  BY TInvStep DEF IInv
<1>2. CASE UNCHANGED vars
  BY <1>1, <1>2 DEF IInv, Rest, vars, diskVars, mainVars, threadVars, boundVars, Exclusive, Marked,
     SavedFirst, SnapshotIsCurrent, DurableProgress, Traces, Traced, Fits, Kept, Accounted, Holding, Free,
     Settled
<1>3. CASE Next
  BY <1>1, <1>3, CommandKeeps, MainKeeps, CrashKeeps, WorkerKeeps, EditKeeps DEF IInv, Next
<1>4. QED
  BY <1>2, <1>3

\* The invariant holds in every reachable state.
LEMMA Invariant == Spec => []IInv
BY IInvInit, IInvStep, PTL DEF Spec

\* Once a worker has gone on, the result it recorded is in the file, whatever
\* the other threads save.
THEOREM DurableProgressHolds == Spec => []DurableProgress
<1>1. IInv => DurableProgress
  BY DEF IInv, Rest
<1>2. QED
  BY <1>1, Invariant, PTL

\* A saved result whose hash is that of the files on disk was computed from
\* these files, unless they were edited between its command's hashes and its reading.
THEOREM SkipIsCurrentHolds == Spec => []SkipIsCurrent
<1>1. IInv => SkipIsCurrent
  <2> SUFFICES ASSUME IInv, NEW p \in Pairs, Complete(file[p]), file[p].hash = content[p]
               PROVE  file[p].of.content = content[p] \/ file[p].of.edited
    BY DEF SkipIsCurrent
  <2>1. file[p] # None /\ file[p].hash # None
    BY BatchAssumption DEF IInv, TInv, TypeOK, Complete
  <2>2. QED
    BY <2>1 DEF IInv, Rest, Traces, Traced, Fits
<1>2. QED
  BY <1>1, Invariant, PTL

\* Joined workers leave no wanted pair open, except those a failed save left.
THEOREM JoinedMeansEvaluatedHolds == Spec => []JoinedMeansEvaluated
<1>1. IInv => JoinedMeansEvaluated
  <2> SUFFICES ASSUME IInv, phase = "export", \E w \in Workers : wpc[w] # "dead",
                      NEW p \in wanted, ~Complete(results[p])
               PROVE  \E w \in Workers : wpc[w] = "dead" /\ pair[w] = p
    BY DEF JoinedMeansEvaluated
  <2>1. PICK w \in Workers : pair[w] = p
    BY DEF IInv, Rest, Accounted
  <2>2. p # None
    BY BatchAssumption DEF IInv, TInv, TypeOK
  <2>3. QED
    BY <2>1, <2>2 DEF IInv, TInv, TypeOK, Phases, Busy
<1>2. QED
  BY <1>1, Invariant, PTL

\* A validating command never undoes or repeats an evaluation that is settled.
THEOREM ProgressIsKeptHolds == Spec => ProgressIsKept
<1> DEFINE A == phase = "working" /\ resume =>
                  \A p \in wanted :
                    Complete(file[p]) /\ HashesMatch(file[p], hashes[p]) => file'[p] = file[p]
<1>1. IInv /\ [Next]_vars => [A]_vars
  <2> SUFFICES ASSUME IInv, Next, phase = "working", resume, NEW p \in wanted, Settled(file[p], p)
               PROVE  file'[p] = file[p]
    BY DEF Settled
  <2>1. CASE Command
    BY <2>1 DEF Command, Evaluate, Resume, RetryFailed, Start
  <2>2. CASE MainStep
    BY <2>2 DEF MainStep, Begin, Prepare, Join, Export, MainSaveFails, diskVars
  <2>3. ASSUME NEW w \in Workers, WorkerStep(w) PROVE file'[p] = file[p]
    <3>1. CASE Replace(w)
      BY <3>1 DEF Replace, IInv, Rest, Kept, Holding
    <3>2. QED
      BY <2>3, <3>1
         DEF WorkerStep, Take, NoMoreWork, Snapshot, SaveFails, ReadContent, WriteToBucket,
         Return, Raise, Record, diskVars
  <2>4. QED
    BY <2>1, <2>2, <2>3 DEF Next, Crash, Edit, diskVars
<1>2. QED
  BY <1>1, Invariant, PTL DEF Spec, ProgressIsKept
=============================================================================
