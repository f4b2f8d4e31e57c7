----------------------------- MODULE JudgeEngine -----------------------------
(***************************************************************************)
(* The life of a submission in the judge service: the handler of POST      *)
(* /submit, the in-memory queue, the workers, the results map that GET     *)
(* /result empties, the files under submissions/<bucket>/<sid>, the        *)
(* counter the ids come from, POST /submissions/reset, and the crash and   *)
(* restart of the process (judge_engine.js, utils.js, router.js).          *)
(*                                                                         *)
(* Node runs one callback at a time: a step is what runs between two       *)
(* awaits of I/O, together with the file operation it waited for. Judging  *)
(* proper (compile, checker, cases) is one step with any outcome; the      *)
(* checker's part of it is module CheckerCache.                            *)
(***************************************************************************)
EXTENDS Naturals, Sequences, FiniteSets

CONSTANTS
  Subs,           \* the submissions, each with code of its own
  Workers,        \* the judge's workers
  QueueLimit,     \* jobs queued beyond this many leave their code on disk (1024 * 512)
  DiskMayFail,    \* may a mkdir, a read or a write of a submission's files fail?
  LoseResponses,  \* may the answer to a poll be lost on its way?
  MaxResets,      \* bound: calls of POST /submissions/reset
  MaxCrashes,     \* bound: crashes of the process
  None            \* no result, no code, no id

ASSUME EngineAssumption ==
  /\ IsFiniteSet(Subs)
  /\ QueueLimit \in Nat /\ MaxResets \in Nat /\ MaxCrashes \in Nat
  /\ DiskMayFail \in BOOLEAN /\ LoseResponses \in BOOLEAN

\* Every submission takes one id, so no counter exceeds their number.
Sids == 1 .. Cardinality(Subs)

\* A source.code that its submission has opened and not written yet.
PartOf(s) == [partOf |-> s]
Code == Subs \union {PartOf(s) : s \in Subs} \union {None}

\* A result carries the submission whose job produced it and the code judged.
Result == [status : {"queued", "done", "error"}, of : Subs, code : Code]
Job == [sid : Sids, sub : Subs, inMemory : BOOLEAN]

ASSUME NoneAssumption ==
  /\ None \notin Subs \union Sids \union {0} \union Result \union Job
  /\ \A s \in Subs : PartOf(s) \notin Subs \union {None}

VARIABLES
  counter,       \* _counter (None: -1, not read since the start)
  counterRead,   \* what the read of counter.txt has found, until _counter has it
  counterFile,   \* counter.txt (an empty file parses as 0)
  counterWrites, \* the values whose write to counter.txt is under way
  results,       \* the results map, by sid
  queue,         \* the jobs waiting for a worker
  disk,          \* submissions/<bucket>/<sid>: does it exist, and its source.code
  phase,         \* where the handler of a submission, then its client, is
  sid,           \* the id a submission was given
  popped,        \* what a poll took from the results map for a submission
  wpc,           \* where each worker is
  job,           \* the job it took
  code,          \* the code it judges
  rpc,           \* where the reset handler is
  resets,        \* resets begun
  crashes        \* crashes so far

idVars == <<counter, counterRead, counterFile, counterWrites>>
clientVars == <<phase, sid, popped>>
workerVars == <<wpc, job, code>>
faultVars == <<rpc, resets, crashes>>
vars == <<idVars, results, queue, disk, clientVars, workerVars, faultVars>>

NoDir == [dir |-> FALSE, source |-> None]

Submitting == {"counter", "mkdir", "source", "writing", "meta"}
Phases == Submitting \union {"new", "polling", "answered", "failed"}
Wpcs == {"idle", "load", "judge", "save", "saveError", "saveLast"}

TypeOK ==
  /\ counter \in Sids \union {0, None}
  /\ counterRead \in Sids \union {0, None}
  /\ counterFile \in Sids \union {0}
  /\ counterWrites \subseteq Sids
  /\ results \in [Sids -> Result \union {None}]
  /\ queue \in Seq(Job)
  /\ disk \in [Sids -> [dir : BOOLEAN, source : Code]]
  /\ phase \in [Subs -> Phases]
  /\ sid \in [Subs -> Sids \union {None}]
  /\ popped \in [Subs -> Result \union {None}]
  /\ wpc \in [Workers -> Wpcs]
  /\ job \in [Workers -> Job \union {None}]
  /\ code \in [Workers -> Code]
  /\ rpc \in {"idle", "emptied", "writing"}
  /\ resets \in 0 .. MaxResets
  /\ crashes \in 0 .. MaxCrashes

Init ==
  /\ counter = None /\ counterRead = None
  /\ counterFile = 0 /\ counterWrites = {}
  /\ results = [i \in Sids |-> None]
  /\ queue = <<>>
  /\ disk = [i \in Sids |-> NoDir]
  /\ phase = [s \in Subs |-> "new"]
  /\ sid = [s \in Subs |-> None]
  /\ popped = [s \in Subs |-> None]
  /\ wpc = [w \in Workers |-> "idle"]
  /\ job = [w \in Workers |-> None]
  /\ code = [w \in Workers |-> None]
  /\ rpc = "idle" /\ resets = 0 /\ crashes = 0

-----------------------------------------------------------------------------
(* SubmissionManager: ids, and the counter file that survives a crash. The *)
(* write of counter.txt is not awaited, and writes complete in any order.  *)

Goto(s, p) == phase' = [phase EXCEPT ![s] = p]

\* The first submission since the start reads counter.txt; those that come
\* before the read has ended await its promise.
EnsureCounter(s) ==
  /\ phase[s] = "new"
  /\ counter = None
  /\ counterRead' = IF counterRead = None THEN counterFile ELSE counterRead
  /\ Goto(s, "counter")
  /\ UNCHANGED <<counter, counterFile, counterWrites, results, queue, disk, sid,
                 popped, workerVars, faultVars>>

\* A reset may have set _counter in the meantime: it is overwritten.
CounterReadDone ==
  /\ counterRead # None
  /\ counter' = counterRead
  /\ counterRead' = None
  /\ UNCHANGED <<counterFile, counterWrites, results, queue, disk, clientVars,
                 workerVars, faultVars>>

\* Fault: ids taken from counter.txt, whose last writes may be under way.
NextSubmissionId_FromFile ==
  /\ counter' = counterFile + 1
  /\ counterWrites' = counterWrites \union {counterFile + 1}
  /\ UNCHANGED <<counterRead, counterFile>>

\* ++_counter is synchronous; only its persistence is left behind.
NextSubmissionId ==
  /\ counter' = counter + 1
  /\ counterWrites' = counterWrites \union {counter + 1}
  /\ UNCHANGED <<counterRead, counterFile>>

PersistCounter(n) ==
  /\ n \in counterWrites
  /\ counterWrites' = counterWrites \ {n}
  /\ counterFile' = n
  /\ UNCHANGED <<counter, counterRead, results, queue, disk, clientVars, workerVars,
                 faultVars>>

-----------------------------------------------------------------------------
(* submit(pid, lang, code), awaited by the handler of POST /submit.        *)

Queued(s) == [status |-> "queued", of |-> s, code |-> None]

SubmitId(s) ==
  /\ \/ phase[s] = "new" /\ counter # None
     \/ phase[s] = "counter" /\ counterRead = None
  /\ NextSubmissionId
  /\ sid' = [sid EXCEPT ![s] = counter']
  /\ results' = [results EXCEPT ![counter'] = Queued(s)]
  /\ Goto(s, "mkdir")
  /\ UNCHANGED <<queue, disk, popped, workerVars, faultVars>>

\* The directory exists: the job is queued, with its code unless the queue is full.
SubmitEnqueue(s) ==
  /\ phase[s] = "mkdir"
  /\ LET full == Len(queue) >= QueueLimit IN
       /\ queue' = Append(queue, [sid |-> sid[s], sub |-> s, inMemory |-> ~full])
       /\ Goto(s, IF full THEN "source" ELSE "meta")
  /\ disk' = [disk EXCEPT ![sid[s]].dir = TRUE]
  /\ UNCHANGED <<idVars, results, sid, popped, workerVars, faultVars>>

\* source.code of a job without its code is opened, then written.
SubmitOpenSource(s) ==
  /\ phase[s] = "source"
  /\ disk[sid[s]].dir
  /\ disk' = [disk EXCEPT ![sid[s]].source = PartOf(s)]
  /\ Goto(s, "writing")
  /\ UNCHANGED <<idVars, results, queue, sid, popped, workerVars, faultVars>>

\* A file that was unlinked while open keeps the bytes to itself.
SubmitWriteSource(s) ==
  /\ phase[s] = "writing"
  /\ disk' = IF disk[sid[s]].source = PartOf(s)
             THEN [disk EXCEPT ![sid[s]].source = s] ELSE disk
  /\ Goto(s, "meta")
  /\ UNCHANGED <<idVars, results, queue, sid, popped, workerVars, faultVars>>

\* meta.json is written and the client is told its sid. What meta.json holds is
\* left out: nothing reads it.
SubmitMeta(s) ==
  /\ phase[s] = "meta"
  /\ disk[sid[s]].dir
  /\ Goto(s, "polling")
  /\ UNCHANGED <<idVars, results, queue, disk, sid, popped, workerVars, faultVars>>

\* A mkdir or a write throws: the client gets a 500. What was done stays done,
\* the queued status and the queued job included.
SubmitFails(s) ==
  /\ phase[s] \in {"mkdir", "source", "writing", "meta"}
  /\ \/ DiskMayFail
     \/ phase[s] \in {"source", "meta"} /\ ~disk[sid[s]].dir
  /\ Goto(s, "failed")
  /\ UNCHANGED <<idVars, results, queue, disk, sid, popped, workerVars, faultVars>>

-----------------------------------------------------------------------------
(* getResult(sid), polled by the client that was given the sid. A terminal *)
(* result leaves the map with the poll that reads it. The disk fallback    *)
(* calls readFileSync, which fs/promises does not have: its TypeError is   *)
(* caught and the poll answers null, as for an unknown sid.                *)

IsFinal(r) == r # None /\ r.status \in {"done", "error"}

\* GET /result takes a terminal result; its client hears of it, or does not.
\* A poll that finds null (404) or "queued" changes nothing.
PollResult(s) ==
  /\ phase[s] = "polling"
  /\ IsFinal(results[sid[s]])
  /\ results' = [results EXCEPT ![sid[s]] = None]
  /\ popped' = [popped EXCEPT ![s] = results[sid[s]]]
  /\ \/ Goto(s, "answered")
     \/ LoseResponses /\ UNCHANGED phase
  /\ UNCHANGED <<idVars, queue, disk, sid, workerVars, faultVars>>

-----------------------------------------------------------------------------
(* startWorker, judgeDefault and judgeInteractive.                         *)

Work(w, p) == wpc' = [wpc EXCEPT ![w] = p]

\* Fault: the job is read from the queue and not removed.
TakeJob_KeepsHead(w) ==
  /\ wpc[w] = "idle"
  /\ queue # <<>>
  /\ job' = [job EXCEPT ![w] = Head(queue)]
  /\ Work(w, "load")
  /\ UNCHANGED <<idVars, results, queue, disk, clientVars, code, faultVars>>

TakeJob(w) ==
  /\ wpc[w] = "idle"
  /\ queue # <<>>
  /\ job' = [job EXCEPT ![w] = Head(queue)]
  /\ queue' = Tail(queue)
  /\ Work(w, "load")
  /\ UNCHANGED <<idVars, results, disk, clientVars, code, faultVars>>

Publish(w, status) ==
  results' = [results EXCEPT ![job[w].sid] =
    [status |-> status, of |-> job[w].sub,
     code |-> IF status = "done" THEN code[w] ELSE None]]

\* source.code is written from the job, or read when the job has no code.
LoadCode(w) ==
  /\ wpc[w] = "load"
  /\ LET d == disk[job[w].sid] IN
       \/ /\ job[w].inMemory
          /\ d.dir
          /\ disk' = [disk EXCEPT ![job[w].sid].source = job[w].sub]
          /\ code' = [code EXCEPT ![w] = job[w].sub]
       \/ /\ ~job[w].inMemory
          /\ d.source # None
          /\ code' = [code EXCEPT ![w] = d.source]
          /\ UNCHANGED disk
  /\ Work(w, "judge")
  /\ UNCHANGED <<idVars, results, queue, clientVars, job, faultVars>>

\* Fault: the catch of startWorker publishes nothing.
LoadFails_Silent(w) ==
  /\ wpc[w] = "load"
  /\ LET d == disk[job[w].sid] IN
       \/ DiskMayFail
       \/ job[w].inMemory /\ ~d.dir
       \/ ~job[w].inMemory /\ d.source = None
  /\ Work(w, "saveLast")
  /\ UNCHANGED <<idVars, results, queue, disk, clientVars, job, code, faultVars>>

\* The catch of startWorker: the source cannot be written or read.
LoadFails(w) ==
  /\ wpc[w] = "load"
  /\ LET d == disk[job[w].sid] IN
       \/ DiskMayFail
       \/ job[w].inMemory /\ ~d.dir
       \/ ~job[w].inMemory /\ d.source = None
  /\ Publish(w, "error")
  /\ Work(w, "saveLast")
  /\ UNCHANGED <<idVars, queue, disk, clientVars, job, code, faultVars>>

\* Fault: an error inside judgeDefault is saved and not published.
Judge_ErrorSilent(w) ==
  /\ wpc[w] = "judge"
  /\ \/ Publish(w, "done") /\ Work(w, "save")
     \/ UNCHANGED results /\ Work(w, "saveError")
     \/ Publish(w, "error") /\ Work(w, "saveLast")
  /\ UNCHANGED <<idVars, queue, disk, clientVars, job, code, faultVars>>

\* The outcome of judging: a verdict; an error inside judgeDefault (the program
\* or the checker does not compile, go-judge fails); or an error outside it
\* (no such problem, an unsupported type).
Judge(w) ==
  /\ wpc[w] = "judge"
  /\ \/ Publish(w, "done") /\ Work(w, "save")
     \/ Publish(w, "error") /\ Work(w, "saveError")
     \/ Publish(w, "error") /\ Work(w, "saveLast")
  /\ UNCHANGED <<idVars, queue, disk, clientVars, job, code, faultVars>>

EndJob(w) ==
  /\ Work(w, "idle")
  /\ job' = [job EXCEPT ![w] = None]
  /\ code' = [code EXCEPT ![w] = None]

\* Fault: the result is published once more when it has been saved.
SaveResult_Republishes(w) ==
  /\ wpc[w] \in {"save", "saveError", "saveLast"}
  /\ disk[job[w].sid].dir
  /\ Publish(w, IF wpc[w] = "save" THEN "done" ELSE "error")
  /\ EndJob(w)
  /\ UNCHANGED <<idVars, queue, disk, clientVars, faultVars>>

\* result.json is written after the result has been published in memory. The
\* file is left out of the disk: nothing ever reads it back (see getResult).
SaveResult(w) ==
  /\ wpc[w] \in {"save", "saveError", "saveLast"}
  /\ disk[job[w].sid].dir
  /\ EndJob(w)
  /\ UNCHANGED <<idVars, results, queue, disk, clientVars, faultVars>>

CannotSave(w) == DiskMayFail \/ ~disk[job[w].sid].dir

\* The write throws: a verdict is replaced by an error, an error is published
\* again by the catch of startWorker, and there it is ignored.
SaveFails(w) ==
  /\ wpc[w] \in {"save", "saveError"}
  /\ CannotSave(w)
  /\ \/ wpc[w] = "save" /\ Publish(w, "error") /\ Work(w, "saveError")
     \/ wpc[w] = "saveError" /\ Publish(w, "error") /\ Work(w, "saveLast")
  /\ UNCHANGED <<idVars, queue, disk, clientVars, job, code, faultVars>>

\* Fault: the last error is not caught, and ends the worker's loop.
SaveIgnored_Rethrows(w) ==
  /\ wpc[w] = "saveLast"
  /\ CannotSave(w)
  /\ Work(w, "dead")
  /\ UNCHANGED <<idVars, results, queue, disk, clientVars, job, code, faultVars>>

SaveIgnored(w) ==
  /\ wpc[w] = "saveLast"
  /\ CannotSave(w)
  /\ EndJob(w)
  /\ UNCHANGED <<idVars, results, queue, disk, clientVars, faultVars>>

-----------------------------------------------------------------------------
(* POST /submissions/reset: the files, then the counter, then the results. *)
(* The queue and the workers are left as they are.                         *)

ResetEmptyDir ==
  /\ rpc = "idle"
  /\ resets < MaxResets
  /\ resets' = resets + 1
  /\ disk' = [i \in Sids |-> NoDir]
  /\ rpc' = "emptied"
  /\ UNCHANGED <<idVars, results, queue, clientVars, workerVars, crashes>>

ResetCounter ==
  /\ rpc = "emptied"
  /\ counter' = 0
  /\ rpc' = "writing"
  /\ UNCHANGED <<counterRead, counterFile, counterWrites, results, queue, disk, clientVars,
                 workerVars, resets, crashes>>

ResetResults ==
  /\ rpc = "writing"
  /\ counterFile' = 0
  /\ results' = [i \in Sids |-> None]
  /\ rpc' = "idle"
  /\ UNCHANGED <<counter, counterRead, counterWrites, queue, disk, clientVars,
                 workerVars, resets, crashes>>

\* A directory cannot be removed (a job has just written to it, say), or
\* counter.txt cannot be written: the handler answers 500, and what was done
\* so far stays done.
ResetFails ==
  /\ \/ /\ rpc = "idle"
        /\ resets < MaxResets
        /\ resets' = resets + 1
        /\ \E gone \in SUBSET Sids :
             disk' = [i \in Sids |-> IF i \in gone THEN NoDir ELSE disk[i]]
     \/ /\ rpc = "writing"
        /\ UNCHANGED <<resets, disk>>
  /\ rpc' = "idle"
  /\ UNCHANGED <<idVars, results, queue, clientVars, workerVars, crashes>>

-----------------------------------------------------------------------------
\* The process dies and is started again: memory is lost, files stay. A
\* submission whose handler was running has failed; a client that was given
\* its sid polls on. A write of counter.txt that was under way may have
\* emptied the file, which then reads as 0.
Crash ==
  /\ crashes < MaxCrashes
  /\ crashes' = crashes + 1
  /\ counter' = None
  /\ counterRead' = None
  /\ counterWrites' = {}
  /\ \/ UNCHANGED counterFile
     \/ counterWrites # {} /\ counterFile' = 0
  /\ results' = [i \in Sids |-> None]
  /\ queue' = <<>>
  /\ phase' = [s \in Subs |-> IF phase[s] \in Submitting
                              THEN "failed" ELSE phase[s]]
  /\ wpc' = [w \in Workers |-> "idle"]
  /\ job' = [w \in Workers |-> None]
  /\ code' = [w \in Workers |-> None]
  /\ rpc' = "idle"
  /\ UNCHANGED <<disk, sid, popped, resets>>

-----------------------------------------------------------------------------
SubmitStep(s) ==
  \/ EnsureCounter(s) \/ SubmitId(s) \/ SubmitEnqueue(s) \/ SubmitOpenSource(s)
  \/ SubmitWriteSource(s) \/ SubmitMeta(s) \/ SubmitFails(s)

WorkerStep(w) ==
  \/ TakeJob(w) \/ LoadCode(w) \/ LoadFails(w) \/ Judge(w)
  \/ SaveResult(w) \/ SaveFails(w) \/ SaveIgnored(w)

CounterStep == CounterReadDone \/ \E n \in counterWrites : PersistCounter(n)

Reset == ResetEmptyDir \/ ResetCounter \/ ResetResults \/ ResetFails

Next ==
  \/ \E s \in Subs : SubmitStep(s) \/ PollResult(s)
  \/ \E w \in Workers : WorkerStep(w)
  \/ CounterStep
  \/ Reset
  \/ Crash

Spec == Init /\ [][Next]_vars

\* Workers run and I/O completes; a client keeps polling its sid. Nobody has
\* to submit, to reset, or to crash.
FairSpec ==
  /\ Spec
  /\ \A w \in Workers : WF_vars(WorkerStep(w))
  /\ \A s \in Subs : WF_vars(PollResult(s))
-----------------------------------------------------------------------------
(* What the service promises.                                              *)

Undisturbed == resets = 0 /\ crashes = 0

\* Until a reset or a crash, a client is only ever given the result of its own
\* submission, and a verdict judged on its own code: complete, or, when the
\* queue was so long that the code had to be read back from disk, possibly
\* only the part of it that was written by then.
AnswerIsOwn ==
  Undisturbed =>
    \A s \in Subs : popped[s] # None =>
      /\ popped[s].of = s
      /\ popped[s].status = "done" => popped[s].code \in {s, PartOf(s)}

JobOf(s) ==
  \/ \E i \in DOMAIN queue : queue[i].sub = s
  \/ \E w \in Workers : job[w] # None /\ job[w].sub = s

\* Until a reset or a crash, a client that polls has something to wait for: its
\* job is queued or with a worker, or its result is in the map, unless the one
\* response that carried the result was lost: then it polls for nothing.
NothingVanishes ==
  Undisturbed =>
    \A s \in Subs : phase[s] = "polling" =>
      \/ JobOf(s)
      \/ IsFinal(results[sid[s]])
      \/ LoseResponses /\ popped[s] # None

\* A submission has at most one job, in the queue or with one worker, whatever
\* is reset, crashes or fails: no job is run twice at a time.
OneJobPerSubmission ==
  \A s \in Subs :
    Cardinality({i \in DOMAIN queue : queue[i].sub = s})
      + Cardinality({w \in Workers : job[w] # None /\ job[w].sub = s}) <= 1

\* The abstract service: see JudgeService. A submission is accepted when it is
\* queued, judged when its result enters the map, delivered when it leaves it.
Stage(s) ==
  IF phase[s] \in {"new", "counter", "mkdir"} THEN "idle"
  ELSE IF IsFinal(results[sid[s]]) THEN "judged"
  ELSE IF popped[s] # None THEN "delivered"
  ELSE IF JobOf(s) THEN "accepted" ELSE "refused"

Verdict(s) ==
  CASE Stage(s) = "judged" -> results[sid[s]].status
    [] Stage(s) = "delivered" -> popped[s].status
    [] OTHER -> None

\* Is a worker about to save it?
Saving(s, p) == \E w \in Workers : wpc[w] = p /\ job[w].sub = s

Unsaved(s) == IF Saving(s, "save") THEN 2 ELSE IF Saving(s, "saveError") THEN 1 ELSE 0

Service == INSTANCE JudgeService
  WITH stage <- [s \in Subs |-> Stage(s)], verdict <- [s \in Subs |-> Verdict(s)],
       unsaved <- [s \in Subs |-> Unsaved(s)], disturbed <- ~Undisturbed

\* Until a reset or a crash, every submission that is queued is judged once,
\* although its handler may fail; its verdict is given out at most once, to one
\* poll, and never changes but to an error when the disk fails to save it.
ImplementsService == Service!Spec

\* A client that has its sid and keeps polling is answered, even when the disk
\* fails under the worker or under the handler that acknowledged it, unless the
\* submissions are reset or the process crashes.
EveryClientAnswered ==
  \A s \in Subs : phase[s] = "polling" ~> (phase[s] = "answered" \/ ~Undisturbed)

\* "One job failure never crashes the process" (L513), nor stops a worker:
\* whatever the disk refuses, and when a reset takes the directories away under
\* queued and running jobs and begins the ids again, the queue drains and the
\* workers rest.
QueueDrains == <>[](queue = <<>> /\ \A w \in Workers : wpc[w] = "idle")

=============================================================================
