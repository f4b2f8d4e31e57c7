------------------------------ MODULE CloudJudge ------------------------------
(***************************************************************************)
(* The threads of a batch evaluation that share one runner and, through    *)
(* it, one judge on one SkyPilot cluster (runner/algorithmic_skypilot.py   *)
(* over runner/algorithmic_local.py): finding, launching and stopping the  *)
(* cluster, submitting a solution to its judge and polling for the result. *)
(*                                                                         *)
(* A step is what a thread does between two requests or waits. A cluster   *)
(* is known by the number of its launch, which stands for its address. Its *)
(* judge gives ids from 1 and hands a result out once (JudgeEngine); the   *)
(* judge of a new cluster begins again.                                    *)
(***************************************************************************)
EXTENDS Naturals, Sequences

CONSTANTS
  Threads,        \* the worker threads of the evaluator
  MaxEvals,       \* bound: evaluations begun
  MaxLosses,      \* bound: how often the cluster goes by itself (autostop, preemption)
  RequestsFail,   \* may requests fail, or their responses be lost, launches and downs too?
  None

ASSUME CloudAssumption ==
  /\ MaxEvals \in Nat /\ MaxLosses \in Nat
  /\ RequestsFail \in BOOLEAN
  /\ None \notin Threads

VARIABLES
  keep,         \* keep_cluster
  up,           \* the cluster that is up, 0 when none is
  half,         \* is there a machine, left by a launch that failed, that is not up?
  launched,     \* how many were launched
  jobs,         \* the submissions to the judge of the cluster that is up, by id
  initialized, url,  \* _initialized and _judge_url (0: None) of the runner
  judgeUrl,     \* its judge_url, which submit and poll read (0: no cluster's)
  judgeStarted, \* its _judge_started
  clusterLock, startupLock,
  pc,
  got,          \* the cluster a thread asks, has found, launched, or was returned
  sid,          \* the id its submission was given
  eval,         \* the number of the evaluation it is at, or was at last
  outcome,      \* the result of the last one
  begun,        \* evaluations begun
  losses,
  mishap,       \* history: a request failed at a live cluster, or a launch whose cluster is up
  wiped,        \* history: _initialized was reset for an old cluster's sake, under a live one
  disturbed     \* history: the cluster went while a submission was being judged

cloudVars   == <<up, half, launched, jobs>>
runnerVars  == <<initialized, url, judgeUrl, judgeStarted, clusterLock, startupLock>>
threadVars  == <<pc, got, sid, eval, begun, outcome>>
historyVars == <<losses, mishap, wiped, disturbed>>
vars == <<keep, cloudVars, runnerVars, threadVars, historyVars>>

NoOutcome == [status |-> "none"]
Failed(status) == [status |-> status]

Init ==
  /\ keep \in BOOLEAN
  /\ up = 0 /\ half = FALSE /\ launched = 0 /\ jobs = <<>>
  /\ initialized = FALSE /\ url = 0 /\ judgeUrl = 0 /\ judgeStarted = FALSE
  /\ clusterLock = None /\ startupLock = None
  /\ pc = [t \in Threads |-> "idle"]
  /\ got = [t \in Threads |-> 0]
  /\ sid = [t \in Threads |-> 0]
  /\ eval = [t \in Threads |-> 0] /\ begun = 0
  /\ outcome = [t \in Threads |-> NoOutcome]
  /\ losses = 0 /\ mishap = FALSE /\ wiped = FALSE /\ disturbed = FALSE

Goto(t, p) == pc' = [pc EXCEPT ![t] = p]

\* A service answers at an address when its cluster is up.
Live(address) == address # 0 /\ address = up

-----------------------------------------------------------------------------
(* _ensure_cluster.                                                        *)

Holding == {"locked", "probeLocked", "find", "found", "launch", "ready", "returnLocked"}

Begin(t) ==
  /\ pc[t] = "idle" /\ begun < MaxEvals
  /\ begun' = begun + 1
  /\ eval' = [eval EXCEPT ![t] = begun']
  /\ outcome' = [outcome EXCEPT ![t] = NoOutcome]
  /\ Goto(t, "begun")
  /\ UNCHANGED <<keep, cloudVars, runnerVars, got, sid, historyVars>>

\* The fast path, and its copy under the lock: a known judge is asked.
Look(t) ==
  /\ pc[t] \in {"begun", "locked"}
  /\ IF initialized /\ url # 0
     THEN /\ got' = [got EXCEPT ![t] = url]
          /\ Goto(t, IF pc[t] = "begun" THEN "probe" ELSE "probeLocked")
     ELSE /\ Goto(t, IF pc[t] = "begun" THEN "lock" ELSE "find")
          /\ UNCHANGED got
  /\ UNCHANGED <<keep, cloudVars, runnerVars, sid, eval, begun, outcome, historyVars>>

\* Any answer will do.
ProbeAnswered(t) ==
  /\ pc[t] \in {"probe", "probeLocked"} /\ Live(got[t])
  /\ Goto(t, IF pc[t] = "probe" THEN "return" ELSE "returnLocked")
  /\ got' = [got EXCEPT ![t] = 0]
  /\ UNCHANGED <<keep, cloudVars, runnerVars, sid, eval, begun, outcome, historyVars>>

\* The judge that was asked is gone, or does not answer in time. Another one may
\* be known by now.
ProbeFails(t) ==
  /\ pc[t] \in {"probe", "probeLocked"} /\ (RequestsFail \/ ~Live(got[t]))
  /\ initialized' = FALSE
  /\ mishap' = (mishap \/ Live(got[t]))
  /\ wiped' = (wiped \/ (initialized /\ Live(url) /\ url # got[t]))
  /\ got' = [got EXCEPT ![t] = 0]
  /\ Goto(t, IF pc[t] = "probe" THEN "lock" ELSE "find")
  /\ UNCHANGED <<keep, cloudVars, url, judgeUrl, judgeStarted, clusterLock, startupLock,
                 sid, eval, begun, outcome, losses, disturbed>>

Lock(t) ==
  /\ pc[t] = "lock" /\ clusterLock = None
  /\ clusterLock' = t
  /\ Goto(t, "locked")
  /\ UNCHANGED <<keep, cloudVars, initialized, url, judgeUrl, judgeStarted, startupLock,
                 got, sid, eval, begun, outcome, historyVars>>

\* _get_cluster_ip: sky.status, which may raise.
Find(t) ==
  /\ pc[t] = "find"
  /\ \/ got' = [got EXCEPT ![t] = up] /\ Goto(t, IF up = 0 THEN "launch" ELSE "found")
     \/ RequestsFail /\ got' = [got EXCEPT ![t] = 0] /\ Goto(t, "launch")
  /\ UNCHANGED <<keep, cloudVars, runnerVars, sid, eval, begun, outcome, historyVars>>

Ready(t) ==
  /\ pc[t] \in {"found", "ready"} /\ Live(got[t])
  /\ url' = got[t] /\ initialized' = TRUE
  /\ Goto(t, "returnLocked")
  /\ UNCHANGED <<keep, cloudVars, judgeUrl, judgeStarted, clusterLock, startupLock,
                 got, sid, eval, begun, outcome, historyVars>>

\* The cluster that was found does not answer within 30 s: it is launched.
FoundDead(t) ==
  /\ pc[t] = "found" /\ (RequestsFail \/ ~Live(got[t]))
  /\ mishap' = (mishap \/ Live(got[t]))
  /\ Goto(t, "launch")
  /\ UNCHANGED <<keep, cloudVars, runnerVars, got, sid, eval, begun, outcome, losses, wiped, disturbed>>

NewCluster == up' = launched + 1 /\ half' = FALSE /\ launched' = launched + 1 /\ jobs' = <<>>

\* sky.launch, whether it returns or the fallback finds the cluster's address. It
\* takes a cluster that is up as it is.
Launch(t) ==
  /\ pc[t] = "launch"
  /\ IF up = 0 THEN NewCluster ELSE UNCHANGED cloudVars
  /\ got' = [got EXCEPT ![t] = up']
  /\ Goto(t, "ready")
  /\ UNCHANGED <<keep, runnerVars, sid, eval, begun, outcome, historyVars>>

End(t, result) ==
  /\ outcome' = [outcome EXCEPT ![t] = result]
  /\ sid' = [sid EXCEPT ![t] = 0] /\ got' = [got EXCEPT ![t] = 0]
  /\ Goto(t, "idle")
  /\ UNCHANGED <<eval, begun>>

\* sky.launch raises and the fallback finds no address: there is no machine, or
\* one that is not up, or one whose address sky.status does not tell.
LaunchFails(t) ==
  /\ pc[t] = "launch" /\ RequestsFail
  /\ \/ UNCHANGED cloudVars
     \/ up = 0 /\ half' = TRUE /\ UNCHANGED <<up, launched, jobs>>
     \/ up = 0 /\ NewCluster
  /\ mishap' = (mishap \/ up' # 0)

\* The service is not ready in 600 s.
NeverReady(t) ==
  /\ pc[t] = "ready" /\ (RequestsFail \/ ~Live(got[t]))
  /\ mishap' = (mishap \/ Live(got[t]))
  /\ UNCHANGED cloudVars

\* Fault: the lock is not released when the launch raises.
Raise_KeepsLock(t) ==
  /\ LaunchFails(t) \/ NeverReady(t)
  /\ End(t, Failed("error"))
  /\ UNCHANGED <<keep, runnerVars, losses, wiped, disturbed>>

\* The evaluation ends before its try block, and stops nothing.
Raise(t) ==
  /\ LaunchFails(t) \/ NeverReady(t)
  /\ clusterLock' = None
  /\ End(t, Failed("error"))
  /\ UNCHANGED <<keep, initialized, url, judgeUrl, judgeStarted, startupLock,
                 losses, wiped, disturbed>>

\* What is returned is _judge_url as it is now: None if it has been cleared.
Return(t) ==
  /\ pc[t] \in {"return", "returnLocked"}
  /\ got' = [got EXCEPT ![t] = url]
  /\ clusterLock' = IF pc[t] = "returnLocked" THEN None ELSE clusterLock
  /\ Goto(t, "setUrl")
  /\ UNCHANGED <<keep, cloudVars, initialized, url, judgeUrl, judgeStarted, startupLock,
                 sid, eval, begun, outcome, historyVars>>

-----------------------------------------------------------------------------
(* evaluate: the runner's judge_url is set, then the evaluation of the     *)
(* local runner: _ensure_judge, _submit, _poll_result.                     *)

SetUrl(t) ==
  /\ pc[t] = "setUrl"
  /\ judgeUrl' = got[t]
  /\ got' = [got EXCEPT ![t] = 0]
  /\ Goto(t, "ensure")
  /\ UNCHANGED <<keep, cloudVars, initialized, url, judgeStarted, clusterLock, startupLock,
                 sid, eval, begun, outcome, historyVars>>

\* A judge that once was available is never asked again.
EnsureJudge(t) ==
  /\ pc[t] \in {"ensure", "startupLocked"}
  /\ judgeStarted \/ Live(judgeUrl)
  /\ judgeStarted' = TRUE
  /\ startupLock' = IF pc[t] = "ensure" THEN startupLock ELSE None
  /\ Goto(t, "submit")
  /\ UNCHANGED <<keep, cloudVars, initialized, url, judgeUrl, clusterLock, got, sid, eval, begun,
                 outcome, historyVars>>

TakeStartupLock(t) ==
  /\ pc[t] = "ensure" /\ ~judgeStarted /\ (RequestsFail \/ ~Live(judgeUrl))
  /\ startupLock = None
  /\ startupLock' = t
  /\ Goto(t, "startupLocked")
  /\ UNCHANGED <<keep, cloudVars, initialized, url, judgeUrl, judgeStarted, clusterLock,
                 got, sid, eval, begun, outcome, historyVars>>

\* A judge is started on this machine (docker compose), which is not the one at
\* judge_url; or docker fails.
NoJudge(t) ==
  /\ pc[t] = "startupLocked" /\ ~judgeStarted /\ (RequestsFail \/ ~Live(judgeUrl))
  /\ startupLock' = None
  /\ outcome' = [outcome EXCEPT ![t] = Failed("error")]
  /\ Goto(t, "finally")
  /\ UNCHANGED <<keep, cloudVars, initialized, url, judgeUrl, judgeStarted, clusterLock,
                 got, sid, eval, begun, historyVars>>

\* Fault: the id is read before the counter is incremented.
Submit_OldId(t) ==
  /\ pc[t] = "submit" /\ Live(judgeUrl)
  /\ jobs' = Append(jobs, [of |-> eval[t], state |-> "queued"])
  /\ sid' = [sid EXCEPT ![t] = Len(jobs)]
  /\ Goto(t, "poll")
  /\ UNCHANGED <<keep, up, half, launched, runnerVars, got, eval, begun, outcome, historyVars>>

Submit(t) ==
  /\ pc[t] = "submit" /\ Live(judgeUrl)
  /\ jobs' = Append(jobs, [of |-> eval[t], state |-> "queued"])
  /\ sid' = [sid EXCEPT ![t] = Len(jobs')]
  /\ Goto(t, "poll")
  /\ UNCHANGED <<keep, up, half, launched, runnerVars, got, eval, begun, outcome, historyVars>>

\* No judge at the address, or its response is lost: the job is judged for nobody.
SubmitFails(t) ==
  /\ pc[t] = "submit" /\ (RequestsFail \/ ~Live(judgeUrl))
  /\ \/ UNCHANGED jobs
     \/ Live(judgeUrl) /\ jobs' = Append(jobs, [of |-> eval[t], state |-> "queued"])
  /\ outcome' = [outcome EXCEPT ![t] = Failed("error")]
  /\ Goto(t, "finally")
  /\ UNCHANGED <<keep, up, half, launched, runnerVars, got, sid, eval, begun, historyVars>>

\* A poll asks whatever judge judge_url names now. One that fails, or finds no
\* result, is repeated.
Poll(t) ==
  /\ pc[t] = "poll" /\ Live(judgeUrl)
  /\ sid[t] \in DOMAIN jobs /\ jobs[sid[t]].state = "final"
  /\ jobs' = [jobs EXCEPT ![sid[t]].state = "taken"]
  /\ \/ /\ outcome' = [outcome EXCEPT ![t] = [status |-> "judged", of |-> jobs[sid[t]].of]]
        /\ Goto(t, "finally")
     \/ RequestsFail /\ UNCHANGED <<outcome, pc>>
  /\ UNCHANGED <<keep, up, half, launched, runnerVars, got, sid, eval, begun, historyVars>>

PollTimesOut(t) ==
  /\ pc[t] = "poll"
  /\ outcome' = [outcome EXCEPT ![t] = Failed("timeout")]
  /\ Goto(t, "finally")
  /\ UNCHANGED <<keep, cloudVars, runnerVars, got, sid, eval, begun, historyVars>>

-----------------------------------------------------------------------------
(* The finally of evaluate, and stop_cluster.                              *)

\* Fault: only an evaluation with a result stops the cluster.
Finally_OnSuccess(t) ==
  /\ pc[t] = "finally"
  /\ IF ~keep /\ initialized /\ outcome[t].status = "judged"
     THEN Goto(t, "down") /\ UNCHANGED <<got, sid, eval, begun, outcome>>
     ELSE End(t, outcome[t])
  /\ UNCHANGED <<keep, cloudVars, runnerVars, historyVars>>

Finally(t) ==
  /\ pc[t] = "finally"
  /\ IF ~keep /\ initialized
     THEN Goto(t, "down") /\ UNCHANGED <<got, sid, eval, begun, outcome>>
     ELSE End(t, outcome[t])
  /\ UNCHANGED <<keep, cloudVars, runnerVars, historyVars>>

\* The cluster goes, and all its judge had in memory.
ClusterGoes(t) ==
  /\ up' = 0 /\ jobs' = <<>>
  /\ disturbed' = (disturbed \/ \E u \in Threads \ {t} : pc[u] = "poll")

\* sky.down takes what the cluster's name stands for by now.
Down(t) ==
  /\ pc[t] = "down" /\ (up # 0 \/ half)
  /\ ClusterGoes(t) /\ half' = FALSE
  /\ Goto(t, "clear")
  /\ UNCHANGED <<keep, launched, runnerVars, got, sid, eval, begun, outcome, losses, mishap, wiped>>

\* sky.down raises, as it does for a cluster that is gone: stop_cluster returns False.
DownFails(t) ==
  /\ pc[t] = "down" /\ (RequestsFail \/ (up = 0 /\ ~half))
  /\ mishap' = (mishap \/ up # 0)
  /\ End(t, outcome[t])
  /\ UNCHANGED <<keep, cloudVars, runnerVars, losses, wiped, disturbed>>

\* Not under the lock: another thread may have launched the next cluster by now.
Clear(t) ==
  /\ pc[t] = "clear"
  /\ initialized' = FALSE /\ url' = 0
  /\ wiped' = (wiped \/ (initialized /\ Live(url)))
  /\ End(t, outcome[t])
  /\ UNCHANGED <<keep, cloudVars, judgeUrl, judgeStarted, clusterLock, startupLock,
                 losses, mishap, disturbed>>

-----------------------------------------------------------------------------
(* The judge, and the cloud.                                               *)

JudgeOne ==
  /\ \E i \in DOMAIN jobs :
       /\ jobs[i].state = "queued"
       /\ jobs' = [jobs EXCEPT ![i].state = "final"]
  /\ UNCHANGED <<keep, up, half, launched, runnerVars, threadVars, historyVars>>

\* Autostop, or the cloud takes the machine back.
LoseCluster ==
  /\ losses < MaxLosses
  /\ losses' = losses + 1
  /\ up # 0 /\ ClusterGoes(None)
  /\ UNCHANGED <<keep, half, launched, runnerVars, threadVars, mishap, wiped>>

ThreadStep(t) ==
  \/ Look(t) \/ ProbeAnswered(t) \/ ProbeFails(t) \/ Lock(t) \/ Find(t) \/ Ready(t) \/ FoundDead(t)
  \/ Launch(t) \/ Raise(t) \/ Return(t) \/ SetUrl(t)
  \/ EnsureJudge(t) \/ TakeStartupLock(t) \/ NoJudge(t)
  \/ Submit(t) \/ SubmitFails(t) \/ Poll(t) \/ PollTimesOut(t)
  \/ Finally(t) \/ Down(t) \/ DownFails(t) \/ Clear(t)

Next == (\E t \in Threads : Begin(t) \/ ThreadStep(t)) \/ JudgeOne \/ LoseCluster

Spec == Init /\ [][Next]_vars

\* Threads run, and every request, launch and wait ends. A thread that
\* waits for a lock gets it when the others, whose turns are bounded, have ended.
FairSpec == Spec /\ \A t \in Threads : WF_vars(ThreadStep(t))

-----------------------------------------------------------------------------
(* Properties                                                              *)

\* Every variable has its type; a lock is held by the thread that is in the
\* section it guards, and by no other.
TypeOK ==
  /\ keep \in BOOLEAN
  /\ launched \in Nat /\ up \in 0 .. launched
  /\ half \in BOOLEAN /\ (half => up = 0)
  /\ jobs \in Seq([of : 1 .. begun, state : {"queued", "final", "taken"}])
  /\ initialized \in BOOLEAN /\ url \in 0 .. launched /\ judgeUrl \in 0 .. launched
  /\ judgeStarted \in BOOLEAN
  /\ \A t \in Threads : pc[t] \in Holding <=> clusterLock = t
  /\ \A t \in Threads : pc[t] = "startupLocked" <=> startupLock = t
  /\ got \in [Threads -> 0 .. launched]
  /\ sid \in [Threads -> Nat]
  /\ eval \in [Threads -> 0 .. begun] /\ begun \in 0 .. MaxEvals
  /\ losses \in 0 .. MaxLosses
  /\ mishap \in BOOLEAN /\ wiped \in BOOLEAN /\ disturbed \in BOOLEAN

\* A thread reports the verdict of its own solution, whatever fails, as long as
\* no cluster went under a submission that was being polled for: the ids of the
\* next cluster's judge are those of the last one's (_poll_result, judge_url).
AnswerIsOwn ==
  ~disturbed =>
    \A t \in Threads : outcome[t].status = "judged" => outcome[t].of = eval[t]

\* Without keep_cluster no cluster that is up is left when the evaluations have
\* ended, although they share one flag that all of them set, read and reset
\* (evaluate, stop_cluster). Three things the code does leave one after: a request
\* to a live cluster that fails, or a launch that does and whose cluster is up all
\* the same; a thread that has dealt with an old cluster and resets the flag of
\* the next one. It is not said of a machine a failed launch left that is not up.
NothingLeftRunning ==
  ~keep /\ ~mishap /\ ~wiped /\ (\A t \in Threads : pc[t] = "idle") => up = 0

\* Every evaluation ends, with or without a judge: no thread waits for good for
\* a lock another one left taken.
EvaluationsEnd == []<>(\A t \in Threads : pc[t] = "idle")

-----------------------------------------------------------------------------
\* "All workers share a single go-judge cluster" (batch/evaluator.py:379): while
\* no cluster goes by itself, none goes under a submission that is polled for.
AllShareOneCluster == losses = 0 => ~disturbed
=============================================================================
