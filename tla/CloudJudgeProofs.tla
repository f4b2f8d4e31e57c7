--------------------------- MODULE CloudJudgeProofs ---------------------------
(***************************************************************************)
(* The judge cluster that threads share, for any number of threads,        *)
(* evaluations and losses, whichever requests fail.                        *)
(***************************************************************************)
EXTENDS CloudJudge, SequenceTheorems, TLAPS

USE CloudAssumption

Job == [of : Nat \ {0}, state : {"queued", "final", "taken"}]

Post == {"returnLocked", "return", "setUrl", "ensure", "startupLocked", "submit", "poll",
         "finally", "down"}

Pcs == {"idle", "begun", "probe", "lock", "clear"} \union Holding \union Post

Flags ==
  /\ keep \in BOOLEAN /\ judgeStarted \in BOOLEAN /\ initialized \in BOOLEAN
  /\ launched \in Nat /\ up \in 0 .. launched
  /\ url \in 0 .. launched /\ judgeUrl \in 0 .. launched
  /\ begun \in 0 .. MaxEvals /\ losses \in 0 .. MaxLosses
  /\ half \in BOOLEAN /\ (half => up = 0)
  /\ mishap \in BOOLEAN /\ wiped \in BOOLEAN /\ disturbed \in BOOLEAN

Locks ==
  /\ clusterLock \in Threads \union {None} /\ startupLock \in Threads \union {None}
  /\ pc \in [Threads -> Pcs]
  /\ \A t \in Threads : pc[t] \in Holding <=> clusterLock = t
  /\ \A t \in Threads : pc[t] = "startupLocked" <=> startupLock = t

PerThread ==
  /\ got \in [Threads -> 0 .. launched]
  /\ sid \in [Threads -> Nat]
  /\ eval \in [Threads -> 0 .. begun]
  /\ \A t \in Threads : pc[t] # "idle" => eval[t] # 0
  /\ outcome = [t \in Threads |-> outcome[t]]

\* Submissions of the first n evaluations.
JobList(list, n) ==
  /\ list \in Seq(Job)
  /\ \A i \in 1 .. Len(list) : list[i].of <= n

Jobs == JobList(jobs, begun) /\ (up = 0 => jobs = <<>>)

TInv == Flags /\ Locks /\ PerThread /\ Jobs

\* The id a thread polls with is that of its own submission.
PollsOwn ==
  \A t \in Threads :
    /\ pc[t] = "poll" => sid[t] \in 1 .. Len(jobs) /\ jobs[sid[t]].of = eval[t]
    /\ outcome[t].status = "judged" => outcome[t].of = eval[t]

OInv == ~disturbed => PollsOwn

\* For a cluster that is up there is a thread that has launched it, or one that
\* will find the flag set when it ends.
NInv ==
  up # 0 /\ ~keep /\ ~mishap /\ ~wiped =>
    \/ \E t \in Threads : pc[t] = "ready" /\ got[t] = up
    \/ initialized /\ url = up /\ \E t \in Threads : pc[t] \in Post

-----------------------------------------------------------------------------
(* Lists of submissions.                                                   *)

LEMMA Queued ==
  ASSUME NEW n \in Nat, NEW list, JobList(list, n), NEW e \in 1 .. n, NEW longer,
         longer = Append(list, [of |-> e, state |-> "queued"])
  PROVE  /\ JobList(longer, n)
         /\ Len(longer) = Len(list) + 1 /\ longer[Len(longer)].of = e
         /\ \A i \in 1 .. Len(list) : longer[i].of = list[i].of
<1> DEFINE x == [of |-> e, state |-> "queued"]
<1>1. x \in Job /\ x.of = e
  BY DEF Job
<1>2. list \in Seq(Job) /\ longer = Append(list, x)
  BY DEF JobList
<1> HIDE DEF x
<1>3. longer \in Seq(Job) /\ Len(longer) = Len(list) + 1 /\ longer[Len(list) + 1] = x
  BY <1>1, <1>2
<1>4. \A i \in 1 .. Len(list) : longer[i] = list[i]
  BY <1>1, <1>2
<1>5. \A i \in 1 .. Len(longer) : longer[i].of <= n
  BY <1>1, <1>3, <1>4 DEF JobList
<1>6. QED
  BY <1>1, <1>3, <1>4, <1>5 DEF JobList

LEMMA Marked ==
  ASSUME NEW n, NEW list, JobList(list, n), NEW k \in 1 .. Len(list),
         NEW s \in {"queued", "final", "taken"}, NEW marked, marked = [list EXCEPT ![k].state = s]
  PROVE  /\ JobList(marked, n)
         /\ Len(marked) = Len(list)
         /\ \A i \in 1 .. Len(list) : marked[i].of = list[i].of
<1>1. list \in Seq(Job) /\ list[k] \in Job
  BY DEF JobList
<1>2. [list[k] EXCEPT !.state = s] \in Job /\ [list[k] EXCEPT !.state = s].of = list[k].of
  BY <1>1 DEF Job
<1>3. marked = [list EXCEPT ![k] = [list[k] EXCEPT !.state = s]]
  BY <1>1
<1>4. marked \in Seq(Job) /\ Len(marked) = Len(list)
  BY <1>1, <1>2, <1>3
<1>5. \A i \in 1 .. Len(list) : marked[i].of = list[i].of
  BY <1>1, <1>2, <1>3
<1>6. QED
  BY <1>4, <1>5 DEF JobList

LEMMA Emptied == \A n : JobList(<<>>, n)
BY DEF JobList

-----------------------------------------------------------------------------
(* The invariants, one action after the other.                             *)

LEMMA FlagsInit == Init => Flags
<1> SUFFICES ASSUME Init PROVE Flags
  OBVIOUS
<1> USE DEF Init
<1>1. /\ keep \in BOOLEAN /\ judgeStarted \in BOOLEAN /\ initialized \in BOOLEAN
      /\ half \in BOOLEAN /\ (half => up = 0)
  /\ mishap \in BOOLEAN /\ wiped \in BOOLEAN /\ disturbed \in BOOLEAN
  OBVIOUS
<1>2. QED
  BY <1>1 DEF Flags

LEMMA FlagsStep == TInv /\ [Next]_vars => Flags'
<1> SUFFICES ASSUME TInv, [Next]_vars PROVE Flags'
  OBVIOUS
<1> USE DEF Goto, End, Failed, cloudVars, runnerVars, historyVars,
          TInv, Flags, ClusterGoes
<1>1. ASSUME NEW t \in Threads, Begin(t) PROVE Flags'
  BY <1>1 DEF Begin
<1>2. ASSUME NEW t \in Threads, Look(t) PROVE Flags'
  BY <1>2 DEF Look
<1>3. ASSUME NEW t \in Threads, ProbeAnswered(t) PROVE Flags'
  BY <1>3 DEF ProbeAnswered
<1>4. ASSUME NEW t \in Threads, ProbeFails(t) PROVE Flags'
  BY <1>4 DEF ProbeFails
<1>5. ASSUME NEW t \in Threads, Lock(t) PROVE Flags'
  BY <1>5 DEF Lock
<1>6. ASSUME NEW t \in Threads, Find(t) PROVE Flags'
  BY <1>6 DEF Find
<1>7. ASSUME NEW t \in Threads, Ready(t) PROVE Flags'
  <2>1. got[t] \in 0 .. launched
    BY DEF PerThread
  <2>2. QED
    BY <1>7, <2>1 DEF Ready
<1>8. ASSUME NEW t \in Threads, FoundDead(t) PROVE Flags'
  BY <1>8 DEF FoundDead
<1>9. ASSUME NEW t \in Threads, Launch(t) PROVE Flags'
  <2>1. CASE up = 0
    <3>1. half' \in BOOLEAN /\ (half' => up' = 0)
      BY <1>9, <2>1 DEF Launch, NewCluster
    <3>2. QED
      BY <1>9, <2>1, <3>1 DEF Launch, NewCluster
  <2>2. CASE up # 0
    BY <1>9, <2>2 DEF Launch
  <2>3. QED
    BY <2>1, <2>2
<1>10. ASSUME NEW t \in Threads, Raise(t) PROVE Flags'
  <2>1. CASE UNCHANGED cloudVars
    BY <1>10, <2>1 DEF Raise, LaunchFails, NeverReady
  <2>2. CASE up = 0 /\ half' = TRUE /\ UNCHANGED <<up, launched, jobs>>
    <3>1. mishap' \in BOOLEAN
      BY <1>10, <2>2 DEF Raise, LaunchFails, NeverReady
    <3>2. QED
      BY <1>10, <2>2, <3>1 DEF Raise
  <2>3. CASE NewCluster
    <3>1. mishap' \in BOOLEAN
      BY <1>10 DEF Raise, LaunchFails, NeverReady
    <3>2. half' \in BOOLEAN /\ (half' => up' = 0)
      BY <2>3 DEF NewCluster
    <3>3. QED
      BY <1>10, <2>3, <3>1, <3>2 DEF Raise, NewCluster
  <2>4. QED
    BY <1>10, <2>1, <2>2, <2>3 DEF Raise, LaunchFails, NeverReady
<1>11. ASSUME NEW t \in Threads, Return(t) PROVE Flags'
  BY <1>11 DEF Return
<1>12. ASSUME NEW t \in Threads, SetUrl(t) PROVE Flags'
  <2>1. got[t] \in 0 .. launched
    BY DEF PerThread
  <2>2. QED
    BY <1>12, <2>1 DEF SetUrl
<1>13. ASSUME NEW t \in Threads, EnsureJudge(t) PROVE Flags'
  BY <1>13 DEF EnsureJudge
<1>14. ASSUME NEW t \in Threads, TakeStartupLock(t) PROVE Flags'
  BY <1>14 DEF TakeStartupLock
<1>15. ASSUME NEW t \in Threads, NoJudge(t) PROVE Flags'
  BY <1>15 DEF NoJudge
<1>16. ASSUME NEW t \in Threads, Submit(t) PROVE Flags'
  BY <1>16 DEF Submit
<1>17. ASSUME NEW t \in Threads, SubmitFails(t) PROVE Flags'
  BY <1>17 DEF SubmitFails
<1>18. ASSUME NEW t \in Threads, Poll(t) PROVE Flags'
  BY <1>18 DEF Poll
<1>19. ASSUME NEW t \in Threads, PollTimesOut(t) PROVE Flags'
  BY <1>19 DEF PollTimesOut
<1>20. ASSUME NEW t \in Threads, Finally(t) PROVE Flags'
  BY <1>20 DEF Finally
<1>21. ASSUME NEW t \in Threads, Down(t) PROVE Flags'
  <2>1. disturbed' \in BOOLEAN /\ half' \in BOOLEAN /\ (half' => up' = 0)
    BY <1>21 DEF Down
  <2>2. QED
    BY <1>21, <2>1 DEF Down
<1>22. ASSUME NEW t \in Threads, DownFails(t) PROVE Flags'
  BY <1>22 DEF DownFails
<1>23. ASSUME NEW t \in Threads, Clear(t) PROVE Flags'
  <2>1. keep' \in BOOLEAN /\ judgeStarted' \in BOOLEAN /\ initialized' \in BOOLEAN
    BY <1>23 DEF Clear
  <2>2. QED
    BY <1>23, <2>1 DEF Clear
<1>24. CASE JudgeOne
  BY <1>24 DEF JudgeOne, threadVars
<1>25. CASE LoseCluster
  BY <1>25 DEF LoseCluster, threadVars
<1>26. CASE UNCHANGED vars
  BY <1>26 DEF vars, threadVars
<1>27. QED
  BY <1>1, <1>2, <1>3, <1>4, <1>5, <1>6, <1>7, <1>8, <1>9, <1>10, <1>11, <1>12,
     <1>13, <1>14, <1>15, <1>16, <1>17, <1>18, <1>19, <1>20, <1>21, <1>22, <1>23, <1>24, <1>25, <1>26
     DEF Next, ThreadStep

LEMMA LocksInit == Init => Locks
BY DEF Init, NoOutcome, Locks, Pcs, Holding, Post, Job, PollsOwn

LEMMA LocksStep == TInv /\ [Next]_vars => Locks'
<1> SUFFICES ASSUME TInv, [Next]_vars PROVE Locks'
  OBVIOUS
<1> USE DEF Goto, End, Failed, cloudVars, runnerVars, historyVars,
          TInv, Locks, Pcs, Holding, Post, ClusterGoes
<1>1. ASSUME NEW t \in Threads, Begin(t) PROVE Locks'
  BY <1>1 DEF Begin
<1>2. ASSUME NEW t \in Threads, Look(t) PROVE Locks'
  BY <1>2 DEF Look
<1>3. ASSUME NEW t \in Threads, ProbeAnswered(t) PROVE Locks'
  BY <1>3 DEF ProbeAnswered
<1>4. ASSUME NEW t \in Threads, ProbeFails(t) PROVE Locks'
  BY <1>4 DEF ProbeFails
<1>5. ASSUME NEW t \in Threads, Lock(t) PROVE Locks'
  BY <1>5 DEF Lock
<1>6. ASSUME NEW t \in Threads, Find(t) PROVE Locks'
  BY <1>6 DEF Find
<1>7. ASSUME NEW t \in Threads, Ready(t) PROVE Locks'
  BY <1>7 DEF Ready
<1>8. ASSUME NEW t \in Threads, FoundDead(t) PROVE Locks'
  BY <1>8 DEF FoundDead
<1>9. ASSUME NEW t \in Threads, Launch(t) PROVE Locks'
  BY <1>9 DEF Launch, NewCluster
<1>10. ASSUME NEW t \in Threads, Raise(t) PROVE Locks'
  BY <1>10 DEF Raise, LaunchFails, NeverReady, NewCluster
<1>11. ASSUME NEW t \in Threads, Return(t) PROVE Locks'
  BY <1>11 DEF Return
<1>12. ASSUME NEW t \in Threads, SetUrl(t) PROVE Locks'
  BY <1>12 DEF SetUrl
<1>13. ASSUME NEW t \in Threads, EnsureJudge(t) PROVE Locks'
  BY <1>13 DEF EnsureJudge
<1>14. ASSUME NEW t \in Threads, TakeStartupLock(t) PROVE Locks'
  BY <1>14 DEF TakeStartupLock
<1>15. ASSUME NEW t \in Threads, NoJudge(t) PROVE Locks'
  BY <1>15 DEF NoJudge
<1>16. ASSUME NEW t \in Threads, Submit(t) PROVE Locks'
  BY <1>16 DEF Submit
<1>17. ASSUME NEW t \in Threads, SubmitFails(t) PROVE Locks'
  BY <1>17 DEF SubmitFails
<1>18. ASSUME NEW t \in Threads, Poll(t) PROVE Locks'
  BY <1>18 DEF Poll
<1>19. ASSUME NEW t \in Threads, PollTimesOut(t) PROVE Locks'
  BY <1>19 DEF PollTimesOut
<1>20. ASSUME NEW t \in Threads, Finally(t) PROVE Locks'
  BY <1>20 DEF Finally
<1>21. ASSUME NEW t \in Threads, Down(t) PROVE Locks'
  BY <1>21 DEF Down
<1>22. ASSUME NEW t \in Threads, DownFails(t) PROVE Locks'
  BY <1>22 DEF DownFails
<1>23. ASSUME NEW t \in Threads, Clear(t) PROVE Locks'
  BY <1>23 DEF Clear
<1>24. CASE JudgeOne
  BY <1>24 DEF JudgeOne, threadVars
<1>25. CASE LoseCluster
  BY <1>25 DEF LoseCluster, threadVars
<1>26. CASE UNCHANGED vars
  BY <1>26 DEF vars, threadVars
<1>27. QED
  BY <1>1, <1>2, <1>3, <1>4, <1>5, <1>6, <1>7, <1>8, <1>9, <1>10, <1>11, <1>12,
     <1>13, <1>14, <1>15, <1>16, <1>17, <1>18, <1>19, <1>20, <1>21, <1>22, <1>23, <1>24, <1>25, <1>26
     DEF Next, ThreadStep

LEMMA PerThreadInit == Init => PerThread
BY DEF Init, NoOutcome, Flags, PerThread, Job, PollsOwn

LEMMA PerThreadStep == TInv /\ [Next]_vars => PerThread'
<1> SUFFICES ASSUME TInv, [Next]_vars PROVE PerThread'
  OBVIOUS
<1> USE DEF Goto, End, Failed, cloudVars, runnerVars, historyVars,
          TInv, Flags, PerThread, Locks, Pcs, ClusterGoes
<1>1. ASSUME NEW t \in Threads, Begin(t) PROVE PerThread'
  BY <1>1 DEF Begin
<1>2. ASSUME NEW t \in Threads, Look(t) PROVE PerThread'
  BY <1>2 DEF Look
<1>3. ASSUME NEW t \in Threads, ProbeAnswered(t) PROVE PerThread'
  BY <1>3 DEF ProbeAnswered
<1>4. ASSUME NEW t \in Threads, ProbeFails(t) PROVE PerThread'
  BY <1>4 DEF ProbeFails
<1>5. ASSUME NEW t \in Threads, Lock(t) PROVE PerThread'
  BY <1>5 DEF Lock
<1>6. ASSUME NEW t \in Threads, Find(t) PROVE PerThread'
  BY <1>6 DEF Find
<1>7. ASSUME NEW t \in Threads, Ready(t) PROVE PerThread'
  BY <1>7 DEF Ready
<1>8. ASSUME NEW t \in Threads, FoundDead(t) PROVE PerThread'
  BY <1>8 DEF FoundDead
<1>9. ASSUME NEW t \in Threads, Launch(t) PROVE PerThread'
  <2>1. launched' \in Nat /\ launched <= launched' /\ up' \in 0 .. launched'
    BY <1>9, SMTT(30) DEF Launch, NewCluster
  <2>2. 0 .. launched \subseteq 0 .. launched'
    BY <2>1
  <2>3. got' \in [Threads -> 0 .. launched']
    BY <1>9, <2>1, <2>2 DEF Launch, NewCluster
  <2>4. QED
    BY <1>9, <2>3 DEF Launch, NewCluster
<1>10. ASSUME NEW t \in Threads, Raise(t) PROVE PerThread'
  <2>1. launched' \in Nat /\ launched <= launched'
    BY <1>10, SMTT(30) DEF Raise, LaunchFails, NeverReady, NewCluster
  <2>2. 0 .. launched \subseteq 0 .. launched'
    BY <2>1
  <2>3. got' \in [Threads -> 0 .. launched']
    BY <1>10, <2>1, <2>2 DEF Raise
  <2>4. QED
    BY <1>10, <2>3 DEF Raise
<1>11. ASSUME NEW t \in Threads, Return(t) PROVE PerThread'
  BY <1>11 DEF Return
<1>12. ASSUME NEW t \in Threads, SetUrl(t) PROVE PerThread'
  BY <1>12 DEF SetUrl
<1>13. ASSUME NEW t \in Threads, EnsureJudge(t) PROVE PerThread'
  BY <1>13 DEF EnsureJudge
<1>14. ASSUME NEW t \in Threads, TakeStartupLock(t) PROVE PerThread'
  BY <1>14 DEF TakeStartupLock
<1>15. ASSUME NEW t \in Threads, NoJudge(t) PROVE PerThread'
  BY <1>15 DEF NoJudge
<1>16. ASSUME NEW t \in Threads, Submit(t) PROVE PerThread'
  <2>1. begun \in Nat /\ eval[t] \in 1 .. begun
    BY <1>16 DEF Submit, Locks
  <2>2. Len(jobs') \in Nat
    BY <1>16, <2>1, Queued DEF Submit, Jobs, JobList
  <2>3. QED
    BY <1>16, <2>2 DEF Submit
<1>17. ASSUME NEW t \in Threads, SubmitFails(t) PROVE PerThread'
  BY <1>17 DEF SubmitFails
<1>18. ASSUME NEW t \in Threads, Poll(t) PROVE PerThread'
  BY <1>18 DEF Poll
<1>19. ASSUME NEW t \in Threads, PollTimesOut(t) PROVE PerThread'
  BY <1>19 DEF PollTimesOut
<1>20. ASSUME NEW t \in Threads, Finally(t) PROVE PerThread'
  BY <1>20 DEF Finally
<1>21. ASSUME NEW t \in Threads, Down(t) PROVE PerThread'
  BY <1>21 DEF Down
<1>22. ASSUME NEW t \in Threads, DownFails(t) PROVE PerThread'
  BY <1>22 DEF DownFails
<1>23. ASSUME NEW t \in Threads, Clear(t) PROVE PerThread'
  BY <1>23 DEF Clear
<1>24. CASE JudgeOne
  BY <1>24 DEF JudgeOne, threadVars
<1>25. CASE LoseCluster
  BY <1>25 DEF LoseCluster, threadVars
<1>26. CASE UNCHANGED vars
  BY <1>26 DEF vars, threadVars
<1>27. QED
  BY <1>1, <1>2, <1>3, <1>4, <1>5, <1>6, <1>7, <1>8, <1>9, <1>10, <1>11, <1>12,
     <1>13, <1>14, <1>15, <1>16, <1>17, <1>18, <1>19, <1>20, <1>21, <1>22, <1>23, <1>24, <1>25, <1>26
     DEF Next, ThreadStep

LEMMA JobsInit == Init => Jobs
BY Emptied DEF Init, Jobs

LEMMA JobsStep == TInv /\ [Next]_vars => Jobs'
<1> SUFFICES ASSUME TInv, [Next]_vars PROVE Jobs'
  OBVIOUS
<1> USE DEF Goto, End, Failed, cloudVars, runnerVars, historyVars,
          TInv, Flags, Jobs, PerThread, ClusterGoes
<1>1. ASSUME NEW t \in Threads, Begin(t) PROVE Jobs'
  <2>0. \A i \in 1 .. Len(jobs) : jobs[i] \in Job
    BY DEF JobList
  <2>1. \A i \in 1 .. Len(jobs) : jobs[i].of \in Nat
    BY <2>0 DEF Job
  <2>2. begun' = begun + 1 /\ jobs' = jobs /\ up' = up
    BY <1>1 DEF Begin
  <2>3. QED
    BY <2>1, <2>2, SMTT(30) DEF JobList
<1>2. ASSUME NEW t \in Threads, Look(t) PROVE Jobs'
  BY <1>2 DEF Look
<1>3. ASSUME NEW t \in Threads, ProbeAnswered(t) PROVE Jobs'
  BY <1>3 DEF ProbeAnswered
<1>4. ASSUME NEW t \in Threads, ProbeFails(t) PROVE Jobs'
  BY <1>4 DEF ProbeFails
<1>5. ASSUME NEW t \in Threads, Lock(t) PROVE Jobs'
  BY <1>5 DEF Lock
<1>6. ASSUME NEW t \in Threads, Find(t) PROVE Jobs'
  BY <1>6 DEF Find
<1>7. ASSUME NEW t \in Threads, Ready(t) PROVE Jobs'
  BY <1>7 DEF Ready
<1>8. ASSUME NEW t \in Threads, FoundDead(t) PROVE Jobs'
  BY <1>8 DEF FoundDead
<1>9. ASSUME NEW t \in Threads, Launch(t) PROVE Jobs'
  BY <1>9, Emptied DEF Launch, NewCluster
<1>10. ASSUME NEW t \in Threads, Raise(t) PROVE Jobs'
  BY <1>10 DEF Raise, LaunchFails, NeverReady, NewCluster
<1>11. ASSUME NEW t \in Threads, Return(t) PROVE Jobs'
  BY <1>11 DEF Return
<1>12. ASSUME NEW t \in Threads, SetUrl(t) PROVE Jobs'
  BY <1>12 DEF SetUrl
<1>13. ASSUME NEW t \in Threads, EnsureJudge(t) PROVE Jobs'
  BY <1>13 DEF EnsureJudge
<1>14. ASSUME NEW t \in Threads, TakeStartupLock(t) PROVE Jobs'
  BY <1>14 DEF TakeStartupLock
<1>15. ASSUME NEW t \in Threads, NoJudge(t) PROVE Jobs'
  BY <1>15 DEF NoJudge
<1>16. ASSUME NEW t \in Threads, Submit(t) PROVE Jobs'
  <2>1. begun \in Nat /\ eval[t] \in 1 .. begun
    BY <1>16 DEF Submit, Locks
  <2>2. QED
    BY <1>16, <2>1, Queued DEF Submit, Live
<1>17. ASSUME NEW t \in Threads, SubmitFails(t) PROVE Jobs'
  <2>1. begun \in Nat /\ eval[t] \in 1 .. begun
    BY <1>17 DEF SubmitFails, Locks
  <2>2. QED
    BY <1>17, <2>1, Queued DEF SubmitFails, Live
<1>18. ASSUME NEW t \in Threads, Poll(t) PROVE Jobs'
  <2>1. sid[t] \in 1 .. Len(jobs) /\ jobs' = [jobs EXCEPT ![sid[t]].state = "taken"]
    BY <1>18 DEF Poll, JobList
  <2>2. JobList(jobs', begun)
    BY <2>1, Marked
  <2>3. QED
    BY <1>18, <2>2 DEF Poll, Live
<1>19. ASSUME NEW t \in Threads, PollTimesOut(t) PROVE Jobs'
  BY <1>19 DEF PollTimesOut
<1>20. ASSUME NEW t \in Threads, Finally(t) PROVE Jobs'
  BY <1>20 DEF Finally
<1>21. ASSUME NEW t \in Threads, Down(t) PROVE Jobs'
  BY <1>21, Emptied DEF Down
<1>22. ASSUME NEW t \in Threads, DownFails(t) PROVE Jobs'
  BY <1>22 DEF DownFails
<1>23. ASSUME NEW t \in Threads, Clear(t) PROVE Jobs'
  BY <1>23 DEF Clear
<1>24. CASE JudgeOne
  <2>0. DOMAIN jobs = 1 .. Len(jobs)
    BY DEF JobList
  <2>1. PICK k \in 1 .. Len(jobs) : jobs' = [jobs EXCEPT ![k].state = "final"]
    BY <1>24, <2>0 DEF JudgeOne
  <2>a. JobList(jobs', begun)
    BY <2>1, Marked
  <2>2. JobList(jobs', begun) /\ jobs # <<>>
    BY <2>1, <2>a
  <2>3. QED
    BY <1>24, <2>2 DEF JudgeOne, threadVars
<1>25. CASE LoseCluster
  BY <1>25, Emptied DEF LoseCluster, threadVars
<1>26. CASE UNCHANGED vars
  BY <1>26 DEF vars, threadVars
<1>27. QED
  BY <1>1, <1>2, <1>3, <1>4, <1>5, <1>6, <1>7, <1>8, <1>9, <1>10, <1>11, <1>12,
     <1>13, <1>14, <1>15, <1>16, <1>17, <1>18, <1>19, <1>20, <1>21, <1>22, <1>23, <1>24, <1>25, <1>26
     DEF Next, ThreadStep

\* The four together.
LEMMA TInvInit == Init => TInv
BY FlagsInit, LocksInit, PerThreadInit, JobsInit DEF TInv

LEMMA TInvStep == TInv /\ [Next]_vars => TInv'
BY FlagsStep, LocksStep, PerThreadStep, JobsStep DEF TInv

LEMMA OInvInit == Init => OInv
<1> SUFFICES ASSUME Init, NEW t \in Threads
             PROVE  pc[t] # "poll" /\ outcome[t].status # "judged"
  BY DEF OInv, PollsOwn
<1>1. pc[t] = "idle" /\ outcome[t] = NoOutcome
  BY DEF Init
<1>2. QED
  BY <1>1 DEF NoOutcome

LEMMA OInvStep == TInv /\ OInv /\ [Next]_vars => OInv'
<1> SUFFICES ASSUME TInv, OInv, [Next]_vars, ~disturbed' PROVE PollsOwn'
  BY DEF OInv
<1>a. ~disturbed
  BY ZenonT(60)
     DEF Next, ThreadStep, Begin, Look, ProbeAnswered, ProbeFails, Lock, Find, Ready, FoundDead,
     Launch, NewCluster, Raise, LaunchFails, NeverReady, Return, SetUrl, EnsureJudge, TakeStartupLock, NoJudge,
     Submit, SubmitFails, Poll,
     PollTimesOut, Finally, Down, DownFails, Clear, JudgeOne, LoseCluster, ClusterGoes, vars,
     historyVars
<1>b. PollsOwn
  BY <1>a DEF OInv
<1> USE DEF Goto, End, Failed, cloudVars, runnerVars, historyVars,
          PollsOwn, NoOutcome, TInv, Flags, PerThread, Jobs, Locks, ClusterGoes
<1>1. ASSUME NEW t \in Threads, Begin(t) PROVE PollsOwn'
  <2>1. outcome'[t].status = "none" /\ pc'[t] = "begun"
    BY <1>1, <1>b DEF Begin
  <2>2. \A u \in Threads \ {t} :
          pc'[u] = pc[u] /\ eval'[u] = eval[u] /\ outcome'[u] = outcome[u] /\ sid' = sid /\ jobs' = jobs
    BY <1>1, <1>b DEF Begin
  <2>3. QED
    BY <1>b, <2>1, <2>2, SMTT(30)
<1>2. ASSUME NEW t \in Threads, Look(t) PROVE PollsOwn'
  BY <1>2, <1>b DEF Look
<1>3. ASSUME NEW t \in Threads, ProbeAnswered(t) PROVE PollsOwn'
  BY <1>3, <1>b DEF ProbeAnswered
<1>4. ASSUME NEW t \in Threads, ProbeFails(t) PROVE PollsOwn'
  BY <1>4, <1>b DEF ProbeFails
<1>5. ASSUME NEW t \in Threads, Lock(t) PROVE PollsOwn'
  BY <1>5, <1>b DEF Lock
<1>6. ASSUME NEW t \in Threads, Find(t) PROVE PollsOwn'
  BY <1>6, <1>b DEF Find
<1>7. ASSUME NEW t \in Threads, Ready(t) PROVE PollsOwn'
  BY <1>7, <1>b DEF Ready
<1>8. ASSUME NEW t \in Threads, FoundDead(t) PROVE PollsOwn'
  BY <1>8, <1>b DEF FoundDead
<1>9. ASSUME NEW t \in Threads, Launch(t) PROVE PollsOwn'
  BY <1>9, <1>b, SMTT(30) DEF Launch, NewCluster
<1>10. ASSUME NEW t \in Threads, Raise(t) PROVE PollsOwn'
  BY <1>10, <1>b DEF Raise, LaunchFails, NeverReady, NewCluster
<1>11. ASSUME NEW t \in Threads, Return(t) PROVE PollsOwn'
  BY <1>11, <1>b DEF Return
<1>12. ASSUME NEW t \in Threads, SetUrl(t) PROVE PollsOwn'
  BY <1>12, <1>b DEF SetUrl
<1>13. ASSUME NEW t \in Threads, EnsureJudge(t) PROVE PollsOwn'
  BY <1>13, <1>b DEF EnsureJudge
<1>14. ASSUME NEW t \in Threads, TakeStartupLock(t) PROVE PollsOwn'
  BY <1>14, <1>b DEF TakeStartupLock
<1>15. ASSUME NEW t \in Threads, NoJudge(t) PROVE PollsOwn'
  BY <1>15, <1>b DEF NoJudge
<1>16. ASSUME NEW t \in Threads, Submit(t) PROVE PollsOwn'
  <2>1. begun \in Nat /\ eval[t] \in 1 .. begun
    BY <1>16, <1>b DEF Submit, Locks
  <2>2. /\ Len(jobs') = Len(jobs) + 1 /\ jobs'[Len(jobs')].of = eval[t]
        /\ \A i \in 1 .. Len(jobs) : jobs'[i].of = jobs[i].of
        /\ Len(jobs) \in Nat
    <3>1. JobList(jobs, begun)
      OBVIOUS
    <3>2. jobs' = Append(jobs, [of |-> eval[t], state |-> "queued"])
      BY <1>16 DEF Submit
    <3>3. Len(jobs) \in Nat
      BY <3>1 DEF JobList
    <3> HIDE DEF TInv, PollsOwn, Jobs
    <3>4. QED
      BY <2>1, <3>1, <3>2, <3>3, Queued
  <2>3. pc[t] # "poll" /\ sid'[t] = Len(jobs') /\ outcome' = outcome /\ eval' = eval
    BY <1>16, <1>b DEF Submit
  <2>4. \A u \in Threads \ {t} : pc'[u] = pc[u] /\ sid'[u] = sid[u]
    BY <1>16, <1>b DEF Submit
  <2>5. ASSUME NEW u \in Threads, u # t
        PROVE  /\ pc'[u] = "poll" => sid'[u] \in 1 .. Len(jobs') /\ jobs'[sid'[u]].of = eval'[u]
               /\ outcome'[u].status = "judged" => outcome'[u].of = eval'[u]
    <3>1. pc'[u] = pc[u] /\ outcome'[u] = outcome[u] /\ sid'[u] = sid[u] /\ eval'[u] = eval[u]
      BY <2>3, <2>4, <2>5
    <3>2. pc[u] = "poll" => sid[u] \in 1 .. Len(jobs) /\ jobs[sid[u]].of = eval[u]
      BY <1>b
    <3>3. pc[u] = "poll" => sid[u] \in 1 .. Len(jobs') /\ jobs'[sid[u]].of = eval[u]
      <4> SUFFICES ASSUME pc[u] = "poll"
                   PROVE  sid[u] \in 1 .. Len(jobs') /\ jobs'[sid[u]].of = eval[u]
        OBVIOUS
      <4> HIDE DEF TInv
      <4>1. jobs'[sid[u]].of = eval[u]
        BY <2>2, <3>2
      <4>2. sid[u] \in 1 .. Len(jobs')
        BY <2>2, <3>2
      <4>3. QED
        BY <4>1, <4>2
    <3>4. outcome[u].status = "judged" => outcome[u].of = eval[u]
      BY <1>b
    <3>5. QED
      BY <3>1, <3>3, <3>4
  <2>6. outcome'[t].status = "judged" => outcome'[t].of = eval'[t]
    BY <1>b, <2>3
  <2>7. sid'[t] \in 1 .. Len(jobs') /\ jobs'[sid'[t]].of = eval'[t]
    BY <2>2, <2>3
  <2>8. QED
    BY <2>5, <2>6, <2>7
<1>17. ASSUME NEW t \in Threads, SubmitFails(t) PROVE PollsOwn'
  <2>1. begun \in Nat /\ eval[t] \in 1 .. begun
    BY <1>17, <1>b DEF SubmitFails, Locks
  <2>2. CASE jobs' = jobs
    BY <1>17, <1>b, <2>2 DEF SubmitFails
  <2>3. CASE jobs' = Append(jobs, [of |-> eval[t], state |-> "queued"])
    <3>1. /\ Len(jobs') = Len(jobs) + 1 /\ Len(jobs) \in Nat
          /\ \A i \in 1 .. Len(jobs) : jobs'[i].of = jobs[i].of
      BY <2>1, <2>3, Queued DEF JobList
    <3>2. pc'[t] = "finally" /\ outcome'[t].status = "error" /\ eval' = eval /\ sid' = sid
      BY <1>17, <1>b DEF SubmitFails
    <3>3. \A u \in Threads \ {t} : pc'[u] = pc[u] /\ outcome'[u] = outcome[u]
      BY <1>17, <1>b DEF SubmitFails
    <3>4. ASSUME NEW u \in Threads, u # t
          PROVE  /\ pc'[u] = "poll" => sid'[u] \in 1 .. Len(jobs') /\ jobs'[sid'[u]].of = eval'[u]
                 /\ outcome'[u].status = "judged" => outcome'[u].of = eval'[u]
      <4>1. pc'[u] = pc[u] /\ outcome'[u] = outcome[u] /\ sid'[u] = sid[u] /\ eval'[u] = eval[u]
        BY <3>2, <3>3, <3>4
      <4>2. pc[u] = "poll" => sid[u] \in 1 .. Len(jobs) /\ jobs[sid[u]].of = eval[u]
        BY <1>b
      <4>3. pc[u] = "poll" => sid[u] \in 1 .. Len(jobs') /\ jobs'[sid[u]].of = eval[u]
        <5> SUFFICES ASSUME pc[u] = "poll"
                     PROVE  sid[u] \in 1 .. Len(jobs') /\ jobs'[sid[u]].of = eval[u]
          OBVIOUS
        <5> HIDE DEF TInv
        <5>1. jobs'[sid[u]].of = eval[u]
          BY <3>1, <4>2
        <5>2. sid[u] \in 1 .. Len(jobs')
          BY <3>1, <4>2
        <5>3. QED
          BY <5>1, <5>2
      <4>4. outcome[u].status = "judged" => outcome[u].of = eval[u]
        BY <1>b
      <4>5. QED
        BY <4>1, <4>3, <4>4
    <3>5. QED
      BY <3>2, <3>4
  <2>4. QED
    BY <1>17, <1>b, <2>2, <2>3 DEF SubmitFails
<1>18. ASSUME NEW t \in Threads, Poll(t) PROVE PollsOwn'
  <2>1. sid[t] \in 1 .. Len(jobs) /\ jobs' = [jobs EXCEPT ![sid[t]].state = "taken"]
    BY <1>18, <1>b DEF Poll, JobList
  <2>2. Len(jobs') = Len(jobs) /\ \A i \in 1 .. Len(jobs) : jobs'[i].of = jobs[i].of
    BY <2>1, Marked, SMTT(30)
  <2>3. jobs[sid[t]].of = eval[t]
    BY <1>18, <1>b DEF Poll
  <2>4. \A u \in Threads \ {t} : pc'[u] = pc[u] /\ outcome'[u] = outcome[u]
    BY <1>18, <1>b DEF Poll
  <2>5. /\ eval' = eval /\ sid' = sid
        /\ outcome'[t].status = "judged" => outcome'[t].of = eval[t]
    BY <1>18, <1>b, <2>3, SMTT(30) DEF Poll
  <2>6. pc'[t] = "poll" => pc[t] = "poll"
    BY <1>18, <1>b DEF Poll
  <2>7. QED
    BY <1>b, <2>2, <2>4, <2>5, <2>6, ZenonT(60)
<1>19. ASSUME NEW t \in Threads, PollTimesOut(t) PROVE PollsOwn'
  BY <1>19, <1>b DEF PollTimesOut
<1>20. ASSUME NEW t \in Threads, Finally(t) PROVE PollsOwn'
  <2>1. \A u \in Threads : outcome'[u] = outcome[u] /\ (pc'[u] = "poll" => pc[u] = "poll" /\ sid'[u] = sid[u])
    BY <1>20, <1>b DEF Finally
  <2>2. QED
    BY <1>20, <1>b, <2>1, SMTT(30) DEF Finally
<1>21. ASSUME NEW t \in Threads, Down(t) PROVE PollsOwn'
  BY <1>21, <1>b DEF Down
<1>22. ASSUME NEW t \in Threads, DownFails(t) PROVE PollsOwn'
  BY <1>22, <1>b DEF DownFails
<1>23. ASSUME NEW t \in Threads, Clear(t) PROVE PollsOwn'
  BY <1>23, <1>b DEF Clear
<1>24. CASE JudgeOne
  <2>0. DOMAIN jobs = 1 .. Len(jobs)
    BY DEF JobList
  <2>1. PICK k \in 1 .. Len(jobs) : jobs' = [jobs EXCEPT ![k].state = "final"]
    BY <1>24, <1>b, <2>0 DEF JudgeOne
  <2>2. Len(jobs') = Len(jobs) /\ \A i \in 1 .. Len(jobs) : jobs'[i].of = jobs[i].of
    BY <2>1, Marked, SMTT(30)
  <2>3. QED
    BY <1>24, <1>b, <2>2 DEF JudgeOne, threadVars
<1>25. CASE LoseCluster
  BY <1>25, <1>b DEF LoseCluster, threadVars
<1>26. CASE UNCHANGED vars
  BY <1>26, <1>b DEF vars, threadVars
<1>27. QED
  BY <1>1, <1>b, <1>2, <1>3, <1>4, <1>5, <1>6, <1>7, <1>8, <1>9, <1>10, <1>11, <1>12,
     <1>13, <1>14, <1>15, <1>16, <1>17, <1>18, <1>19, <1>20, <1>21, <1>22, <1>23, <1>24, <1>25, <1>26
     DEF Next, ThreadStep

LEMMA NInvInit == Init => NInv
BY DEF Init, NoOutcome, NInv, Post, Live, Job, PollsOwn

LEMMA NInvStep == TInv /\ NInv /\ [Next]_vars => NInv'
<1> SUFFICES ASSUME TInv, NInv, [Next]_vars PROVE NInv'
  OBVIOUS
<1> USE DEF Goto, End, Failed, cloudVars, runnerVars, historyVars,
          NInv, Post, Live, Flags, Locks, Pcs, Holding, PerThread, TInv, ClusterGoes
<1>1. ASSUME NEW t \in Threads, Begin(t) PROVE NInv'
  BY <1>1 DEF Begin
<1>2. ASSUME NEW t \in Threads, Look(t) PROVE NInv'
  BY <1>2 DEF Look
<1>3. ASSUME NEW t \in Threads, ProbeAnswered(t) PROVE NInv'
  BY <1>3 DEF ProbeAnswered
<1>4. ASSUME NEW t \in Threads, ProbeFails(t) PROVE NInv'
  BY <1>4 DEF ProbeFails
<1>5. ASSUME NEW t \in Threads, Lock(t) PROVE NInv'
  BY <1>5 DEF Lock
<1>6. ASSUME NEW t \in Threads, Find(t) PROVE NInv'
  BY <1>6 DEF Find
<1>7. ASSUME NEW t \in Threads, Ready(t) PROVE NInv'
  BY <1>7 DEF Ready
<1>8. ASSUME NEW t \in Threads, FoundDead(t) PROVE NInv'
  BY <1>8 DEF FoundDead
<1>9. ASSUME NEW t \in Threads, Launch(t) PROVE NInv'
  BY <1>9 DEF Launch, NewCluster
<1>10. ASSUME NEW t \in Threads, Raise(t) PROVE NInv'
  BY <1>10 DEF Raise, LaunchFails, NeverReady, NewCluster
<1>11. ASSUME NEW t \in Threads, Return(t) PROVE NInv'
  BY <1>11 DEF Return
<1>12. ASSUME NEW t \in Threads, SetUrl(t) PROVE NInv'
  BY <1>12 DEF SetUrl
<1>13. ASSUME NEW t \in Threads, EnsureJudge(t) PROVE NInv'
  BY <1>13 DEF EnsureJudge
<1>14. ASSUME NEW t \in Threads, TakeStartupLock(t) PROVE NInv'
  BY <1>14 DEF TakeStartupLock
<1>15. ASSUME NEW t \in Threads, NoJudge(t) PROVE NInv'
  BY <1>15 DEF NoJudge
<1>16. ASSUME NEW t \in Threads, Submit(t) PROVE NInv'
  BY <1>16 DEF Submit
<1>17. ASSUME NEW t \in Threads, SubmitFails(t) PROVE NInv'
  BY <1>17 DEF SubmitFails
<1>18. ASSUME NEW t \in Threads, Poll(t) PROVE NInv'
  BY <1>18 DEF Poll
<1>19. ASSUME NEW t \in Threads, PollTimesOut(t) PROVE NInv'
  BY <1>19 DEF PollTimesOut
<1>20. ASSUME NEW t \in Threads, Finally(t) PROVE NInv'
  BY <1>20 DEF Finally
<1>21. ASSUME NEW t \in Threads, Down(t) PROVE NInv'
  BY <1>21 DEF Down
<1>22. ASSUME NEW t \in Threads, DownFails(t) PROVE NInv'
  BY <1>22 DEF DownFails
<1>23. ASSUME NEW t \in Threads, Clear(t) PROVE NInv'
  BY <1>23 DEF Clear
<1>24. CASE JudgeOne
  BY <1>24 DEF JudgeOne, threadVars
<1>25. CASE LoseCluster
  BY <1>25 DEF LoseCluster, threadVars
<1>26. CASE UNCHANGED vars
  BY <1>26 DEF vars, threadVars
<1>27. QED
  BY <1>1, <1>2, <1>3, <1>4, <1>5, <1>6, <1>7, <1>8, <1>9, <1>10, <1>11, <1>12,
     <1>13, <1>14, <1>15, <1>16, <1>17, <1>18, <1>19, <1>20, <1>21, <1>22, <1>23, <1>24, <1>25, <1>26
     DEF Next, ThreadStep

-----------------------------------------------------------------------------
(* Theorems.                                                               *)

\* Every variable keeps its type; a lock is held by exactly the thread that is in
\* the section it guards, whichever request raised (_ensure_cluster, _ensure_judge).
THEOREM TypeCorrect == Spec => []TypeOK
<1>1. TInv => TypeOK
  <2> SUFFICES ASSUME TInv PROVE TypeOK
    OBVIOUS
  <2>1. Flags /\ Locks /\ PerThread /\ Jobs
    BY DEF TInv
  <2>2. jobs \in Seq([of : 1 .. begun, state : {"queued", "final", "taken"}])
    <3>1. jobs \in Seq(Job) /\ begun \in Nat
      BY <2>1 DEF Jobs, JobList, Flags
    <3>2. ASSUME NEW i \in 1 .. Len(jobs)
          PROVE  jobs[i] \in [of : 1 .. begun, state : {"queued", "final", "taken"}]
      <4>1. jobs[i] \in Job /\ jobs[i].of <= begun
        BY <2>1, <3>1 DEF Jobs, JobList
      <4>2. QED
        BY <3>1, <4>1 DEF Job
    <3>3. jobs \in [1 .. Len(jobs) -> [of : 1 .. begun, state : {"queued", "final", "taken"}]]
      BY <3>1, <3>2
    <3> DEFINE S == [of : 1 .. begun, state : {"queued", "final", "taken"}]
    <3>4. Len(jobs) \in Nat /\ jobs \in [1 .. Len(jobs) -> S]
      BY <3>1, <3>3
    <3> HIDE DEF S
    <3>5. jobs \in Seq(S)
      BY <3>4, SeqDef, Zenon
    <3>6. QED
      BY <3>5 DEF S
  <2>3. QED
    BY <2>1, <2>2 DEF Flags, Locks, PerThread, TypeOK
<1>2. QED
  BY <1>1, TInvInit, TInvStep, PTL DEF Spec

\* However many threads share the judge, each reports the verdict of its own
\* solution, as long as no cluster went under a poll (_poll_result, judge_url).
THEOREM AnswersAreOwn == Spec => []AnswerIsOwn
<1>1. OInv => AnswerIsOwn
  BY DEF OInv, PollsOwn, AnswerIsOwn
<1>2. QED
  BY <1>1, TInvInit, TInvStep, OInvInit, OInvStep, PTL DEF Spec

\* However any number of threads find, launch and stop the cluster, the last to
\* end has left none that is up, unless a request to a live one or a launch of it
\* failed, or its flag was reset for an older one's sake (evaluate, stop_cluster).
THEOREM NothingIsLeftRunning == Spec => []NothingLeftRunning
<1>1. TInv /\ NInv => NothingLeftRunning
  BY DEF TInv, NInv, NothingLeftRunning, Post
<1>2. QED
  BY <1>1, TInvInit, TInvStep, NInvInit, NInvStep, PTL DEF Spec

=============================================================================
