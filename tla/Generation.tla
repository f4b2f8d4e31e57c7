------------------------------ MODULE Generation ------------------------------
(***************************************************************************)
(* Generation of solutions (algorithmic/scripts/generate_solutions.py,     *)
(* frontier_cs/gen): a run selects the (problem, model, variant) tasks by  *)
(* the files on disk, executes them on a pool of threads, each with a key  *)
(* of the provider's APIKeyPool, leaves a solution or a .FAILED marker,    *)
(* and reports each call to the pool from the main thread alone. Runs      *)
(* follow one another, end, fail or are killed.                            *)
(*                                                                         *)
(* Models and variants are part of a task; all tasks have one provider,    *)
(* which has a pool. The retries inside generate_code are part of the one  *)
(* step in which it raises. The unit of time is the minute.                *)
(***************************************************************************)
EXTENDS Integers, FiniteSets

CONSTANTS
  Tasks,        \* the tasks a run is about
  NKeys,        \* the keys of the pool are 1 .. NKeys, in its order
  Weight,       \* the weight of each key
  Concurrency,  \* the threads of the executor
  MaxBackoff,   \* the longest back-off (10 minutes in the code)
  DiskMayFail,  \* may a write or an unlink fail?
  MaxTime,      \* bound: the clock
  MaxRuns,      \* bound: runs started
  MaxCrashes,   \* bound: runs killed
  None          \* no key, no outcome

Keys == 1 .. NKeys

ASSUME GenerationAssumption ==
  /\ NKeys \in Nat \ {0} /\ Weight \in [Keys -> Nat \ {0}]
  /\ Concurrency \in Nat \ {0} /\ MaxBackoff \in Nat \ {0}
  /\ DiskMayFail \in BOOLEAN
  /\ MaxTime \in Nat /\ MaxRuns \in Nat /\ MaxCrashes \in Nat
  /\ None \notin Keys /\ None \notin {"generated", "failed", "denied", "refused"}

VARIABLES
  sol,       \* the solution file of a task: "none", "torn" or "whole"
  marker,    \* is there a .FAILED file?
  phase,     \* where the main thread is
  mode,      \* how the run was started
  tpc,       \* where a task is
  key,       \* pool_token: the key it uses, until it is reported
  outcome,   \* what execute_task returned; "denied": an error with a fatal marker
  failures, disabled, backoff, usage,  \* the state of a key in the pool
  now,
  everOff,   \* history: keys some acquire found disabled or backing off
  lost,      \* history: tasks killed, or not marked as they should be, since last generated
  runs, crashes

files    == <<sol, marker>>
poolVars == <<failures, disabled, backoff, usage, everOff>>
runVars  == <<phase, mode, runs, crashes>>
taskVars == <<tpc, key, outcome>>
vars     == <<files, poolVars, runVars, taskVars, now, lost>>

NewPool ==
  /\ failures' = [k \in Keys |-> 0] /\ disabled' = [k \in Keys |-> FALSE]
  /\ backoff' = [k \in Keys |-> 0] /\ usage' = [k \in Keys |-> 0]
  /\ everOff' = {}

\* Earlier runs may have left solutions and markers.
Init ==
  /\ sol \in [Tasks -> {"none", "whole"}] /\ marker \in [Tasks -> BOOLEAN]
  /\ phase = "off" /\ mode = "default"
  /\ tpc = [t \in Tasks |-> "out"]
  /\ key = [t \in Tasks |-> None] /\ outcome = [t \in Tasks |-> None]
  /\ failures = [k \in Keys |-> 0] /\ disabled = [k \in Keys |-> FALSE]
  /\ backoff = [k \in Keys |-> 0] /\ usage = [k \in Keys |-> 0]
  /\ everOff = {}
  /\ now = 0 /\ lost = {} /\ runs = 0 /\ crashes = 0

MoveTo(t, there) == tpc' = [tpc EXCEPT ![t] = there]

-----------------------------------------------------------------------------
(* A run                                                                   *)

\* Fault: a default run does not look for an existing solution.
Selected_Unfiltered(m) == {t \in Tasks : m = "force" \/ ~marker[t]}

\* --only-failed looks at the marker alone; otherwise a solution file, whatever
\* is in it, or a marker means the task is skipped, unless --force.
Selected(m) ==
  CASE m = "only_failed" -> {t \in Tasks : marker[t]}
    [] m = "force"       -> Tasks
    [] OTHER             -> {t \in Tasks : sol[t] = "none" /\ ~marker[t]}

\* The pools are built anew; --mark-failed only writes markers.
Start(m) ==
  /\ phase = "off" /\ runs < MaxRuns
  /\ Selected(m) # {}
  /\ phase' = IF m = "mark" THEN "marking" ELSE "running"
  /\ mode' = m /\ runs' = runs + 1
  /\ tpc' = [t \in Tasks |-> IF t \in Selected(m) THEN "queued" ELSE "out"]
  /\ key' = [t \in Tasks |-> None] /\ outcome' = [t \in Tasks |-> None]
  /\ NewPool
  /\ UNCHANGED <<files, now, lost, crashes>>

\* --mark-failed: the main thread writes the markers, and stops when it cannot.
MarkOnly(t) ==
  /\ phase = "marking" /\ tpc[t] = "queued"
  /\ \/ /\ marker' = [marker EXCEPT ![t] = TRUE]
        /\ MoveTo(t, "reported")
        /\ UNCHANGED <<phase, lost>>
     \/ /\ DiskMayFail
        /\ \E b \in {marker[t], TRUE} : marker' = [marker EXCEPT ![t] = b]
        /\ MoveTo(t, "raised")
        /\ phase' = "aborting"
        /\ lost' = lost \union {t}
  /\ UNCHANGED <<sol, poolVars, mode, runs, crashes, key, outcome, now>>

-----------------------------------------------------------------------------
(* A task on its thread                                                    *)

Active == {t \in Tasks : tpc[t] \in {"calling", "writing", "unlinking"}}

Available(k) == ~disabled[k] /\ backoff[k] <= now

\* Fault: the key with the lowest use, whatever its weight.
Best_Unweighted(k, K) == \A l \in K : usage[k] < usage[l] \/ (usage[k] = usage[l] /\ k <= l)

\* The lowest ratio of use to weight, the first of equals.
Best(k, K) ==
  \A l \in K :
    LET a == usage[k] * Weight[l]  b == usage[l] * Weight[k]
    IN  a < b \/ (a = b /\ k <= l)

\* Fault: acquire waits for a key instead of returning none.
Begin_WaitsForKey(t) ==
  LET K == {k \in Keys : Available(k)}
  IN
  /\ phase \in {"running", "aborting"} /\ mode # "mark"
  /\ tpc[t] = "queued" /\ Cardinality(Active) < Concurrency
  /\ everOff' = everOff \union (Keys \ K)
  /\ \E k \in K :
       /\ Best(k, K)
       /\ usage' = [usage EXCEPT ![k] = @ + 1]
       /\ key' = [key EXCEPT ![t] = k]
       /\ MoveTo(t, "calling")
  /\ UNCHANGED <<files, outcome, failures, disabled, backoff, runVars, now, lost>>

\* Without an available key the task ends at once, and leaves no marker.
Begin(t) ==
  LET K == {k \in Keys : Available(k)}
  IN
  /\ phase \in {"running", "aborting"} /\ mode # "mark"
  /\ tpc[t] = "queued" /\ Cardinality(Active) < Concurrency
  /\ everOff' = everOff \union (Keys \ K)
  /\ \/ /\ K = {}
        /\ outcome' = [outcome EXCEPT ![t] = "refused"]
        /\ MoveTo(t, "ended")
        /\ UNCHANGED <<usage, key>>
     \/ \E k \in K :
          /\ Best(k, K)
          /\ usage' = [usage EXCEPT ![k] = @ + 1]
          /\ key' = [key EXCEPT ![t] = k]
          /\ MoveTo(t, "calling")
          /\ UNCHANGED outcome
  /\ UNCHANGED <<files, failures, disabled, backoff, runVars, now, lost>>

\* The directory of the log is made before the key is acquired and outside the
\* try: the task raises, and leaves no marker.
LogDirFails(t) ==
  /\ DiskMayFail
  /\ phase \in {"running", "aborting"} /\ mode # "mark"
  /\ tpc[t] = "queued" /\ Cardinality(Active) < Concurrency
  /\ MoveTo(t, "raised")
  /\ UNCHANGED <<files, poolVars, runVars, key, outcome, now, lost>>

\* An error is caught and marked; its text decides later what becomes of the
\* key. When the marker cannot be written the handler itself raises, and an
\* empty marker may be left. (A kill before the marker is one before the error.)
Except(t, kind) ==
  /\ \/ /\ marker' = [marker EXCEPT ![t] = TRUE]
        /\ outcome' = [outcome EXCEPT ![t] = kind]
        /\ MoveTo(t, "ended")
        /\ UNCHANGED lost
     \/ /\ DiskMayFail
        /\ \E b \in {marker[t], TRUE} : marker' = [marker EXCEPT ![t] = b]
        /\ MoveTo(t, "raised")
        /\ lost' = lost \union {t}
        /\ UNCHANGED outcome
  /\ UNCHANGED <<sol, poolVars, runVars, key, now>>

\* Every client turns a refusal of the provider into an empty answer: after the
\* retries the error is always "LLM call failed after retries".
CallFails(t) == tpc[t] = "calling" /\ Except(t, "failed")

\* "Permission denied" holds a fatal marker, "No space left" does not.
DiskFails(t) ==
  /\ DiskMayFail
  /\ tpc[t] \in {"calling", "writing", "unlinking"}
  /\ \E kind \in {"failed", "denied"} : Except(t, kind)

\* A call succeeds. write_text truncates the file before it writes.
OpenFile(t) ==
  /\ tpc[t] = "calling"
  /\ sol' = [sol EXCEPT ![t] = "torn"]
  /\ MoveTo(t, "writing")
  /\ UNCHANGED <<marker, poolVars, runVars, key, outcome, now, lost>>

\* Fault: a marker of an earlier run stays.
WriteFile_KeepsMarker(t) ==
  /\ tpc[t] = "writing"
  /\ sol' = [sol EXCEPT ![t] = "whole"]
  /\ outcome' = [outcome EXCEPT ![t] = "generated"] /\ MoveTo(t, "ended")
  /\ UNCHANGED <<marker, poolVars, runVars, key, now, lost>>

WriteFile(t) ==
  /\ tpc[t] = "writing"
  /\ sol' = [sol EXCEPT ![t] = "whole"]
  /\ IF marker[t]
     THEN MoveTo(t, "unlinking") /\ UNCHANGED outcome
     ELSE outcome' = [outcome EXCEPT ![t] = "generated"] /\ MoveTo(t, "ended")
  /\ UNCHANGED <<marker, poolVars, runVars, key, now>>
  /\ lost' = lost \ {t}

UnlinkMarker(t) ==
  /\ tpc[t] = "unlinking"
  /\ marker' = [marker EXCEPT ![t] = FALSE]
  /\ outcome' = [outcome EXCEPT ![t] = "generated"]
  /\ MoveTo(t, "ended")
  /\ UNCHANGED <<sol, poolVars, runVars, key, now, lost>>

-----------------------------------------------------------------------------
(* The main thread, over as_completed                                      *)

\* Fault: a late success enables the key again.
ReportSuccess_Enables(k) ==
  /\ failures' = [failures EXCEPT ![k] = 0]
  /\ backoff' = [backoff EXCEPT ![k] = 0]
  /\ disabled' = [disabled EXCEPT ![k] = FALSE]

ReportSuccess(k) ==
  /\ failures' = [failures EXCEPT ![k] = 0]
  /\ backoff' = [backoff EXCEPT ![k] = 0]
  /\ UNCHANGED disabled

Lower(a, b) == IF a <= b THEN a ELSE b
Higher(a, b) == IF a >= b THEN a ELSE b

\* Of a disabled key only the flag matters: acquire looks at it first.
ReportFailure(k, fatal) ==
  /\ failures' = [failures EXCEPT ![k] = @ + 1]
  /\ IF fatal
     THEN disabled' = [disabled EXCEPT ![k] = TRUE] /\ UNCHANGED backoff
     ELSE /\ backoff' = [backoff EXCEPT ![k] = Higher(@, now + Lower(MaxBackoff, failures[k] + 1))]
          /\ UNCHANGED disabled

Report(t) ==
  /\ phase = "running" /\ tpc[t] = "ended"
  /\ IF key[t] = None
     THEN UNCHANGED <<failures, disabled, backoff>>
     ELSE IF outcome[t] = "generated"
          THEN ReportSuccess(key[t])
          ELSE ReportFailure(key[t], outcome[t] = "denied")
  /\ key' = [key EXCEPT ![t] = None]
  /\ MoveTo(t, "reported")
  /\ UNCHANGED <<files, usage, everOff, runVars, outcome, now, lost>>

\* future.result() raises: the executor still executes every queued task.
Abort(t) ==
  /\ phase = "running" /\ tpc[t] = "raised"
  /\ phase' = "aborting"
  /\ UNCHANGED <<files, poolVars, mode, runs, crashes, taskVars, now, lost>>

Exit ==
  /\ phase' = "off"
  /\ tpc' = [t \in Tasks |-> "out"]
  /\ key' = [t \in Tasks |-> None] /\ outcome' = [t \in Tasks |-> None]
  /\ NewPool

End ==
  /\ phase \in {"running", "marking"}
  /\ \A t \in Tasks : tpc[t] \in {"out", "reported"}
  /\ Exit
  /\ UNCHANGED <<files, mode, runs, crashes, now, lost>>

EndAborted ==
  /\ phase = "aborting"
  /\ \A t \in Tasks : tpc[t] \in {"out", "reported", "ended", "raised"} \/ mode = "mark"
  /\ Exit
  /\ UNCHANGED <<files, mode, runs, crashes, now, lost>>

Crash ==
  /\ phase # "off" /\ crashes < MaxCrashes
  /\ crashes' = crashes + 1
  /\ lost' = lost \union {t \in Tasks : tpc[t] \notin {"out", "ended", "reported"}}
  /\ Exit
  /\ UNCHANGED <<files, mode, runs, now>>

Tick ==
  /\ phase # "off" /\ now < MaxTime
  /\ now' = now + 1
  /\ UNCHANGED <<files, poolVars, runVars, taskVars, lost>>

TaskStep(t) ==
  \/ MarkOnly(t) \/ Begin(t) \/ CallFails(t) \/ OpenFile(t)
  \/ WriteFile(t) \/ UnlinkMarker(t) \/ Report(t) \/ Abort(t)

DiskStep(t) == LogDirFails(t) \/ DiskFails(t)

Next ==
  \/ \E m \in {"default", "force", "only_failed", "mark"} : Start(m)
  \/ \E t \in Tasks : TaskStep(t) \/ DiskStep(t)
  \/ End \/ EndAborted \/ Crash \/ Tick

Spec == Init /\ [][Next]_vars

\* Every call has a time limit and every thread goes on; no disk need fail.
Fairness == WF_vars((\E t \in Tasks : TaskStep(t)) \/ End \/ EndAborted)
FairSpec == Spec /\ Fairness

-----------------------------------------------------------------------------
(* Properties                                                              *)

Outcomes == {"generated", "failed", "denied", "refused"}

\* Every variable has its type; a task has a key from its acquire to its
\* report, and an outcome once it has returned (execute_task).
TypeOK ==
  /\ sol \in [Tasks -> {"none", "torn", "whole"}] /\ marker \in [Tasks -> BOOLEAN]
  /\ phase \in {"off", "running", "marking", "aborting"}
  /\ mode \in {"default", "force", "only_failed", "mark"}
  /\ tpc \in [Tasks -> {"out", "queued", "calling", "writing", "unlinking",
                        "ended", "raised", "reported"}]
  /\ key \in [Tasks -> Keys \union {None}] /\ outcome \in [Tasks -> Outcomes \union {None}]
  /\ \A t \in Tasks : tpc[t] \in {"out", "queued", "reported"} => key[t] = None
  /\ \A t \in Active : key[t] # None
  /\ \A t \in Tasks : tpc[t] = "ended" => outcome[t] # None
  /\ failures \in [Keys -> Nat] /\ disabled \in [Keys -> BOOLEAN]
  /\ backoff \in [Keys -> Nat] /\ usage \in [Keys -> Nat]
  /\ everOff \subseteq Keys /\ lost \subseteq Tasks
  /\ now \in Nat /\ runs \in Nat /\ crashes \in Nat

\* The load follows the weights: measured by use per weight, no key is ever
\* more than one call ahead of a key that was available at every acquire
\* (acquire, "naturally balances load according to weights").
UsageBalanced ==
  \A k \in Keys, l \in Keys \ everOff :
    (usage[k] - 1) * Weight[l] <= usage[l] * Weight[k]

\* A key that was disabled stays unused for the rest of the run, whatever
\* successes of earlier calls are reported after it (report_success).
DisabledForGood ==
  [][\A k \in Keys :
       disabled[k] /\ phase' # "off" => disabled'[k] /\ usage'[k] = usage[k]]_vars

\* What a task says is what the next run finds on disk: "generated" is a whole
\* solution without a marker, an error is a marker; and a solution that is not
\* whole has a marker, unless its run was killed or could not write the marker:
\* only then is a torn file skipped as generated (execute_task, write_text).
OutcomeMatchesDisk ==
  \A t \in Tasks :
    /\ tpc[t] \in {"ended", "reported"} /\ outcome[t] = "generated" =>
         sol[t] = "whole" /\ ~marker[t]
    /\ tpc[t] \in {"ended", "reported"} /\ outcome[t] \in {"failed", "denied"} => marker[t]
    /\ sol[t] = "torn" /\ tpc[t] # "writing" => marker[t] \/ t \in lost

\* A default run and one that only marks never touch a whole solution; one with
\* --force or --only-failed may write it anew (the selection of tasks).
WorkIsKept ==
  [][\A t \in Tasks :
       sol[t] = "whole" /\ (mode \in {"default", "mark"} \/ phase = "off") => sol'[t] = "whole"
     ]_vars

\* A run ends: with every key backing off or disabled the tasks are refused one
\* by one instead of waiting for a key that may never come back (acquire), and
\* an exception in the main loop waits for the tasks to end.
RunsEnd == phase # "off" ~> phase = "off"
=============================================================================
