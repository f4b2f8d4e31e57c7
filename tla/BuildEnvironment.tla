--------------------------- MODULE BuildEnvironment ---------------------------
(***************************************************************************)
(* Stage 4 of the synthesis for one candidate (stage4_build_env.py, its    *)
(* judge_client.py), with the judge's set-up of the candidate's problem:   *)
(* rounds in which a generator and a checker are written, installed as a   *)
(* package and tried on every sampled solution, until the scores tell the  *)
(* solutions apart. A call of the judge may fail or time out while the     *)
(* judge goes on with it. An exception that is not a JudgeError ends the   *)
(* pipeline, which may be started again.                                   *)
(*                                                                         *)
(* The vector of scores of a solution is a member of Rows; two of them     *)
(* differ by more than the collapse threshold on some test. The feedback   *)
(* for the agents is data: their answers are arbitrary. Each round has the *)
(* number of its package. A submission is judged in one step.              *)
(***************************************************************************)
EXTENDS ProblemSetup, Sequences

CONSTANTS
  NSolutions,   \* the sampled solutions, 1 .. NSolutions
  Rows, ZeroRow,\* vectors of scores
  MaxRounds,    \* cross_validation_max_rounds
  MayTimeOut    \* may a call of the judge time out?

Solutions == 1 .. NSolutions

ASSUME BuildAssumption ==
  /\ NSolutions \in Nat /\ ZeroRow \in Rows
  /\ MaxRounds \in Nat \ {0} /\ MaxRequests > 0 /\ MayTimeOut \in BOOLEAN

VARIABLES
  phase,     \* where _build_one is
  package,   \* the number of the round, over all starts
  rounds,    \* rounds begun since the start
  next,      \* the next solution to run
  matrix,    \* the rows of those that ran, in order
  kept,      \* kept_indices
  checkerErrors,
  against    \* history: what each run was judged with

buildVars == <<phase, package, rounds, next, matrix, kept, checkerErrors, against>>
vars == <<setupVars, buildVars>>

runVars == <<next, matrix, kept, checkerErrors, against>>

NothingRun ==
  /\ next' = 1 /\ matrix' = <<>> /\ kept' = <<>> /\ checkerErrors' = FALSE /\ against' = {}

Init ==
  /\ SetupInit
  /\ phase = "write" /\ package = 1 /\ rounds = 1
  /\ next = 1 /\ matrix = <<>> /\ kept = <<>> /\ checkerErrors = FALSE /\ against = {}

\* Fault: a round that fails is not counted.
NextRound_NotCounted ==
  /\ NothingRun
  /\ phase' = "write" /\ UNCHANGED <<package, rounds>>

\* The loop over rounds: "continue", or its end, which the bound brings forward.
NextRound ==
  /\ NothingRun
  /\ IF rounds = MaxRounds \/ package = MaxRequests
     THEN phase' = "discarded" /\ UNCHANGED <<package, rounds>>
     ELSE phase' = "write" /\ package' = package + 1 /\ rounds' = rounds + 1

\* An empty generator or checker, an exec_gen that fails or gives too few inputs.
WriteNothing ==
  /\ phase = "write"
  /\ NextRound
  /\ UNCHANGED setupVars

\* The package is written and offered to add-problem.
AddProblem ==
  /\ phase = "write"
  /\ Receive(package, "add")
  /\ phase' = "add"
  /\ UNCHANGED <<package, rounds, runVars>>

\* Fault: any answer counts as installed.
Installed_Any == reply[package] # "none"

\* raise_for_status lets only a success through.
Installed == reply[package] = "ok"

\* "already exists" falls back to /problem/setup.
AddAnswered ==
  /\ phase = "add" /\ reply[package] = "exists"
  /\ Receive(package, "setup")
  /\ phase' = "setup"
  /\ UNCHANGED <<package, rounds, runVars>>

InstallEnds ==
  /\ phase \in {"add", "setup"}
  /\ reply[package] # "none" /\ (phase = "add" => reply[package] # "exists")
  /\ IF Installed
     THEN phase' = "run" /\ UNCHANGED <<package, rounds, runVars>>
     ELSE NextRound
  /\ UNCHANGED setupVars

\* The call times out or its connection is lost: the next round begins while
\* the judge may still be installing.
InstallTimesOut ==
  /\ MayTimeOut
  /\ phase \in {"add", "setup"}
  /\ NextRound
  /\ UNCHANGED setupVars

View == [conf |-> installed["conf"], bin |-> bin, data |-> installed["data"]]

\* A solution ran: a row, whatever its verdicts.
RunScored ==
  /\ phase = "run" /\ next \in Solutions
  /\ \E row \in Rows : matrix' = Append(matrix, row)
  /\ kept' = Append(kept, next)
  /\ against' = against \union {View}
  /\ next' = next + 1
  /\ UNCHANGED <<setupVars, phase, package, rounds, checkerErrors>>

\* Fault: a solution that does not compile counts as a row of zeros.
RunNotCompiled_ZeroRow ==
  /\ phase = "run" /\ next \in Solutions
  /\ matrix' = Append(matrix, ZeroRow)
  /\ next' = next + 1
  /\ UNCHANGED <<setupVars, phase, package, rounds, kept, checkerErrors, against>>

\* A JudgeError: the solution is dropped, as its own fault or the checker's.
RunNotCompiled ==
  /\ phase = "run" /\ next \in Solutions
  /\ next' = next + 1
  /\ UNCHANGED <<setupVars, phase, package, rounds, matrix, kept, checkerErrors, against>>

RunErrors ==
  /\ phase = "run" /\ next \in Solutions
  /\ checkerErrors' = TRUE
  /\ next' = next + 1
  /\ UNCHANGED <<setupVars, phase, package, rounds, matrix, kept, against>>

AllZero == \A i \in DOMAIN matrix : matrix[i] = ZeroRow
Spread  == \E i, j \in DOMAIN matrix : matrix[i] # matrix[j]

\* _cross_validate.
Valid == ~checkerErrors /\ matrix # <<>> /\ ~AllZero /\ Spread

CrossValidate ==
  /\ phase = "run" /\ next \notin Solutions
  /\ IF Valid
     THEN phase' = "validated" /\ UNCHANGED <<package, rounds, runVars>>
     ELSE NextRound
  /\ UNCHANGED setupVars

\* exec_gen or a submission raises something else, or the process is killed.
Die ==
  /\ phase \in {"write", "add", "setup", "run"}
  /\ phase' = "dead" /\ NothingRun
  /\ UNCHANGED <<setupVars, package, rounds>>

\* There is no checkpoint of stage 4 yet: the candidate begins anew.
Restart ==
  /\ phase = "dead" /\ package < MaxRequests
  /\ phase' = "write" /\ package' = package + 1 /\ rounds' = 1
  /\ UNCHANGED <<setupVars, runVars>>

ClientStep ==
  \/ WriteNothing \/ AddProblem \/ AddAnswered \/ InstallEnds \/ InstallTimesOut
  \/ RunScored \/ RunNotCompiled \/ RunErrors \/ CrossValidate

JudgeStep(r) == SetupStep(r) /\ UNCHANGED buildVars

Next == ClientStep \/ Die \/ Restart \/ \E r \in Packages : JudgeStep(r)

Spec == Init /\ [][Next]_vars

\* Neither the client nor a handler of the judge stops halfway.
FairSpec ==
  /\ Spec
  /\ WF_vars(ClientStep)
  /\ \A r \in Packages : WF_vars(JudgeStep(r))

-----------------------------------------------------------------------------
(* Properties                                                              *)

\* Every variable has its type; a row and its index are kept together, of
\* solutions in order (_run_solutions).
TypeOK ==
  /\ SetupTypeOK
  /\ phase \in {"write", "add", "setup", "run", "validated", "discarded", "dead"}
  /\ package \in Packages /\ rounds \in 1 .. MaxRounds
  /\ next \in 1 .. NSolutions + 1
  /\ matrix \in Seq(Rows) /\ kept \in Seq(Solutions)
  /\ Len(matrix) = Len(kept)
  /\ \A i, j \in DOMAIN kept : i < j => kept[i] < kept[j]
  /\ checkerErrors \in BOOLEAN

\* A validated candidate was scored with the generator, checker and tests it
\* is written with, through failed rounds, leftovers and restarts, unless a
\* set-up the client had given up was still running (add_problem, _build_one).
JudgedAsBuilt ==
  phase = "validated" /\ package \notin beside =>
    against = {[conf |-> package, bin |-> package, data |-> package]}

\* Every candidate is decided, or the pipeline dies: no answer of the judge
\* leaves _build_one waiting.
BuildEnds == phase = "write" ~> phase \in {"validated", "discarded", "dead"}
=============================================================================
