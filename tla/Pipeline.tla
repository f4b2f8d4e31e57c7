------------------------------- MODULE Pipeline -------------------------------
(***************************************************************************)
(* The synthesis pipeline (synthesis/pipeline.py, its stages, utils.py):   *)
(* in each iteration a batch of seeds is mutated, filtered, ranked by      *)
(* divergence, built into problems and written out; the written problems   *)
(* join the seeds of the next iteration. The result of each of the first   *)
(* four stages is saved in a checkpoint, which a later run that is not     *)
(* "fresh" loads instead. A run ends, raises, or is killed at any point,   *)
(* in the middle of a write included.                                      *)
(*                                                                         *)
(* What the models answer is arbitrary: which candidates a stage yields.   *)
(* The candidates of a batch are ranked by their slot in it. Stage 4 is    *)
(* BuildEnvironment, candidate by candidate.                               *)
(***************************************************************************)
EXTENDS Naturals, FiniteSets, FiniteSetsExt

CONSTANTS
  Iterations,   \* num_iterations
  B,            \* the size of a batch
  NDiv, NFinal, \* how many candidates stages 3 and 5 keep
  MaxRuns,      \* bound: runs started
  None          \* a seed from the seed list

ASSUME PipelineAssumption ==
  /\ Iterations \in Nat \ {0} /\ B \in Nat /\ NDiv \in Nat /\ NFinal \in Nat /\ MaxRuns \in Nat

Stages == 1 .. 4
Rounds == 1 .. Iterations

VARIABLES
  checkpoint, \* the checkpoint files, by iteration and stage, and what is in a whole one
  started,    \* candidates whose package some run began to write
  written,    \* candidates whose package and artifact are whole
  phase,      \* where the run is
  fresh,      \* was it started with --fresh?
  iter, stage,
  candidates, \* the result of the last stage
  result,     \* what the stage has produced, to be saved
  unwritten,  \* the selected candidates stage 5 has not written yet
  seeds,      \* the synthesized problems in the seed pool of this run
  runs,
  mixed       \* history: a fresh run began over older checkpoints

diskVars == <<checkpoint, started, written>>
runVars  == <<phase, fresh, iter, stage, candidates, result, unwritten, seeds>>
vars     == <<diskVars, runVars, runs, mixed>>

Init ==
  /\ checkpoint = [i \in Rounds |-> [s \in Stages |-> [file |-> "absent", of |-> {}]]]
  /\ started = {} /\ written = {}
  /\ phase = "off" /\ fresh = FALSE /\ iter = 1 /\ stage = 1
  /\ candidates = {} /\ result = {} /\ unwritten = {} /\ seeds = {}
  /\ runs = 0 /\ mixed = FALSE

Saved(i, s) == checkpoint[i][s].file = "whole"

Begin(isFresh) ==
  /\ phase = "off" /\ runs < MaxRuns
  /\ phase' = "stage" /\ fresh' = isFresh /\ iter' = 1 /\ stage' = 1
  /\ candidates' = {} /\ result' = {} /\ unwritten' = {} /\ seeds' = {}
  /\ runs' = runs + 1
  /\ mixed' = \/ mixed
              \/ isFresh /\ \E i \in Rounds, s \in Stages : checkpoint[i][s].file # "absent"
  /\ UNCHANGED diskVars

\* Fault: a stage's checkpoint has one name for all iterations.
SavedAs_Stage == 1

\* The name of a checkpoint has the number of the iteration.
SavedAs == iter

\* The candidates of a batch: each has an id of its own, whichever run made it.
\* A mutation that fails is left out.
Mutated ==
  {C \in SUBSET [by : {runs}, iter : {iter}, slot : 1 .. B, seed : seeds \union {None}] :
     \A c, d \in C : c.slot = d.slot => c = d}

\* The top N_div by divergence, whatever it is.
Kept(C) == kSubset(IF Cardinality(C) <= NDiv THEN Cardinality(C) ELSE NDiv, C)

\* Fault: a filter that is given everything the run has seen.
Outputs_NotFromInput ==
  CASE stage = 1 -> Mutated
    [] stage = 3 -> Kept(candidates)
    [] OTHER     -> SUBSET (candidates \union checkpoint[iter][1].of)

\* What the stage may yield: mutate, coarse_filter, idea_divergence_filter,
\* build_environment.
Outputs ==
  CASE stage = 1 -> Mutated
    [] stage = 3 -> Kept(candidates)
    [] OTHER     -> SUBSET candidates

\* Fault: checkpoints are never loaded.
UseCheckpoint_Never == FALSE

UseCheckpoint == ~fresh /\ checkpoint[SavedAs][stage].file # "absent"

Produce ==
  /\ phase = "stage" /\ ~UseCheckpoint
  /\ result' \in Outputs
  /\ phase' = "open"
  /\ UNCHANGED <<diskVars, fresh, iter, stage, candidates, unwritten, seeds, runs, mixed>>

\* open(path, "w") truncates the file, json.dump fills it.
OpenCheckpoint ==
  /\ phase = "open"
  /\ checkpoint' = [checkpoint EXCEPT ![SavedAs][stage] = [file |-> "torn", of |-> {}]]
  /\ phase' = "save"
  /\ UNCHANGED <<started, written, fresh, iter, stage, candidates, result, unwritten, seeds,
                 runs, mixed>>

\* Stage 5: the top N_final of the validated candidates.
Selected(C) == {c \in C : Cardinality({d \in C : d.slot < c.slot}) < NFinal}

\* The run goes on with the result of a stage.
StageDone(C) ==
  /\ candidates' = C
  /\ result' = {}
  /\ IF stage < 4
     THEN stage' = stage + 1 /\ phase' = "stage" /\ UNCHANGED unwritten
     ELSE unwritten' = Selected(C) /\ phase' = "write" /\ UNCHANGED stage
  /\ UNCHANGED <<fresh, iter, seeds>>

CloseCheckpoint ==
  /\ phase = "save"
  /\ checkpoint' = [checkpoint EXCEPT ![SavedAs][stage] = [file |-> "whole", of |-> result]]
  /\ StageDone(result)
  /\ UNCHANGED <<started, written, runs, mixed>>

LoadCheckpoint ==
  /\ phase = "stage" /\ UseCheckpoint
  /\ Saved(SavedAs, stage)
  /\ StageDone(checkpoint[SavedAs][stage].of)
  /\ UNCHANGED <<diskVars, runs, mixed>>

\* Fault: a package whose directory exists is not written again.
OpenPackage_SkipsExisting(c) ==
  /\ phase = "write" /\ c \in unwritten
  /\ IF c \in started
     THEN unwritten' = unwritten \ {c} /\ UNCHANGED <<started, written, phase, result>>
     ELSE /\ started' = started \union {c} /\ written' = written \ {c}
          /\ phase' = "package" /\ result' = {c} /\ UNCHANGED unwritten
  /\ UNCHANGED <<checkpoint, fresh, iter, stage, candidates, seeds, runs, mixed>>

\* The files of a package are overwritten one by one.
OpenPackage(c) ==
  /\ phase = "write" /\ c \in unwritten
  /\ started' = started \union {c} /\ written' = written \ {c}
  /\ phase' = "package" /\ result' = {c}
  /\ UNCHANGED <<checkpoint, fresh, iter, stage, candidates, unwritten, seeds, runs, mixed>>

ClosePackage ==
  /\ phase = "package"
  /\ written' = written \union result
  /\ unwritten' = unwritten \ result
  /\ result' = {} /\ phase' = "write"
  /\ UNCHANGED <<checkpoint, started, fresh, iter, stage, candidates, seeds, runs, mixed>>

EndIteration ==
  /\ phase = "write" /\ unwritten = {}
  /\ seeds' = seeds \union Selected(candidates)
  /\ candidates' = {} /\ stage' = 1
  /\ IF iter < Iterations THEN iter' = iter + 1 /\ phase' = "stage"
                          ELSE iter' = 1 /\ phase' = "ended"
  /\ UNCHANGED <<diskVars, fresh, result, unwritten, runs, mixed>>

Exit ==
  /\ phase' = "off" /\ fresh' = FALSE /\ iter' = 1 /\ stage' = 1
  /\ candidates' = {} /\ result' = {} /\ unwritten' = {} /\ seeds' = {}

End == phase = "ended" /\ Exit /\ UNCHANGED <<diskVars, runs, mixed>>

\* A torn checkpoint is no JSON: the run dies of it, and so will every later one.
LoadRaises ==
  /\ phase = "stage" /\ UseCheckpoint /\ ~Saved(SavedAs, stage)
  /\ Exit
  /\ UNCHANGED <<diskVars, runs, mixed>>

\* Killed, ended by an exception of a stage or a write, or without a seed to
\* begin with.
Crash ==
  /\ phase \notin {"off", "ended"}
  /\ Exit
  /\ UNCHANGED <<diskVars, runs, mixed>>

Next ==
  \/ \E isFresh \in BOOLEAN : Begin(isFresh)
  \/ Produce \/ OpenCheckpoint \/ CloseCheckpoint \/ LoadCheckpoint \/ LoadRaises
  \/ (\E c \in unwritten : OpenPackage(c)) \/ ClosePackage
  \/ EndIteration \/ End \/ Crash

Spec == Init /\ [][Next]_vars

-----------------------------------------------------------------------------
(* Properties                                                              *)

\* Every variable has its type; a candidate of a checkpoint belongs to its
\* iteration, stages 3 and 4 keep at most N_div, and only a selected candidate
\* is being written (idea_divergence_filter, select_and_write).
TypeOK ==
  /\ \A i \in Rounds, s \in Stages : Saved(i, s) =>
       /\ \A c \in checkpoint[i][s].of : c.slot \in 1 .. B /\ c.by \in 1 .. MaxRuns /\ c.iter = i
       /\ s >= 3 => Cardinality(checkpoint[i][s].of) <= NDiv
  /\ written \subseteq started
  /\ phase \in {"off", "stage", "open", "save", "write", "package", "ended"}
  /\ fresh \in BOOLEAN /\ iter \in Rounds /\ stage \in Stages
  /\ unwritten \subseteq candidates
  /\ phase = "package" => result \subseteq unwritten
  /\ runs \in 0 .. MaxRuns /\ mixed \in BOOLEAN

\* What is saved fits together, across crashes and resumes and whichever run
\* made it: a stage has filtered the saved result of the one before, a mutated
\* seed was selected in an earlier iteration, and so was every package, whole
\* or not; unless a fresh run has begun over older checkpoints
\* (_stage_with_checkpoint, run).
Lineage ==
  ~mixed =>
    \A i \in Rounds :
      /\ \A s \in 2 .. 4 : Saved(i, s) =>
           Saved(i, s - 1) /\ checkpoint[i][s].of \subseteq checkpoint[i][s - 1].of
      /\ Saved(i, 1) => \A c \in checkpoint[i][1].of :
           c.seed # None =>
             \E j \in 1 .. i - 1 : Saved(j, 4) /\ c.seed \in Selected(checkpoint[j][4].of)
      /\ \A c \in started :
           c.iter = i => Saved(i, 4) /\ c \in Selected(checkpoint[i][4].of)

\* No stage that was saved is computed or saved again, however often the
\* pipeline is started, but by a fresh run ("resuming ... from checkpoint").
SavedWorkKept ==
  [][\A i \in Rounds, s \in Stages :
       Saved(i, s) => checkpoint'[i][s] = checkpoint[i][s] \/ fresh]_vars

\* A run that comes to its end has left, for every iteration, the whole packages of all
\* that was selected of its saved stage 4, those that an earlier run was
\* killed in the middle of included (select_and_write).
EndsComplete ==
  phase = "ended" =>
    \A i \in Rounds : Saved(i, 4) /\ Selected(checkpoint[i][4].of) \subseteq written

\* One uninterrupted run: see SynthesisRun. What is saved whole is decided.
OneRun == INSTANCE SynthesisRun
  WITH Ids <- 1 .. MaxRuns,
       decided <- {d \in Rounds \X Stages : Saved(d[1], d[2])},
       results <- [i \in Rounds |-> [s \in Stages |->
                    IF Saved(i, s) THEN checkpoint[i][s].of ELSE {}]],
       finished <- (phase = "ended")

\* However often the pipeline is killed, wherever, and started again, it does
\* what one run does that nobody kills: no stage is decided twice or from
\* anything but what was saved before, no iteration begins before all problems
\* of the ones before are written, and its end means that all is there; until
\* a fresh run begins over older checkpoints (run, _stage_with_checkpoint).
ResumedRunsAreOne == OneRun!Spec
=============================================================================
