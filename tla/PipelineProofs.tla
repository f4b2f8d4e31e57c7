---------------------------- MODULE PipelineProofs ----------------------------
(***************************************************************************)
(* What the checkpoints and packages of the synthesis pipeline keep, for   *)
(* any number of iterations, runs, kills and resumes, and any sizes.       *)
(***************************************************************************)
EXTENDS Pipeline, FiniteSetTheorems, TLAPS

USE PipelineAssumption

\* A set of candidates of one iteration, as stage s leaves it.
Fits(i, s, C) ==
  /\ \A c \in C : c.slot \in 1 .. B /\ c.by \in 1 .. MaxRuns /\ c.iter = i
  /\ \A c, d \in C : c.slot = d.slot => c = d
  /\ s >= 3 => Cardinality(C) <= NDiv

Files == {"absent", "torn", "whole"}

\* A file for each iteration and stage.
Grid(files) ==
  /\ files = [i \in Rounds |-> files[i]]
  /\ \A i \in Rounds : files[i] = [s \in Stages |-> files[i][s]]

OnDisk ==
  /\ Grid(checkpoint)
  /\ \A i \in Rounds, s \in Stages : checkpoint[i][s].file \in Files
  /\ \A i \in Rounds, s \in Stages : Saved(i, s) => Fits(i, s, checkpoint[i][s].of)

Computing == {"stage", "open", "save"}
Writing == {"write", "package"}
Phases == Computing \union Writing \union {"off", "ended"}

\* The iterations the run is done with.
Done(j) == j < iter \/ phase = "ended"

\* What the run holds is what the checkpoints say.
Run ==
  /\ phase \in Phases /\ fresh \in BOOLEAN /\ mixed \in BOOLEAN
  /\ iter \in Rounds /\ stage \in Stages /\ runs \in 0 .. MaxRuns
  /\ phase # "off" => runs # 0
  /\ phase \notin Writing => unwritten = {}
  /\ phase \in Computing /\ stage > 1 =>
       Saved(iter, stage - 1) /\ candidates = checkpoint[iter][stage - 1].of
  /\ phase \in {"open", "save"} =>
       /\ Fits(iter, stage, result)
       /\ stage = 1 => \A c \in result : c.seed \in seeds \union {None}
       /\ stage > 1 => result \subseteq candidates
  /\ phase = "open" => fresh \/ checkpoint[iter][stage].file = "absent"
  /\ phase = "save" => checkpoint[iter][stage].file = "torn"
  /\ phase \in Writing => stage = 4 /\ Saved(iter, 4) /\ candidates = checkpoint[iter][4].of
  /\ phase = "package" => \E c \in unwritten \intersect started : result = {c}
  /\ \A c \in seeds : \E j \in Rounds : Done(j) /\ c \in Selected(checkpoint[j][4].of)

\* What it has selected and need not write any more is written.
Packages ==
  /\ written \subseteq started
  /\ phase \in Writing =>
       /\ unwritten \subseteq Selected(candidates)
       /\ Selected(candidates) \ unwritten \subseteq written
  /\ \A j \in Rounds : Done(j) => Saved(j, 4) /\ Selected(checkpoint[j][4].of) \subseteq written

\* Is checkpoint (i, s) still to be written by the run?
Ahead(i, s) ==
  \/ i > iter
  \/ i = iter /\ s > stage
  \/ i = iter /\ s = stage /\ phase \in {"stage", "open"}

\* Unless a fresh run begins over older checkpoints, none is overwritten.
Unmixed ==
  ~mixed =>
    /\ phase \in {"open", "save"} => \A s \in Stages : s >= stage => ~Saved(iter, s)
    /\ fresh /\ phase \notin {"off", "ended"} =>
         \A i \in Rounds, s \in Stages : Ahead(i, s) => checkpoint[i][s].file = "absent"

Inv == OnDisk /\ Run /\ Packages /\ Unmixed /\ Lineage

-----------------------------------------------------------------------------
(* Lemmas.                                                                 *)

\* One candidate per slot: a set of candidates is finite.
LEMMA FitsFinite ==
  ASSUME NEW i, NEW s, NEW C, Fits(i, s, C)
  PROVE  IsFiniteSet(C)
<1> DEFINE f == [c \in C |-> c.slot]
<1>1. f \in Injection(C, 1 .. B)
  BY DEF Fits, Injection, IsInjective
<1>2. IsFiniteSet(1 .. B)
  BY FS_Interval
<1>3. QED
  BY <1>1, <1>2, FS_Injection

\* A part of what fits, fits.
LEMMA PartFits ==
  ASSUME NEW i, NEW s \in Nat, NEW t \in Nat, NEW C, NEW D \in SUBSET C, Fits(i, s, C),
         s >= 3 \/ t < 3 \/ Cardinality(D) <= NDiv
  PROVE  Fits(i, t, D)
<1>1. IsFiniteSet(C)
  BY FitsFinite
<1>2. Cardinality(D) <= Cardinality(C) /\ Cardinality(D) \in Nat /\ Cardinality(C) \in Nat
  BY <1>1, FS_Subset, FS_CardinalityType
<1>3. t >= 3 => Cardinality(D) <= NDiv
  BY <1>2 DEF Fits
<1>4. QED
  BY <1>3 DEF Fits

\* What a stage may yield fits.
LEMMA OutputsFit ==
  ASSUME OnDisk, Run, phase = "stage", NEW C \in Outputs
  PROVE  /\ Fits(iter, stage, C)
         /\ stage = 1 => \A c \in C : c.seed \in seeds \union {None}
         /\ stage > 1 => C \subseteq candidates
<1>1. CASE stage = 1
  <2>1. C \in Mutated
    BY <1>1 DEF Outputs
  <2>2. QED
    BY <1>1, <2>1 DEF Mutated, Run, Fits
<1>2. CASE stage > 1
  <2>1. Fits(iter, stage - 1, candidates) /\ stage \in 2 .. 4
    BY <1>2 DEF OnDisk, Run, Computing, Stages
  <2>2. CASE stage = 3
    <3>1. C \in Kept(candidates)
      BY <2>2 DEF Outputs
    <3>2. IsFiniteSet(candidates) /\ Cardinality(candidates) \in Nat
      BY <2>1, FitsFinite, FS_CardinalityType
    <3>3. C \subseteq candidates /\ Cardinality(C) <= NDiv
      BY <3>1, <3>2 DEF Kept, kSubset
    <3>4. QED
      BY <2>1, <2>2, <3>3, PartFits
  <2>3. CASE stage # 3
    <3>1. C \subseteq candidates
      BY <1>2, <2>3 DEF Outputs
    <3>2. stage - 1 >= 3 \/ stage < 3
      BY <2>1, <2>3
    <3>3. QED
      BY <1>2, <2>1, <3>1, <3>2, PartFits
  <2>4. QED
    BY <2>2, <2>3
<1>3. QED
  BY <1>1, <1>2 DEF Run, Stages

Writes(v) == checkpoint' = [checkpoint EXCEPT ![SavedAs][stage] = v]

\* Writing a checkpoint changes that one.
LEMMA WritesOne ==
  ASSUME OnDisk, Run, NEW v, Writes(v)
  PROVE  /\ Grid(checkpoint')
         /\ \A i \in Rounds : i # iter => checkpoint'[i] = checkpoint[i]
         /\ \A i \in Rounds, s \in Stages :
              checkpoint'[i][s] = IF i = iter /\ s = stage THEN v ELSE checkpoint[i][s]
<1>1. iter \in Rounds /\ stage \in Stages
  BY DEF Run
<1>2. checkpoint' = [i \in Rounds |-> IF i = iter THEN [checkpoint[iter] EXCEPT ![stage] = v]
                                               ELSE checkpoint[i]]
  BY DEF OnDisk, Grid, SavedAs, Writes
<1>3. [checkpoint[iter] EXCEPT ![stage] = v] =
        [s \in Stages |-> IF s = stage THEN v ELSE checkpoint[iter][s]]
  BY <1>1 DEF OnDisk, Grid
<1>4. checkpoint'[iter] = [s \in Stages |-> IF s = stage THEN v ELSE checkpoint[iter][s]]
  BY <1>1, <1>2, <1>3
<1>5. \A i \in Rounds : i # iter => checkpoint'[i] = checkpoint[i]
  BY <1>2
<1>6. \A i \in Rounds : checkpoint'[i] = [s \in Stages |-> checkpoint'[i][s]]
  <2> SUFFICES ASSUME NEW i \in Rounds PROVE checkpoint'[i] = [s \in Stages |-> checkpoint'[i][s]]
    OBVIOUS
  <2>1. CASE i = iter
    BY <1>4, <2>1
  <2>2. CASE i # iter
    BY <1>5, <2>2 DEF OnDisk, Grid
  <2>3. QED
    BY <2>1, <2>2
<1>7. checkpoint' = [i \in Rounds |-> checkpoint'[i]]
  BY <1>2
<1>8. \A i \in Rounds, s \in Stages :
        checkpoint'[i][s] = IF i = iter /\ s = stage THEN v ELSE checkpoint[i][s]
  BY <1>4, <1>5
<1>9. QED
  BY <1>5, <1>6, <1>7, <1>8 DEF Grid

LEMMA First == 1 \in Rounds /\ 1 \in Stages
BY DEF Rounds, Stages

LEMMA SelectedIn == \A C : Selected(C) \subseteq C
BY DEF Selected

-----------------------------------------------------------------------------
(* One lemma per action.                                                   *)

LEMMA InitInv == Init => Inv
<1> SUFFICES ASSUME Init PROVE Inv
  OBVIOUS
<1> USE DEF Init, Saved
<1>1. OnDisk
  BY DEF OnDisk, Grid, Files
<1>b. fresh \in BOOLEAN /\ mixed \in BOOLEAN
  OBVIOUS
<1>n. runs \in 0 .. MaxRuns
  OBVIOUS
<1>2. Run
  BY <1>b, <1>n, First DEF Run, Phases, Computing, Writing
<1>3. Packages
  BY DEF Packages, Done, Rounds, Writing
<1>4. Unmixed /\ Lineage
  BY DEF Unmixed, Lineage, Rounds, Stages
<1>5. QED
  BY <1>1, <1>2, <1>3, <1>4 DEF Inv

\* The end of a run, however it ends.
LEMMA IExit ==
  ASSUME Inv, Exit, UNCHANGED <<diskVars, runs, mixed>>
  PROVE  Inv'
<1> USE DEF Inv, Exit, diskVars, Saved
<1>1. OnDisk'
  BY DEF OnDisk
<1>2. Run'
  BY First DEF Run, Phases, Computing, Writing
<1>3. Packages'
  BY DEF Packages, Done, Rounds, Writing
<1>4. Unmixed' /\ Lineage'
  BY DEF Unmixed, Lineage
<1>5. QED
  BY <1>1, <1>2, <1>3, <1>4

LEMMA IBegin ==
  ASSUME Inv, NEW isFresh \in BOOLEAN, Begin(isFresh)
  PROVE  Inv'
<1> USE DEF Inv, Begin, diskVars, Saved
<1>1. OnDisk'
  BY DEF OnDisk
<1>2. Run'
  BY First DEF Run, Phases, Computing, Writing
<1>3. Packages'
  BY DEF Packages, Done, Rounds, Writing
<1>4. Unmixed'
  BY DEF Unmixed, OnDisk, Files, Run
<1>5. Lineage'
  BY DEF Lineage, Run
<1>6. QED
  BY <1>1, <1>2, <1>3, <1>4, <1>5

LEMMA IProduce ==
  ASSUME Inv, Produce
  PROVE  Inv'
<1> USE DEF Inv, Produce, diskVars
<1>1. OnDisk'
  BY DEF OnDisk, Saved
<1>2. Run'
  BY OutputsFit DEF Run, Phases, Computing, Writing, UseCheckpoint, SavedAs, Saved, Done
<1>3. Packages'
  BY DEF Packages, Done, Writing, Saved
<1>4. Lineage'
  BY DEF Lineage, Saved
<1>5. Unmixed'
  <2> SUFFICES ASSUME ~mixed PROVE Unmixed'
    BY DEF Unmixed
  <2>1. ASSUME NEW s \in Stages, s >= stage PROVE ~Saved(iter, s)
    <3>1. checkpoint[iter][stage].file = "absent"
      BY DEF Unmixed, UseCheckpoint, SavedAs, Ahead, Run
    <3>2. \A t \in 2 .. 4 : Saved(iter, t) => Saved(iter, t - 1)
      BY DEF Lineage, Run
    <3>3. ~Saved(iter, stage) /\ stage \in 1 .. 4
      BY <3>1 DEF Saved, Run, Stages
    <3>4. QED
      BY <2>1, <3>2, <3>3 DEF Stages
  <2>2. \A i \in Rounds, s \in Stages : Ahead(i, s)' => Ahead(i, s)
    BY DEF Ahead
  <2>3. QED
    BY <2>1, <2>2 DEF Unmixed, Saved
<1>6. QED
  BY <1>1, <1>2, <1>3, <1>4, <1>5

LEMMA IOpenCheckpoint ==
  ASSUME Inv, OpenCheckpoint
  PROVE  Inv'
<1> USE DEF Inv, OpenCheckpoint
<1>. iter \in Rounds /\ stage \in Stages /\ SavedAs = iter
  BY DEF Run, SavedAs
<1>. DEFINE v == [file |-> "torn", of |-> {}]
<1>w. Writes(v)
  BY DEF Writes
<1>o. OnDisk /\ Run
  OBVIOUS
<1>0. /\ Grid(checkpoint')
      /\ \A i \in Rounds : i # iter => checkpoint'[i] = checkpoint[i]
      /\ \A i \in Rounds, s \in Stages : i # iter \/ s # stage => checkpoint'[i][s] = checkpoint[i][s]
      /\ checkpoint'[iter][stage] = v
  <2>. HIDE DEF OpenCheckpoint, CloseCheckpoint, Inv
  <2>1. /\ Grid(checkpoint')
        /\ \A i \in Rounds : i # iter => checkpoint'[i] = checkpoint[i]
        /\ \A i \in Rounds, s \in Stages :
             checkpoint'[i][s] = IF i = iter /\ s = stage THEN v ELSE checkpoint[i][s]
    BY <1>w, <1>o, WritesOne
  <2>2. QED
    BY <2>1
<1>1. OnDisk'
  BY <1>0 DEF OnDisk, Saved, Files
<1>a. stage > 1 => checkpoint'[iter][stage - 1] = checkpoint[iter][stage - 1]
  BY <1>0 DEF Stages
<1>b. \A j \in Rounds : Done(j)' <=> Done(j)
  BY DEF Done
<1>c. \A j \in Rounds : Done(j) => checkpoint'[j] = checkpoint[j]
  BY <1>0 DEF Done, Rounds
<1>d. \A c \in seeds' : \E j \in Rounds : Done(j)' /\ c \in Selected(checkpoint'[j][4].of)
  BY <1>b, <1>c DEF Run
<1>e. stage > 1 => Saved(iter, stage - 1)' /\ candidates' = checkpoint'[iter][stage - 1].of
  BY <1>a DEF Run, Computing, Saved
<1>f. /\ Fits(iter, stage, result)
      /\ stage = 1 => \A c \in result : c.seed \in seeds \union {None}
      /\ stage > 1 => result \subseteq candidates
  BY DEF Run
<1>g. Fits(iter, stage, result)'
  BY <1>f DEF Fits
<1>2. Run'
  BY <1>0, <1>d, <1>e, <1>f, <1>g DEF Run, Phases, Computing, Writing
<1>3. Packages'
  BY <1>b, <1>c DEF Packages, Writing, Saved
<1>4. Unmixed'
  <2>1. ASSUME ~mixed, NEW s \in Stages, s >= stage PROVE ~Saved(iter, s)'
    BY <1>0, <2>1 DEF Unmixed, Saved
  <2>2. \A i \in Rounds, s \in Stages : Ahead(i, s)' => Ahead(i, s) /\ checkpoint'[i][s] = checkpoint[i][s]
    BY <1>0 DEF Ahead, Run, Rounds, Stages
  <2>3. QED
    BY <2>1, <2>2 DEF Unmixed
<1>5. Lineage'
  <2> SUFFICES ASSUME ~mixed PROVE Lineage'
    BY DEF Lineage
  <2>1. ~Saved(iter, stage)
    BY DEF Unmixed, Run, Stages
  <2>2. \A i \in Rounds, s \in Stages : Saved(i, s) => Saved(i, s)' /\ checkpoint'[i][s] = checkpoint[i][s]
    BY <1>0, <2>1 DEF Saved
  <2>3. \A i \in Rounds, s \in Stages : Saved(i, s)' => Saved(i, s)
    BY <1>0 DEF Saved
  <2>5. \A i \in Rounds, s \in 2 .. 4 : Saved(i, s)' =>
          Saved(i, s - 1)' /\ checkpoint'[i][s].of \subseteq checkpoint'[i][s - 1].of
    BY <2>2, <2>3 DEF Lineage, Stages
  <2>6. ASSUME NEW i \in Rounds, Saved(i, 1)', NEW c \in checkpoint'[i][1].of, c.seed # None
        PROVE  \E j \in 1 .. i - 1 : Saved(j, 4)' /\ c.seed \in Selected(checkpoint'[j][4].of)
    <3>1. PICK j \in 1 .. i - 1 : Saved(j, 4) /\ c.seed \in Selected(checkpoint[j][4].of)
      BY <2>2, <2>3, <2>6 DEF Lineage, Stages
    <3>2. j \in Rounds /\ 4 \in Stages
      BY DEF Rounds, Stages
    <3>3. QED
      BY <2>2, <3>1, <3>2
  <2>7. \A i \in Rounds : \A c \in started' :
          c.iter = i => Saved(i, 4)' /\ c \in Selected(checkpoint'[i][4].of)
    <3> SUFFICES ASSUME NEW i \in Rounds, NEW c \in started, c.iter = i
                 PROVE  Saved(i, 4)' /\ c \in Selected(checkpoint'[i][4].of)
      OBVIOUS
    <3>1. Saved(i, 4) /\ c \in Selected(checkpoint[i][4].of) /\ 4 \in Stages
      BY DEF Lineage, Stages
    <3>2. QED
      BY <2>2, <3>1
  <2>8. QED
    BY <2>5, <2>6, <2>7 DEF Lineage
<1>6. QED
  BY <1>1, <1>2, <1>3, <1>4, <1>5

\* The run goes on with what is saved of its stage.
LEMMA Goes ==
  ASSUME OnDisk, OnDisk', Run, Packages, phase \in Computing, stage \in Stages, NEW C, StageDone(C),
         iter \in Rounds, checkpoint'[iter][stage].file = "whole", C = checkpoint'[iter][stage].of,
         \A j \in Rounds : j # iter => checkpoint'[j] = checkpoint[j],
         UNCHANGED <<started, written, runs, mixed>>
  PROVE  Run' /\ Packages'
<1> USE DEF StageDone
<1>1. \A j \in Rounds : Done(j)' <=> Done(j)
  BY DEF Done, Computing
<1>2. \A j \in Rounds : Done(j) => j # iter /\ checkpoint'[j] = checkpoint[j]
  BY DEF Done, Computing, Run, Rounds
<1>a. \A c \in seeds' : \E j \in Rounds : Done(j)' /\ c \in Selected(checkpoint'[j][4].of)
  BY <1>1, <1>2 DEF Run
<1>3. Run'
  <2>1. CASE stage < 4
    <3>1. stage' = stage + 1 /\ phase' = "stage" /\ iter' = iter /\ stage + 1 \in Stages
      BY <2>1 DEF Stages
    <3>2. stage' - 1 = stage
      BY <3>1 DEF Stages
    <3>3. QED
      BY <1>a, <2>1, <3>1, <3>2 DEF Run, Phases, Computing, Writing, Saved
  <2>2. CASE ~(stage < 4)
    <3>1. stage = 4 /\ phase' = "write" /\ iter' = iter /\ stage' = 4
      BY <2>2 DEF Stages
    <3>2. QED
      BY <1>a, <2>2, <3>1 DEF Run, Phases, Computing, Writing, Saved
  <2>3. QED
    BY <2>1, <2>2
<1>4. Packages'
  BY <1>1, <1>2 DEF Run, Packages, Phases, Computing, Writing, Stages, Saved
<1>5. QED
  BY <1>3, <1>4

LEMMA ILoadCheckpoint ==
  ASSUME Inv, LoadCheckpoint
  PROVE  Inv'
<1> USE DEF Inv, LoadCheckpoint, diskVars
<1>1. OnDisk'
  BY DEF OnDisk, Saved
<1>2. Run' /\ Packages'
  <2>1. phase \in Computing /\ iter \in Rounds /\ stage \in Stages
    BY DEF Computing, Run
  <2>a. StageDone(checkpoint[iter][stage].of) /\ checkpoint[iter][stage].file = "whole"
    BY DEF SavedAs, Saved
  <2>b. checkpoint' = checkpoint
    OBVIOUS
  <2>c. checkpoint'[iter][stage].file = "whole"
    BY <2>a, <2>b
  <2>2. QED
    BY <1>1, <2>1, <2>a, <2>b, <2>c, Goes
<1>3. Unmixed'
  BY DEF Unmixed, StageDone, UseCheckpoint
<1>4. Lineage'
  BY DEF Lineage, Saved
<1>5. QED
  BY <1>1, <1>2, <1>3, <1>4

LEMMA ICloseCheckpoint ==
  ASSUME Inv, CloseCheckpoint
  PROVE  Inv'
<1> USE DEF Inv, CloseCheckpoint
<1>. iter \in Rounds /\ stage \in Stages /\ SavedAs = iter
  BY DEF Run, SavedAs
<1>. DEFINE v == [file |-> "whole", of |-> result]
<1>w. Writes(v)
  BY DEF Writes
<1>o. OnDisk /\ Run
  OBVIOUS
<1>0. /\ Grid(checkpoint')
      /\ \A i \in Rounds : i # iter => checkpoint'[i] = checkpoint[i]
      /\ \A i \in Rounds, s \in Stages : i # iter \/ s # stage => checkpoint'[i][s] = checkpoint[i][s]
      /\ checkpoint'[iter][stage] = v
  <2>. HIDE DEF OpenCheckpoint, CloseCheckpoint, Inv
  <2>1. /\ Grid(checkpoint')
        /\ \A i \in Rounds : i # iter => checkpoint'[i] = checkpoint[i]
        /\ \A i \in Rounds, s \in Stages :
             checkpoint'[i][s] = IF i = iter /\ s = stage THEN v ELSE checkpoint[i][s]
    BY <1>w, <1>o, WritesOne
  <2>2. QED
    BY <2>1
<1>1. OnDisk'
  BY <1>0 DEF OnDisk, Saved, Files, Run
<1>2. Run' /\ Packages'
  <2>1. phase \in Computing /\ checkpoint'[iter][stage].file = "whole" /\ result = checkpoint'[iter][stage].of
    BY <1>0 DEF Saved, Computing
  <2>2. QED
    BY <1>0, <1>1, <2>1, Goes
<1>3. Unmixed'
  <2>1. \A i \in Rounds, s \in Stages : Ahead(i, s)' => Ahead(i, s) /\ checkpoint'[i][s] = checkpoint[i][s]
    BY <1>0 DEF StageDone, Ahead, Run, Rounds, Stages
  <2>2. QED
    BY <2>1 DEF Unmixed, StageDone
<1>5. Lineage'
  <2> SUFFICES ASSUME ~mixed PROVE Lineage'
    BY DEF Lineage
  <2>1. \A s \in Stages : s >= stage => ~Saved(iter, s)
    BY DEF Unmixed
  <2>2. \A i \in Rounds, s \in Stages : Saved(i, s) => Saved(i, s)' /\ checkpoint'[i][s] = checkpoint[i][s]
    BY <1>0, <2>1 DEF Saved, Run, Stages
  <2>3. \A i \in Rounds, s \in Stages : Saved(i, s)' => Saved(i, s) \/ (i = iter /\ s = stage)
    BY <1>0 DEF Saved
  <2>4. ASSUME NEW i \in Rounds, NEW s \in 2 .. 4, Saved(i, s)'
        PROVE  Saved(i, s - 1)' /\ checkpoint'[i][s].of \subseteq checkpoint'[i][s - 1].of
    <3>1. s \in Stages /\ s - 1 \in Stages
      BY DEF Stages
    <3>2. CASE Saved(i, s)
      BY <2>2, <3>1, <3>2 DEF Lineage
    <3>3. CASE i = iter /\ s = stage
      BY <1>0, <2>2, <3>1, <3>3 DEF Run, Computing
    <3>4. QED
      BY <2>3, <2>4, <3>1, <3>2, <3>3
  <2>5. ASSUME NEW i \in Rounds, Saved(i, 1)', NEW c \in checkpoint'[i][1].of, c.seed # None
        PROVE  \E j \in 1 .. i - 1 : Saved(j, 4)' /\ c.seed \in Selected(checkpoint'[j][4].of)
    <3>1. CASE Saved(i, 1)
      <4>1. PICK j \in 1 .. i - 1 : Saved(j, 4) /\ c.seed \in Selected(checkpoint[j][4].of)
        BY <2>2, <2>5, <3>1 DEF Lineage, Stages
      <4>2. j \in Rounds
        BY DEF Rounds
      <4>3. QED
        BY <2>2, <4>1, <4>2 DEF Stages
    <3>2. CASE i = iter /\ stage = 1
      <4>1. c.seed \in seeds
        BY <1>0, <2>5, <3>2 DEF Run
      <4>2. PICK j \in Rounds : Done(j) /\ c.seed \in Selected(checkpoint[j][4].of)
        BY <4>1 DEF Run
      <4>3. j < iter /\ Saved(j, 4)
        BY <4>2 DEF Done, Packages
      <4>4. QED
        BY <2>2, <3>2, <4>2, <4>3 DEF Rounds, Stages
    <3>3. QED
      BY <2>3, <2>5, <3>1, <3>2 DEF Stages
  <2>6. QED
    BY <2>2, <2>4, <2>5 DEF Lineage, Stages
<1>6. QED
  BY <1>1, <1>2, <1>3, <1>5

LEMMA IOpenPackage ==
  ASSUME Inv, NEW c \in unwritten, OpenPackage(c)
  PROVE  Inv'
<1> USE DEF Inv, OpenPackage
<1>1. OnDisk'
  BY DEF OnDisk, Saved
<1>2. Run'
  BY DEF Run, Phases, Computing, Writing, Saved, Done
<1>3. c \in Selected(checkpoint[iter][4].of) /\ c.iter = iter /\ Saved(iter, 4)
  BY SelectedIn DEF Packages, Run, Writing, OnDisk, Fits, Stages
<1>4. Packages'
  <2>1. \A j \in Rounds : Done(j) => c \notin Selected(checkpoint[j][4].of)
    BY <1>3, SelectedIn DEF Packages, Done, OnDisk, Fits, Run, Rounds, Stages
  <2>2. QED
    BY <2>1 DEF Packages, Done, Writing, Saved
<1>5. Unmixed'
  BY DEF Unmixed, Ahead, Saved
<1>6. Lineage'
  BY <1>3 DEF Lineage, Saved
<1>7. QED
  BY <1>1, <1>2, <1>4, <1>5, <1>6

LEMMA IClosePackage ==
  ASSUME Inv, ClosePackage
  PROVE  Inv'
<1> USE DEF Inv, ClosePackage
<1>1. OnDisk'
  BY DEF OnDisk, Saved
<1>2. Run'
  BY DEF Run, Phases, Computing, Writing, Saved, Done
<1>3. result \subseteq started
  BY DEF Run, Packages
<1>4. Packages'
  BY <1>3 DEF Packages, Done, Writing, Saved
<1>5. Unmixed' /\ Lineage'
  BY DEF Unmixed, Ahead, Lineage, Saved
<1>6. QED
  BY <1>1, <1>2, <1>4, <1>5

LEMMA IEndIteration ==
  ASSUME Inv, EndIteration
  PROVE  Inv'
<1> USE DEF Inv, EndIteration, diskVars
<1>1. OnDisk'
  BY DEF OnDisk, Saved
<1>2. \A j \in Rounds : Done(j)' <=> Done(j) \/ j = iter
  BY DEF Done, Run, Rounds
<1>3. Run'
  BY <1>2 DEF Run, Phases, Computing, Writing, Saved, Rounds, Stages
<1>4. Packages'
  BY <1>2 DEF Packages, Writing, Saved, Run
<1>5. Unmixed'
  <2>1. \A i \in Rounds, s \in Stages : Ahead(i, s)' /\ phase' # "ended" => Ahead(i, s)
    BY DEF Ahead, Run, Rounds, Stages
  <2>2. QED
    BY <2>1 DEF Unmixed
<1>6. Lineage'
  BY DEF Lineage, Saved
<1>7. QED
  BY <1>1, <1>3, <1>4, <1>5, <1>6

LEMMA InvStep == Inv /\ [Next]_vars => Inv'
<1> SUFFICES ASSUME Inv, [Next]_vars PROVE Inv'
  OBVIOUS
<1>1. CASE End \/ LoadRaises \/ Crash
  BY <1>1, IExit DEF End, LoadRaises, Crash
<1>2. CASE UNCHANGED vars
  <2> USE <1>2 DEF Inv, vars, diskVars, runVars, Saved
  <2>1. OnDisk'
    BY DEF OnDisk
  <2>2. Run'
    BY DEF Run, Done
  <2>3. Packages'
    BY DEF Packages, Done
  <2>4. Unmixed'
    BY DEF Unmixed, Ahead
  <2>5. Lineage'
    BY DEF Lineage
  <2>6. QED
    BY <2>1, <2>2, <2>3, <2>4, <2>5
<1>3. QED
  BY <1>1, <1>2, IBegin, IProduce, IOpenCheckpoint, ICloseCheckpoint, ILoadCheckpoint,
     IOpenPackage, IClosePackage, IEndIteration DEF Next

-----------------------------------------------------------------------------
(* Theorems.                                                               *)

\* Every variable keeps its type; what is saved belongs to its iteration, and the
\* last stages keep at most N_div (idea_divergence_filter, select_and_write).
THEOREM TypeCorrect == Spec => []TypeOK
<1>1. Inv => TypeOK
  BY SelectedIn DEF Inv, OnDisk, Fits, Run, Packages, Phases, Computing, Writing, TypeOK
<1>2. QED
  BY <1>1, InitInv, InvStep, PTL DEF Spec

\* However often the pipeline is killed and resumed, what is saved of a stage was
\* filtered from what is saved of the one before, and a seed from an earlier
\* iteration's selection (_stage_with_checkpoint, run).
THEOREM LineageHolds == Spec => []Lineage
<1>1. Inv => Lineage
  BY DEF Inv
<1>2. QED
  BY <1>1, InitInv, InvStep, PTL DEF Spec

\* A run that ends has left all it selected written in whole, what earlier runs
\* were killed in the middle of included (select_and_write).
THEOREM EndsCompleteHolds == Spec => []EndsComplete
<1>1. Inv => EndsComplete
  BY DEF Inv, Packages, Done, EndsComplete
<1>2. QED
  BY <1>1, InitInv, InvStep, PTL DEF Spec

\* A stage that was saved is not saved again, but by a fresh run
\* (_stage_with_checkpoint).
THEOREM SavedWorkKeptHolds == Spec => SavedWorkKept
<1> DEFINE A == \A i \in Rounds, s \in Stages :
                  Saved(i, s) => checkpoint'[i][s] = checkpoint[i][s] \/ fresh
<1>1. Inv /\ [Next]_vars => [A]_vars
  <2> SUFFICES ASSUME Inv, [Next]_vars, NEW i \in Rounds, NEW s \in Stages, Saved(i, s), ~fresh
               PROVE  checkpoint'[i][s] = checkpoint[i][s]
    OBVIOUS
  <2>1. CASE OpenCheckpoint
    <3>1. (i # iter \/ s # stage) /\ SavedAs = iter
      BY <2>1 DEF OpenCheckpoint, Inv, Run, Saved, SavedAs
    <3>2. Writes([file |-> "torn", of |-> {}])
      BY <2>1 DEF OpenCheckpoint, Writes
    <3>3. QED
      BY <3>1, <3>2, WritesOne DEF Inv
  <2>2. CASE CloseCheckpoint
    <3>1. i # iter \/ s # stage
      BY <2>2 DEF CloseCheckpoint, Inv, Run, Saved
    <3>2. Writes([file |-> "whole", of |-> result])
      BY <2>2 DEF CloseCheckpoint, Writes
    <3>3. QED
      BY <3>1, <3>2, WritesOne DEF Inv
  <2>3. Next => OpenCheckpoint \/ CloseCheckpoint \/ UNCHANGED checkpoint
    BY
       DEF Next, Begin, Produce, LoadCheckpoint, LoadRaises, OpenPackage, ClosePackage,
           EndIteration,
       End, Crash, diskVars
  <2>4. QED
    BY <2>1, <2>2, <2>3 DEF vars, diskVars
<1>2. QED
  BY <1>1, InitInv, InvStep, PTL DEF Spec, SavedWorkKept

-----------------------------------------------------------------------------
(* The refinement.                                                         *)

\* What is to be saved is still what the stage may yield.
RInv == Inv /\ (phase \in {"open", "save"} => result \in Outputs)

LEMMA RInvStep == RInv /\ [Next]_vars => RInv'
<1> SUFFICES ASSUME RInv, [Next]_vars, phase' \in {"open", "save"} PROVE result' \in Outputs'
  BY InvStep DEF RInv
<1>1. CASE Produce
  <2>1. result' \in Outputs
    BY <1>1 DEF Produce
  <2>2. Outputs' = Outputs
    BY <1>1 DEF Produce, Outputs, Mutated, Kept, diskVars
  <2>3. QED
    BY <2>1, <2>2
<1>2. CASE OpenCheckpoint \/ UNCHANGED vars
  <2>1. phase \in {"open", "save"} /\ result' = result
    BY <1>2 DEF OpenCheckpoint, vars, runVars
  <2>2. Outputs' = Outputs
    BY <1>2 DEF OpenCheckpoint, vars, runVars, Outputs, Mutated, Kept
  <2>3. QED
    BY <2>1, <2>2 DEF RInv
<1>3. QED
  BY <1>1, <1>2 DEF Next, Begin, CloseCheckpoint, StageDone, LoadCheckpoint, LoadRaises, Exit,
     OpenPackage, ClosePackage, EndIteration, End, Crash

\* What the run that nothing interrupts sees of the checkpoints.
Decided == {d \in Rounds \X Stages : Saved(d[1], d[2])}
Result(i, s) == IF Saved(i, s) THEN checkpoint[i][s].of ELSE {}
Results == [i \in Rounds |-> [s \in Stages |-> Result(i, s)]]
Problems(i) == OneRun!Problems(i)

\* The instance counts as this module does.
LEMMA SameCardinality == \A S : OneRun!Cardinality(S) = Cardinality(S)
BY DEF Cardinality, OneRun!Cardinality

LEMMA SameSubsets == \A k, S : OneRun!kSubset(k, S) = kSubset(k, S)
BY SameCardinality DEF kSubset, OneRun!kSubset, IsFiniteSet, OneRun!IsFiniteSet

LEMMA SeenAs ==
  \A i \in Rounds : Saved(i, 4) =>
    <<i, 4>> \in Decided /\ Problems(i) = Selected(checkpoint[i][4].of)
<1> SUFFICES ASSUME NEW i \in Rounds, Saved(i, 4)
             PROVE  <<i, 4>> \in Decided /\ Problems(i) = Selected(checkpoint[i][4].of)
  OBVIOUS
<1>1. <<i, 4>> \in Decided
  BY DEF Decided, Stages
<1>2. Results[i][4] = checkpoint[i][4].of
  BY DEF Results, Result, Stages
<1>3. Problems(i) =
        {c \in Results[i][4] : Cardinality({d \in Results[i][4] : d.slot < c.slot}) < NFinal}
  BY SameCardinality DEF Problems, OneRun!Problems, Results, Result
<1>4. QED
  BY <1>1, <1>2, <1>3 DEF Selected

\* A file that is opened was not whole: nothing is seen of it.
LEMMA OpenUnseen ==
  ASSUME Inv, ~mixed, OpenCheckpoint
  PROVE  Decided' = Decided /\ Results' = Results
<1>1. iter \in Rounds /\ stage \in Stages /\ ~Saved(iter, stage)
  BY DEF OpenCheckpoint, Inv, Run, Unmixed, Stages
<1>2. Writes([file |-> "torn", of |-> {}])
  BY DEF OpenCheckpoint, Writes
<1>3. \A i \in Rounds, s \in Stages :
        checkpoint'[i][s] = IF i = iter /\ s = stage THEN [file |-> "torn", of |-> {}]
                                                   ELSE checkpoint[i][s]
  BY <1>2, WritesOne DEF Inv
<1>4. \A i \in Rounds, s \in Stages : (Saved(i, s)' <=> Saved(i, s)) /\ Result(i, s)' = Result(i, s)
  BY <1>1, <1>3 DEF Saved, Result
<1>5. QED
  BY <1>4 DEF Decided, Results

\* The seeds of a run are problems of the iterations before.
LEMMA SeedsAreProblems ==
  ASSUME Inv, phase = "save"
  PROVE  seeds \union {None} \subseteq OneRun!Seeds(iter)
<1>0. None \in OneRun!Seeds(iter)
  BY DEF OneRun!Seeds
<1> SUFFICES ASSUME NEW c \in seeds PROVE c \in OneRun!Seeds(iter)
  BY <1>0
<1>1. PICK j \in Rounds : Done(j) /\ c \in Selected(checkpoint[j][4].of)
  BY DEF Inv, Run
<1>2. j < iter /\ Saved(j, 4) /\ j \in 1 .. iter - 1
  BY <1>1 DEF Done, Inv, Packages, Run, Rounds
<1>3. c \in UNION {Problems(k) : k \in 1 .. iter - 1}
  BY <1>1, <1>2, SeenAs
<1>4. QED
  BY <1>3 DEF OneRun!Seeds, Problems

\* A checkpoint that is closed decides its stage.
LEMMA CloseDecides ==
  ASSUME RInv, ~mixed, CloseCheckpoint
  PROVE  OneRun!Decide(iter, stage)
<1>1. iter \in Rounds /\ stage \in Stages /\ phase = "save" /\ ~Saved(iter, stage)
  BY DEF CloseCheckpoint, RInv, Inv, Run, Saved
<1>2. Writes([file |-> "whole", of |-> result])
  BY DEF CloseCheckpoint, Writes
<1>3. \A i \in Rounds, s \in Stages :
        checkpoint'[i][s] = IF i = iter /\ s = stage THEN [file |-> "whole", of |-> result]
                                                   ELSE checkpoint[i][s]
  BY <1>2, WritesOne DEF RInv, Inv
<1>4. \A i \in Rounds, s \in Stages :
        /\ Saved(i, s)' <=> Saved(i, s) \/ (i = iter /\ s = stage)
        /\ Result(i, s)' = IF i = iter /\ s = stage THEN result ELSE Result(i, s)
  BY <1>1, <1>3 DEF Saved, Result
<1>5. <<iter, stage>> \notin Decided /\ Decided' = Decided \union {<<iter, stage>>}
  BY <1>1, <1>4 DEF Decided
<1>6. Results' = [Results EXCEPT ![iter][stage] = result]
  <2>1. Results' = [i \in Rounds |-> [s \in Stages |->
                     IF i = iter /\ s = stage THEN result ELSE Result(i, s)]]
    BY <1>4 DEF Results
  <2>2. [Results EXCEPT ![iter][stage] = result] =
          [i \in Rounds |-> IF i = iter THEN [Results[iter] EXCEPT ![stage] = result] ELSE Results[i]]
    BY <1>1 DEF Results
  <2>3. [Results[iter] EXCEPT ![stage] = result] =
          [s \in Stages |-> IF s = stage THEN result ELSE Result(iter, s)]
    BY <1>1 DEF Results
  <2>4. \A i \in Rounds : [s \in Stages |->
            IF i = iter /\ s = stage THEN result ELSE Result(i, s)] =
          IF i = iter THEN [Results[iter] EXCEPT ![stage] = result] ELSE Results[i]
    BY <2>3 DEF Results
  <2>5. QED
    BY <2>1, <2>2, <2>4
<1>7. IF stage = 1 THEN \A j \in 1 .. iter - 1 : OneRun!Complete(j) ELSE <<iter, stage - 1>> \in Decided
  <2>1. ASSUME NEW j \in 1 .. iter - 1 PROVE OneRun!Complete(j)
    <3>1. j \in Rounds /\ Done(j)
      BY <1>1 DEF Rounds, Done
    <3>2. Saved(j, 4) /\ Selected(checkpoint[j][4].of) \subseteq written
      BY <3>1 DEF RInv, Inv, Packages
    <3>3. <<j, 4>> \in Decided /\ Problems(j) \subseteq written
      BY <3>1, <3>2, SeenAs
    <3>4. QED
      BY <3>3 DEF OneRun!Complete, Problems, Decided
  <2>2. ASSUME stage # 1 PROVE <<iter, stage - 1>> \in Decided
    BY <1>1, <2>2 DEF RInv, Inv, Run, Computing, Decided, Stages
  <2>3. QED
    BY <2>1, <2>2
<1>8. result \in CASE stage = 1 -> OneRun!Batches(iter)
                   [] stage = 3 -> OneRun!Best(Results[iter][2])
                   [] OTHER -> SUBSET Results[iter][stage - 1]
  <2>0. result \in Outputs
    BY <1>1 DEF RInv
  <2>1. CASE stage = 1
    <3>1. result \in SUBSET [by : {runs}, iter : {iter}, slot : 1 .. B, seed : OneRun!Seeds(iter)]
          /\ \A c, d \in result : c.slot = d.slot => c = d
      BY <1>1, <2>0, <2>1, SeedsAreProblems DEF Outputs, Mutated, RInv
    <3>2. runs \in 1 .. MaxRuns
      BY <1>1 DEF RInv, Inv, Run
    <3>3. QED
      BY <2>1, <3>1, <3>2 DEF OneRun!Batches
  <2>2. CASE stage # 1
    <3>1. stage - 1 \in Stages /\ candidates = Results[iter][stage - 1]
      BY <1>1, <2>2 DEF RInv, Inv, Run, Computing, Results, Result, Stages
    <3>2. CASE stage = 3
      BY <2>0, <3>1, <3>2, SameCardinality, SameSubsets DEF Outputs, Kept, OneRun!Best
    <3>3. CASE stage # 3
      BY <2>0, <2>2, <3>1, <3>3 DEF Outputs
    <3>4. QED
      BY <3>2, <3>3
  <2>3. QED
    BY <2>1, <2>2
<1>9. UNCHANGED written /\ (phase = "ended")' = (phase = "ended")
  BY <1>1 DEF CloseCheckpoint, StageDone
<1>10. QED
  BY <1>5, <1>6, <1>7, <1>8, <1>9 DEF OneRun!Decide, Decided, Results, Result

LEMMA RunStep ==
  ASSUME RInv, RInv', [Next]_vars
  PROVE  [OneRun!Next]_OneRun!vars
<1>1. CASE mixed'
  BY <1>1 DEF OneRun!Next, OneRun!Afresh
<1>2. CASE ~mixed'
  <2>0. ~mixed /\ Inv
    <3>1. mixed => mixed'
      BY DEF Next, Begin, Produce, OpenCheckpoint, CloseCheckpoint, LoadCheckpoint, LoadRaises,
         OpenPackage, ClosePackage, EndIteration, End, Crash, vars
    <3>2. QED
      BY <1>2, <3>1 DEF RInv
  <2>1. ASSUME UNCHANGED checkpoint PROVE Decided' = Decided /\ Results' = Results
    BY <2>1 DEF Decided, Results, Result, Saved
  <2>2. ASSUME Decided' = Decided, Results' = Results, UNCHANGED written,
               phase' = "ended" <=> phase = "ended"
        PROVE  UNCHANGED OneRun!vars
    <3>1. mixed' = mixed /\ (phase = "ended")' = (phase = "ended")
      BY <1>2, <2>0, <2>2 DEF RInv, Inv, Run
    <3>2. QED
      BY <2>2, <3>1 DEF OneRun!vars, Decided, Results, Result
  <2>3. CASE OpenCheckpoint
    BY <2>0, <2>2, <2>3, OpenUnseen DEF OpenCheckpoint
  <2>4. CASE CloseCheckpoint
    <3>1. OneRun!Decide(iter, stage)
      BY <2>0, <2>4, CloseDecides
    <3>2. iter \in OneRun!Rounds /\ stage \in OneRun!Stages
      BY <2>0 DEF Inv, Run, OneRun!Rounds, OneRun!Stages, Rounds, Stages
    <3>3. \E i \in OneRun!Rounds, s \in OneRun!Stages : OneRun!Decide(i, s)
      BY <3>1, <3>2 DEF OneRun!Decide
    <3>4. QED
      BY <1>2, <3>3 DEF OneRun!Next
  <2>5. ASSUME NEW c \in unwritten, OpenPackage(c) PROVE OneRun!Next
    <3>1. iter \in Rounds /\ Saved(iter, 4) /\ c \in Selected(checkpoint[iter][4].of)
      BY <2>0, <2>5 DEF OpenPackage, Inv, Run, Packages, Writing
    <3>2. c \in Problems(iter)
      BY <3>1, SeenAs
    <3>3. OneRun!Rewrite(c)
      BY <2>1, <2>5 DEF OpenPackage, OneRun!Rewrite, Decided, Results, Result
    <3>4. QED
      BY <1>2, <3>1, <3>2, <3>3 DEF OneRun!Next, OneRun!Rounds, Rounds, Problems
  <2>6. CASE ClosePackage
    <3>1. PICK c \in unwritten : result = {c}
      BY <2>0, <2>6 DEF ClosePackage, Inv, Run
    <3>2. iter \in Rounds /\ Saved(iter, 4) /\ c \in Selected(checkpoint[iter][4].of)
      BY <2>0, <2>6, <3>1 DEF ClosePackage, Inv, Run, Packages, Writing
    <3>3. c \in Problems(iter)
      BY <3>2, SeenAs
    <3>4. OneRun!Write(c)
      BY <2>1, <2>6, <3>1 DEF ClosePackage, OneRun!Write, Decided, Results, Result
    <3>5. QED
      BY <1>2, <3>2, <3>3, <3>4 DEF OneRun!Next, OneRun!Rounds, Rounds, Problems
  <2>7. CASE EndIteration
    <3>1. CASE phase' = "ended"
      <4>1. \A i \in Rounds : Saved(i, 4) /\ Selected(checkpoint[i][4].of) \subseteq written
        BY <2>7, <3>1 DEF EndIteration, RInv, Inv, Packages, Done, diskVars, Saved
      <4>2. \A i \in Rounds : <<i, 4>> \in Decided /\ Problems(i) \subseteq written
        BY <4>1, SeenAs
      <4>3. OneRun!Finish
        BY <2>1, <2>7, <3>1, <4>2 DEF EndIteration, diskVars, OneRun!Finish, OneRun!Complete,
           OneRun!Rounds, Rounds, Problems, Decided, Results, Result
      <4>4. QED
        BY <1>2, <4>3 DEF OneRun!Next
    <3>2. CASE phase' # "ended"
      BY <2>1, <2>2, <2>7, <3>2 DEF EndIteration, diskVars
    <3>3. QED
      BY <3>1, <3>2
  <2>8. CASE End
    <3>1. OneRun!Leave
      BY <2>1, <2>8 DEF End, Exit, diskVars, OneRun!Leave, Decided, Results, Result
    <3>2. QED
      BY <1>2, <3>1 DEF OneRun!Next
  <2>9. CASE LoadRaises \/ Crash \/ Produce \/ LoadCheckpoint \/ UNCHANGED vars
    <3>1. UNCHANGED diskVars /\ (phase' = "ended" <=> phase = "ended")
      BY <2>9 DEF LoadRaises, Crash, Exit, Produce, LoadCheckpoint, StageDone, vars, runVars
    <3>2. QED
      BY <2>1, <2>2, <3>1 DEF diskVars
  <2>10. ASSUME NEW isFresh \in BOOLEAN, Begin(isFresh) PROVE UNCHANGED OneRun!vars
    BY <2>1, <2>2, <2>10 DEF Begin, diskVars
  <2>11. QED
    BY <2>3, <2>4, <2>5, <2>6, <2>7, <2>8, <2>9, <2>10 DEF Next
<1>3. QED
  BY <1>1, <1>2

\* Runs that are killed anywhere and started again do what one run does that is
\* not: each stage is decided once, from what was decided before it, and the end
\* of a run means that all is there (run, _stage_with_checkpoint).
THEOREM ResumedRunsAreOneHolds == Spec => ResumedRunsAreOne
<1>1. Init => OneRun!Init
  BY DEF Init, OneRun!Init, Saved, OneRun!Rounds, OneRun!Stages, Rounds, Stages
<1>2. Init => RInv
  BY InitInv DEF RInv, Init
<1>3. RInv /\ RInv' /\ [Next]_vars => [OneRun!Next]_OneRun!vars
  BY RunStep
<1>4. QED
  BY <1>1, <1>2, <1>3, RInvStep, PTL DEF Spec, ResumedRunsAreOne, OneRun!Spec

=============================================================================
