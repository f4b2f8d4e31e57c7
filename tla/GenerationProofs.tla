--------------------------- MODULE GenerationProofs ---------------------------
(***************************************************************************)
(* What a run of the generation keeps, for any tasks, keys, weights and    *)
(* number of threads, whatever fails and whenever it is killed.            *)
(***************************************************************************)
EXTENDS Generation, TLAPS

USE GenerationAssumption

\* Where a task is says what the main thread is doing, and what it may have.
Placed ==
  /\ phase = "off" => \A t \in Tasks : tpc[t] = "out"
  /\ phase = "off" => \A k \in Keys : ~disabled[k]
  /\ phase = "marking" => mode = "mark"
  /\ phase = "running" => mode # "mark"
  /\ mode = "mark" => \A t \in Tasks : tpc[t] \in {"out", "queued", "raised", "reported"}
  /\ mode = "default" => \A t \in Tasks : tpc[t] \in {"queued", "calling"} => sol[t] # "whole"

\* What the files of a task are at each of its steps.
OnDisk ==
  \A t \in Tasks :
    /\ tpc[t] \notin {"ended", "reported"} => outcome[t] = None
    /\ tpc[t] = "unlinking" => sol[t] = "whole"

Inv == TypeOK /\ Placed /\ OnDisk /\ OutcomeMatchesDisk

-----------------------------------------------------------------------------
(* One lemma per action.                                                   *)

LEMMA InitInv == Init => Inv
<1> SUFFICES ASSUME Init PROVE Inv
  OBVIOUS
<1>1. TypeOK
  BY DEF Init, TypeOK, Outcomes, Active
<1>2. Placed /\ OnDisk /\ OutcomeMatchesDisk
  BY DEF Init, Placed, OnDisk, OutcomeMatchesDisk
<1>3. QED
  BY <1>1, <1>2 DEF Inv

LEMMA IMarkOnly ==
  ASSUME Inv, NEW t \in Tasks, MarkOnly(t)
  PROVE  Inv'
<1> USE DEF Inv, MarkOnly, MoveTo, files, poolVars, runVars, taskVars
<1>1. TypeOK'
  <2>0. \E b \in BOOLEAN : marker' = [marker EXCEPT ![t] = b]
    <3>1. marker[t] \in BOOLEAN /\ TRUE \in BOOLEAN
      BY DEF TypeOK
    <3>2. \A b \in {marker[t], TRUE} : b \in BOOLEAN
      BY <3>1
    <3>3. \E b \in {marker[t], TRUE} : marker' = [marker EXCEPT ![t] = b]
      OBVIOUS
    <3>4. QED
      BY <3>2, <3>3
  <2>1. sol' \in [Tasks -> {"none", "torn", "whole"}] /\ marker' \in [Tasks -> BOOLEAN]
    BY <2>0 DEF TypeOK
  <2>2. tpc' \in [Tasks -> {"out", "queued", "calling", "writing", "unlinking",
                           "ended", "raised", "reported"}]
    BY DEF TypeOK
  <2>3. key' \in [Tasks -> Keys \union {None}] /\ outcome' \in [Tasks -> Outcomes \union {None}]
    BY DEF TypeOK, Outcomes
  <2>4. /\ \A u \in Tasks : tpc'[u] \in {"out", "queued", "reported"} => key'[u] = None
        /\ \A u \in Active' : key'[u] # None
        /\ \A u \in Tasks : tpc'[u] = "ended" => outcome'[u] # None
    BY DEF TypeOK, Active
  <2>5. /\ failures' \in [Keys -> Nat] /\ disabled' \in [Keys -> BOOLEAN]
        /\ backoff' \in [Keys -> Nat] /\ usage' \in [Keys -> Nat]
    BY DEF TypeOK
  <2>6. QED
    BY <2>1, <2>2, <2>3, <2>4, <2>5 DEF TypeOK
<1>2. Placed'
  BY DEF TypeOK, Placed, Available
<1>3. OnDisk'
  BY DEF TypeOK, OnDisk, Placed
<1>4. OutcomeMatchesDisk'
  BY DEF TypeOK, OutcomeMatchesDisk, OnDisk, Placed
<1>5. QED
  BY <1>1, <1>2, <1>3, <1>4

LEMMA ILogDirFails ==
  ASSUME Inv, NEW t \in Tasks, LogDirFails(t)
  PROVE  Inv'
<1> USE DEF Inv, LogDirFails, MoveTo, files, poolVars, runVars, taskVars
<1>1. TypeOK'
  BY DEF TypeOK, Active, Outcomes, Keys
<1>2. Placed'
  BY DEF TypeOK, Placed, Available
<1>3. OnDisk'
  BY DEF TypeOK, OnDisk, Placed
<1>4. OutcomeMatchesDisk'
  BY DEF TypeOK, OutcomeMatchesDisk, OnDisk, Placed
<1>5. QED
  BY <1>1, <1>2, <1>3, <1>4

LEMMA IBegin ==
  ASSUME Inv, NEW t \in Tasks, Begin(t)
  PROVE  Inv'
<1> USE DEF Inv, Begin, MoveTo, files, poolVars, runVars, taskVars
<1>1. TypeOK'
  <2> DEFINE K == {k \in Keys : Available(k)}
  <2>1. CASE K = {} /\ outcome' = [outcome EXCEPT ![t] = "refused"] /\ MoveTo(t, "ended")
             /\ UNCHANGED <<usage, key>>
    BY <2>1 DEF TypeOK, Active, Outcomes
  <2>2. ASSUME NEW k \in K, usage' = [usage EXCEPT ![k] = @ + 1], key' = [key EXCEPT ![t] = k],
               MoveTo(t, "calling"), UNCHANGED outcome
        PROVE  TypeOK'
    <3>1. k \in Keys /\ k # None
      OBVIOUS
    <3>2. usage' \in [Keys -> Nat] /\ key' \in [Tasks -> Keys \union {None}]
      BY <2>2, <3>1 DEF TypeOK
    <3>3. /\ \A u \in Tasks : tpc'[u] \in {"out", "queued", "reported"} => key'[u] = None
          /\ \A u \in Active' : key'[u] # None
          /\ \A u \in Tasks : tpc'[u] = "ended" => outcome'[u] # None
      BY <2>2, <3>1 DEF TypeOK, Active
    <3>4. QED
      BY <2>2, <3>2, <3>3 DEF TypeOK
  <2>3. QED
    BY <2>1, <2>2
<1>2. Placed'
  BY DEF TypeOK, Placed, Available
<1>3. OnDisk'
  BY ZenonT(60) DEF TypeOK, OnDisk, Placed
<1>4. OutcomeMatchesDisk'
  BY ZenonT(60) DEF TypeOK, OutcomeMatchesDisk, OnDisk, Placed
<1>5. QED
  BY <1>1, <1>2, <1>3, <1>4

LEMMA ICallFails ==
  ASSUME Inv, NEW t \in Tasks, CallFails(t)
  PROVE  Inv'
<1> USE DEF Inv, CallFails, Except, MoveTo, files, poolVars, runVars, taskVars
<1>1. TypeOK'
  <2>0. \E b \in BOOLEAN : marker' = [marker EXCEPT ![t] = b]
    <3>1. marker[t] \in BOOLEAN /\ TRUE \in BOOLEAN
      BY DEF TypeOK
    <3>2. \A b \in {marker[t], TRUE} : b \in BOOLEAN
      BY <3>1
    <3>3. \E b \in {marker[t], TRUE} : marker' = [marker EXCEPT ![t] = b]
      OBVIOUS
    <3>4. QED
      BY <3>2, <3>3
  <2>1. sol' \in [Tasks -> {"none", "torn", "whole"}] /\ marker' \in [Tasks -> BOOLEAN]
    BY <2>0 DEF TypeOK
  <2>2. tpc' \in [Tasks -> {"out", "queued", "calling", "writing", "unlinking",
                           "ended", "raised", "reported"}]
    BY DEF TypeOK
  <2>3. key' \in [Tasks -> Keys \union {None}] /\ outcome' \in [Tasks -> Outcomes \union {None}]
    BY DEF TypeOK, Outcomes
  <2>4. /\ \A u \in Tasks : tpc'[u] \in {"out", "queued", "reported"} => key'[u] = None
        /\ \A u \in Active' : key'[u] # None
        /\ \A u \in Tasks : tpc'[u] = "ended" => outcome'[u] # None
    BY DEF TypeOK, Active
  <2>5. /\ failures' \in [Keys -> Nat] /\ disabled' \in [Keys -> BOOLEAN]
        /\ backoff' \in [Keys -> Nat] /\ usage' \in [Keys -> Nat]
    BY DEF TypeOK
  <2>6. QED
    BY <2>1, <2>2, <2>3, <2>4, <2>5 DEF TypeOK
<1>2. Placed'
  BY DEF TypeOK, Placed, Available
<1>3. OnDisk'
  BY DEF TypeOK, OnDisk, Placed
<1>4. OutcomeMatchesDisk'
  BY DEF TypeOK, OutcomeMatchesDisk, OnDisk, Placed
<1>5. QED
  BY <1>1, <1>2, <1>3, <1>4

LEMMA IDiskFails ==
  ASSUME Inv, NEW t \in Tasks, DiskFails(t)
  PROVE  Inv'
<1> USE DEF Inv, DiskFails, Except, MoveTo, files, poolVars, runVars, taskVars
<1>1. TypeOK'
  <2>0. \E b \in BOOLEAN : marker' = [marker EXCEPT ![t] = b]
    <3>1. marker[t] \in BOOLEAN /\ TRUE \in BOOLEAN
      BY DEF TypeOK
    <3>2. \A b \in {marker[t], TRUE} : b \in BOOLEAN
      BY <3>1
    <3>3. \E b \in {marker[t], TRUE} : marker' = [marker EXCEPT ![t] = b]
      OBVIOUS
    <3>4. QED
      BY <3>2, <3>3
  <2>1. sol' \in [Tasks -> {"none", "torn", "whole"}] /\ marker' \in [Tasks -> BOOLEAN]
    BY <2>0 DEF TypeOK
  <2>2. tpc' \in [Tasks -> {"out", "queued", "calling", "writing", "unlinking",
                           "ended", "raised", "reported"}]
    BY DEF TypeOK
  <2>3. key' \in [Tasks -> Keys \union {None}] /\ outcome' \in [Tasks -> Outcomes \union {None}]
    BY DEF TypeOK, Outcomes
  <2>4. /\ \A u \in Tasks : tpc'[u] \in {"out", "queued", "reported"} => key'[u] = None
        /\ \A u \in Active' : key'[u] # None
        /\ \A u \in Tasks : tpc'[u] = "ended" => outcome'[u] # None
    BY DEF TypeOK, Active
  <2>5. /\ failures' \in [Keys -> Nat] /\ disabled' \in [Keys -> BOOLEAN]
        /\ backoff' \in [Keys -> Nat] /\ usage' \in [Keys -> Nat]
    BY DEF TypeOK
  <2>6. QED
    BY <2>1, <2>2, <2>3, <2>4, <2>5 DEF TypeOK
<1>2. Placed'
  BY DEF TypeOK, Placed, Available
<1>3. OnDisk'
  BY DEF TypeOK, OnDisk, Placed
<1>4. OutcomeMatchesDisk'
  BY DEF TypeOK, OutcomeMatchesDisk, OnDisk, Placed
<1>5. QED
  BY <1>1, <1>2, <1>3, <1>4

LEMMA IOpenFile ==
  ASSUME Inv, NEW t \in Tasks, OpenFile(t)
  PROVE  Inv'
<1> USE DEF Inv, OpenFile, MoveTo, files, poolVars, runVars, taskVars
<1>1. TypeOK'
  <2>1. sol' \in [Tasks -> {"none", "torn", "whole"}] /\ marker' \in [Tasks -> BOOLEAN]
    BY DEF TypeOK
  <2>2. tpc' \in [Tasks -> {"out", "queued", "calling", "writing", "unlinking",
                           "ended", "raised", "reported"}]
    BY DEF TypeOK
  <2>3. key' \in [Tasks -> Keys \union {None}] /\ outcome' \in [Tasks -> Outcomes \union {None}]
    BY DEF TypeOK, Outcomes
  <2>4. /\ \A u \in Tasks : tpc'[u] \in {"out", "queued", "reported"} => key'[u] = None
        /\ \A u \in Active' : key'[u] # None
        /\ \A u \in Tasks : tpc'[u] = "ended" => outcome'[u] # None
    BY DEF TypeOK, Active
  <2>5. /\ failures' \in [Keys -> Nat] /\ disabled' \in [Keys -> BOOLEAN]
        /\ backoff' \in [Keys -> Nat] /\ usage' \in [Keys -> Nat]
    BY DEF TypeOK
  <2>6. QED
    BY <2>1, <2>2, <2>3, <2>4, <2>5 DEF TypeOK
<1>2. Placed'
  BY DEF TypeOK, Placed, Available
<1>3. OnDisk'
  BY DEF TypeOK, OnDisk, Placed
<1>4. OutcomeMatchesDisk'
  BY DEF TypeOK, OutcomeMatchesDisk, OnDisk, Placed
<1>5. QED
  BY <1>1, <1>2, <1>3, <1>4

LEMMA IWriteFile ==
  ASSUME Inv, NEW t \in Tasks, WriteFile(t)
  PROVE  Inv'
<1> USE DEF Inv, WriteFile, MoveTo, files, poolVars, runVars, taskVars
<1>1. TypeOK'
  <2>1. sol' \in [Tasks -> {"none", "torn", "whole"}] /\ marker' \in [Tasks -> BOOLEAN]
    BY DEF TypeOK
  <2>2. tpc' \in [Tasks -> {"out", "queued", "calling", "writing", "unlinking",
                           "ended", "raised", "reported"}]
    BY DEF TypeOK
  <2>3. key' \in [Tasks -> Keys \union {None}] /\ outcome' \in [Tasks -> Outcomes \union {None}]
    BY DEF TypeOK, Outcomes
  <2>4. /\ \A u \in Tasks : tpc'[u] \in {"out", "queued", "reported"} => key'[u] = None
        /\ \A u \in Active' : key'[u] # None
        /\ \A u \in Tasks : tpc'[u] = "ended" => outcome'[u] # None
    BY DEF TypeOK, Active
  <2>5. /\ failures' \in [Keys -> Nat] /\ disabled' \in [Keys -> BOOLEAN]
        /\ backoff' \in [Keys -> Nat] /\ usage' \in [Keys -> Nat]
    BY DEF TypeOK
  <2>6. QED
    BY <2>1, <2>2, <2>3, <2>4, <2>5 DEF TypeOK
<1>2. Placed'
  BY DEF TypeOK, Placed, Available
<1>3. OnDisk'
  BY DEF TypeOK, OnDisk, Placed
<1>4. OutcomeMatchesDisk'
  BY DEF TypeOK, OutcomeMatchesDisk, OnDisk, Placed
<1>5. QED
  BY <1>1, <1>2, <1>3, <1>4

LEMMA IUnlinkMarker ==
  ASSUME Inv, NEW t \in Tasks, UnlinkMarker(t)
  PROVE  Inv'
<1> USE DEF Inv, UnlinkMarker, MoveTo, files, poolVars, runVars, taskVars
<1>1. TypeOK'
  <2>1. sol' \in [Tasks -> {"none", "torn", "whole"}] /\ marker' \in [Tasks -> BOOLEAN]
    BY DEF TypeOK
  <2>2. tpc' \in [Tasks -> {"out", "queued", "calling", "writing", "unlinking",
                           "ended", "raised", "reported"}]
    BY DEF TypeOK
  <2>3. key' \in [Tasks -> Keys \union {None}] /\ outcome' \in [Tasks -> Outcomes \union {None}]
    BY DEF TypeOK, Outcomes
  <2>4. /\ \A u \in Tasks : tpc'[u] \in {"out", "queued", "reported"} => key'[u] = None
        /\ \A u \in Active' : key'[u] # None
        /\ \A u \in Tasks : tpc'[u] = "ended" => outcome'[u] # None
    BY DEF TypeOK, Active
  <2>5. /\ failures' \in [Keys -> Nat] /\ disabled' \in [Keys -> BOOLEAN]
        /\ backoff' \in [Keys -> Nat] /\ usage' \in [Keys -> Nat]
    BY DEF TypeOK
  <2>6. QED
    BY <2>1, <2>2, <2>3, <2>4, <2>5 DEF TypeOK
<1>2. Placed'
  BY DEF TypeOK, Placed, Available
<1>3. OnDisk'
  BY DEF TypeOK, OnDisk, Placed
<1>4. OutcomeMatchesDisk'
  BY DEF TypeOK, OutcomeMatchesDisk, OnDisk, Placed
<1>5. QED
  BY <1>1, <1>2, <1>3, <1>4

LEMMA IReport ==
  ASSUME Inv, NEW t \in Tasks, Report(t)
  PROVE  Inv'
<1> USE DEF Inv, Report, ReportSuccess, ReportFailure, MoveTo, files, poolVars, runVars, taskVars
<1>1. TypeOK'
  <2>1. sol' \in [Tasks -> {"none", "torn", "whole"}] /\ marker' \in [Tasks -> BOOLEAN]
    BY DEF TypeOK
  <2>2. tpc' \in [Tasks -> {"out", "queued", "calling", "writing", "unlinking",
                           "ended", "raised", "reported"}]
    BY DEF TypeOK
  <2>3. key' \in [Tasks -> Keys \union {None}] /\ outcome' \in [Tasks -> Outcomes \union {None}]
    BY DEF TypeOK, Outcomes
  <2>4. /\ \A u \in Tasks : tpc'[u] \in {"out", "queued", "reported"} => key'[u] = None
        /\ \A u \in Active' : key'[u] # None
        /\ \A u \in Tasks : tpc'[u] = "ended" => outcome'[u] # None
    BY DEF TypeOK, Active
  <2>5. CASE key[t] = None
    BY <2>1, <2>2, <2>3, <2>4, <2>5 DEF TypeOK
  <2>6. CASE key[t] # None
    <3>1. key[t] \in Keys
      BY <2>6 DEF TypeOK
    <3>2. \A k \in Keys : Higher(backoff[k], now + Lower(MaxBackoff, failures[k] + 1)) \in Nat
      BY DEF TypeOK, Higher, Lower
    <3>3. /\ failures' \in [Keys -> Nat] /\ disabled' \in [Keys -> BOOLEAN]
          /\ backoff' \in [Keys -> Nat]
      <4>1. CASE outcome[t] = "generated"
        BY <2>6, <3>1, <4>1 DEF TypeOK
      <4>2. CASE outcome[t] # "generated"
        <5>1. failures' = [failures EXCEPT ![key[t]] = @ + 1]
          BY <2>6, <4>2
        <5>2. \/ disabled' = [disabled EXCEPT ![key[t]] = TRUE] /\ backoff' = backoff
              \/ /\ disabled' = disabled
                 /\ backoff' = [backoff EXCEPT ![key[t]] =
                                 Higher(backoff[key[t]], now + Lower(MaxBackoff, failures[key[t]] + 1))]
          BY <2>6, <4>2
        <5>3. failures' \in [Keys -> Nat]
          BY <3>1, <5>1 DEF TypeOK
        <5>4. Higher(backoff[key[t]], now + Lower(MaxBackoff, failures[key[t]] + 1)) \in Nat
          BY <3>1, <3>2
        <5>5. backoff' \in [Keys -> Nat]
          BY <3>1, <5>2, <5>4 DEF TypeOK
        <5>6. disabled' \in [Keys -> BOOLEAN]
          BY <3>1, <5>2 DEF TypeOK
        <5>7. QED
          BY <5>3, <5>5, <5>6
      <4>3. QED
        BY <4>1, <4>2
    <3>4. QED
      BY <2>1, <2>2, <2>3, <2>4, <3>3 DEF TypeOK
  <2>7. QED
    BY <2>5, <2>6
<1>2. Placed'
  BY DEF TypeOK, Placed, Available
<1>3. OnDisk'
  BY DEF TypeOK, OnDisk, Placed
<1>4. OutcomeMatchesDisk'
  BY DEF TypeOK, OutcomeMatchesDisk, OnDisk, Placed
<1>5. QED
  BY <1>1, <1>2, <1>3, <1>4

LEMMA IAbort ==
  ASSUME Inv, NEW t \in Tasks, Abort(t)
  PROVE  Inv'
<1> USE DEF Inv, Abort, files, poolVars, runVars, taskVars
<1>1. TypeOK'
  BY DEF TypeOK, Active, Outcomes, Keys
<1>2. Placed'
  BY DEF TypeOK, Placed, Available
<1>3. OnDisk'
  BY DEF TypeOK, OnDisk, Placed
<1>4. OutcomeMatchesDisk'
  BY DEF TypeOK, OutcomeMatchesDisk, OnDisk, Placed
<1>5. QED
  BY <1>1, <1>2, <1>3, <1>4

LEMMA IStart ==
  ASSUME Inv, NEW m \in {"default", "force", "only_failed", "mark"}, Start(m)
  PROVE  Inv'
<1> USE DEF Inv, Start, NewPool, files, poolVars, runVars, taskVars
<1>1. TypeOK'
  BY DEF TypeOK, Active, Outcomes, Keys
<1>2. Placed'
  BY DEF TypeOK, Placed, Available, Selected
<1>3. OnDisk'
  BY DEF TypeOK, OnDisk, Placed
<1>4. OutcomeMatchesDisk'
  BY DEF TypeOK, OutcomeMatchesDisk, OnDisk, Placed
<1>5. QED
  BY <1>1, <1>2, <1>3, <1>4

LEMMA IEnd ==
  ASSUME Inv, End
  PROVE  Inv'
<1> USE DEF Inv, End, Exit, NewPool, files, poolVars, runVars, taskVars
<1>1. TypeOK'
  BY DEF TypeOK, Active, Outcomes, Keys
<1>2. Placed'
  BY DEF TypeOK, Placed, Available
<1>3. OnDisk'
  BY DEF TypeOK, OnDisk, Placed
<1>4. OutcomeMatchesDisk'
  BY DEF TypeOK, OutcomeMatchesDisk, OnDisk, Placed
<1>5. QED
  BY <1>1, <1>2, <1>3, <1>4

LEMMA IEndAborted ==
  ASSUME Inv, EndAborted
  PROVE  Inv'
<1> USE DEF Inv, EndAborted, Exit, NewPool, files, poolVars, runVars, taskVars
<1>1. TypeOK'
  BY DEF TypeOK, Active, Outcomes, Keys
<1>2. Placed'
  BY DEF TypeOK, Placed, Available
<1>3. OnDisk'
  BY DEF TypeOK, OnDisk, Placed
<1>4. OutcomeMatchesDisk'
  BY DEF TypeOK, OutcomeMatchesDisk, OnDisk, Placed
<1>5. QED
  BY <1>1, <1>2, <1>3, <1>4

LEMMA ICrash ==
  ASSUME Inv, Crash
  PROVE  Inv'
<1> USE DEF Inv, Crash, Exit, NewPool, files, poolVars, runVars, taskVars
<1>1. TypeOK'
  <2>1. sol' \in [Tasks -> {"none", "torn", "whole"}] /\ marker' \in [Tasks -> BOOLEAN]
    BY DEF TypeOK
  <2>2. tpc' \in [Tasks -> {"out", "queued", "calling", "writing", "unlinking",
                           "ended", "raised", "reported"}]
    BY DEF TypeOK
  <2>3. key' \in [Tasks -> Keys \union {None}] /\ outcome' \in [Tasks -> Outcomes \union {None}]
    BY DEF TypeOK, Outcomes
  <2>4. /\ \A u \in Tasks : tpc'[u] \in {"out", "queued", "reported"} => key'[u] = None
        /\ \A u \in Active' : key'[u] # None
        /\ \A u \in Tasks : tpc'[u] = "ended" => outcome'[u] # None
    BY DEF TypeOK, Active
  <2>5. /\ failures' \in [Keys -> Nat] /\ disabled' \in [Keys -> BOOLEAN]
        /\ backoff' \in [Keys -> Nat] /\ usage' \in [Keys -> Nat]
    BY DEF TypeOK
  <2>6. QED
    BY <2>1, <2>2, <2>3, <2>4, <2>5 DEF TypeOK
<1>2. Placed'
  BY DEF TypeOK, Placed, Available
<1>3. OnDisk'
  BY DEF TypeOK, OnDisk, Placed
<1>4. OutcomeMatchesDisk'
  BY DEF TypeOK, OutcomeMatchesDisk, OnDisk, Placed
<1>5. QED
  BY <1>1, <1>2, <1>3, <1>4

LEMMA ITick ==
  ASSUME Inv, Tick
  PROVE  Inv'
<1> USE DEF Inv, Tick, files, poolVars, runVars, taskVars
<1>1. TypeOK'
  BY DEF TypeOK, Active
<1>2. Placed'
  BY DEF TypeOK, Placed, Available
<1>3. OnDisk'
  BY DEF TypeOK, OnDisk, Placed
<1>4. OutcomeMatchesDisk'
  BY DEF TypeOK, OutcomeMatchesDisk, OnDisk, Placed
<1>5. QED
  BY <1>1, <1>2, <1>3, <1>4

LEMMA InvStep == Inv /\ [Next]_vars => Inv'
<1> SUFFICES ASSUME Inv, [Next]_vars PROVE Inv'
  OBVIOUS
<1>1. ASSUME NEW t \in Tasks, TaskStep(t) \/ DiskStep(t) PROVE Inv'
  BY <1>1, IMarkOnly, ILogDirFails, IBegin, ICallFails, IDiskFails, IOpenFile, IWriteFile,
     IUnlinkMarker, IReport, IAbort DEF TaskStep, DiskStep
<1>2. ASSUME NEW m \in {"default", "force", "only_failed", "mark"}, Start(m) PROVE Inv'
  BY <1>2, IStart
<1>3. CASE End \/ EndAborted \/ Crash \/ Tick
  BY <1>3, IEnd, IEndAborted, ICrash, ITick
<1>4. CASE UNCHANGED vars
  BY <1>4
     DEF Inv, TypeOK, Active, Placed, OnDisk, OutcomeMatchesDisk, vars, files, poolVars, runVars,
         taskVars
<1>5. QED
  BY <1>1, <1>2, <1>3, <1>4 DEF Next

-----------------------------------------------------------------------------
(* Theorems.                                                               *)

\* Every variable keeps its type; a task has a key while it calls and writes, and
\* an outcome once it has returned (execute_task).
THEOREM TypeCorrect == Spec => []TypeOK
<1>1. Inv => TypeOK
  BY DEF Inv
<1>2. QED
  BY <1>1, InitInv, InvStep, PTL DEF Spec

\* For any number of threads, failures and kills, what a task returns is what the
\* next run finds on disk (execute_task, write_text).
THEOREM OutcomeMatchesDiskHolds == Spec => []OutcomeMatchesDisk
<1>1. Inv => OutcomeMatchesDisk
  BY DEF Inv
<1>2. QED
  BY <1>1, InitInv, InvStep, PTL DEF Spec

\* A key that was disabled is never used again in the run, in whatever order the
\* calls that were under way are reported (acquire, report_success).
THEOREM DisabledForGoodHolds == Spec => DisabledForGood
<1> DEFINE A == \A k \in Keys :
                  disabled[k] /\ phase' # "off" => disabled'[k] /\ usage'[k] = usage[k]
<1>1. Inv /\ [Next]_vars => [A]_vars
  <2> SUFFICES ASSUME Inv, [Next]_vars, NEW k \in Keys, disabled[k], phase' # "off"
               PROVE  disabled'[k] /\ usage'[k] = usage[k]
    OBVIOUS
  <2>1. ASSUME NEW t \in Tasks, Begin(t) PROVE disabled'[k] /\ usage'[k] = usage[k]
    BY <2>1 DEF Begin, Available, Inv, TypeOK
  <2>2. ASSUME NEW t \in Tasks, Report(t) PROVE disabled'[k] /\ usage'[k] = usage[k]
    BY <2>2 DEF Report, ReportSuccess, ReportFailure, Inv, TypeOK
  <2>3. ASSUME NEW t \in Tasks, TaskStep(t) \/ DiskStep(t)
        PROVE  Begin(t) \/ Report(t) \/ UNCHANGED <<disabled, usage>>
    BY <2>3 DEF TaskStep, DiskStep, MarkOnly, LogDirFails, CallFails, DiskFails, Except,
     OpenFile, WriteFile, UnlinkMarker, Abort, poolVars
  <2>4. ASSUME NEW m \in {"default", "force", "only_failed", "mark"} PROVE ~Start(m)
    BY DEF Start, Inv, Placed
  <2>5. ~End /\ ~EndAborted /\ ~Crash
    BY DEF End, EndAborted, Crash, Exit
  <2>6. Tick \/ UNCHANGED vars => UNCHANGED <<disabled, usage>>
    BY DEF Tick, vars, poolVars
  <2>7. QED
    BY <2>1, <2>2, <2>3, <2>4, <2>5, <2>6 DEF Next
<1>2. QED
  BY <1>1, InitInv, InvStep, PTL DEF Spec, DisabledForGood

\* A default run and one that only marks never touch a whole solution, whatever
\* the other runs left (the selection of the tasks).
THEOREM WorkIsKeptHolds == Spec => WorkIsKept
<1> DEFINE A == \A t \in Tasks :
                  sol[t] = "whole" /\ (mode \in {"default", "mark"} \/ phase = "off") => sol'[t] = "whole"
<1>1. Inv /\ [Next]_vars => [A]_vars
  <2> SUFFICES ASSUME Inv, [Next]_vars, NEW t \in Tasks, sol[t] = "whole",
                      mode \in {"default", "mark"} \/ phase = "off"
               PROVE  sol'[t] = "whole"
    OBVIOUS
  <2>1. ASSUME NEW u \in Tasks, OpenFile(u) PROVE sol'[t] = "whole"
    BY <2>1 DEF OpenFile, Inv, TypeOK, Placed
  <2>2. ASSUME NEW u \in Tasks, WriteFile(u) PROVE sol'[t] = "whole"
    BY <2>2 DEF WriteFile, Inv, TypeOK
  <2>3. ASSUME NEW u \in Tasks, TaskStep(u) \/ DiskStep(u) PROVE OpenFile(u) \/ WriteFile(u) \/ UNCHANGED sol
    BY <2>3 DEF TaskStep, DiskStep, MarkOnly, LogDirFails, Begin, CallFails, DiskFails, Except, UnlinkMarker,
       Report, Abort, files
  <2>4. ASSUME NEW m \in {"default", "force", "only_failed", "mark"}, Start(m) PROVE UNCHANGED sol
    BY <2>4 DEF Start, files
  <2>5. End \/ EndAborted \/ Crash \/ Tick \/ UNCHANGED vars => UNCHANGED sol
    BY DEF End, EndAborted, Crash, Tick, vars, files
  <2>6. QED
    BY <2>1, <2>2, <2>3, <2>4, <2>5 DEF Next
<1>2. QED
  BY <1>1, InitInv, InvStep, PTL DEF Spec, WorkIsKept

-----------------------------------------------------------------------------
(* The balance of the load.                                                *)

\* One more call for the key with the lowest ratio leaves it at most one ahead.
LEMMA Balance ==
  ASSUME TypeOK, UsageBalanced, NEW K \in SUBSET Keys, NEW b \in K, Best(b, K),
         usage' = [usage EXCEPT ![b] = @ + 1], Keys \ everOff' \subseteq K, everOff \subseteq everOff'
  PROVE  UsageBalanced'
<1> SUFFICES ASSUME NEW k \in Keys, NEW l \in Keys \ everOff'
             PROVE  (usage'[k] - 1) * Weight[l] <= usage'[l] * Weight[k]
  BY DEF UsageBalanced
<1>1. /\ usage[k] \in Nat /\ usage[l] \in Nat /\ usage[b] \in Nat
      /\ Weight[k] \in Nat /\ Weight[l] \in Nat
      /\ usage'[k] = IF k = b THEN usage[k] + 1 ELSE usage[k]
      /\ usage'[l] = IF l = b THEN usage[l] + 1 ELSE usage[l]
  BY DEF TypeOK
<1>2. usage'[l] * Weight[k] >= usage[l] * Weight[k]
  <2>1. \A x, y \in Nat : (x + 1) * y = x * y + y /\ x * y \in Nat
    OBVIOUS
  <2>2. QED
    BY <1>1, <2>1
<1>3. CASE k = b
  <2>1. usage[b] * Weight[l] <= usage[l] * Weight[b]
    <3>1. l \in K
      OBVIOUS
    <3>2. usage[b] * Weight[l] < usage[l] * Weight[b] \/ usage[b] * Weight[l] = usage[l] * Weight[b]
      BY <3>1 DEF Best
    <3>3. \A x, y \in Nat : x * y \in Nat
      OBVIOUS
    <3>4. usage[b] * Weight[l] \in Nat /\ usage[l] * Weight[b] \in Nat
      BY <1>1, <1>3, <3>3
    <3>5. QED
      BY <3>2, <3>4
  <2>2. usage'[k] - 1 = usage[b]
    BY <1>1, <1>3
  <2>3. QED
    BY <1>1, <1>2, <1>3, <2>1, <2>2
<1>4. CASE k # b
  <2>1. (usage[k] - 1) * Weight[l] <= usage[l] * Weight[k]
    BY DEF UsageBalanced
  <2>2. QED
    BY <1>1, <1>2, <1>4, <2>1
<1>5. QED
  BY <1>3, <1>4

\* By use per weight no key is more than one call ahead of a key that was always
\* available, for any weights and any number of threads (APIKeyPool.acquire).
THEOREM UsageBalancedHolds == Spec => []UsageBalanced
<1>1. Init => UsageBalanced
  <2>1. ASSUME NEW n \in Nat, NEW m \in Nat PROVE (0 - 1) * n <= 0 * m
    OBVIOUS
  <2>2. QED
    BY <2>1 DEF Init, UsageBalanced
<1>2. Inv /\ UsageBalanced /\ [Next]_vars => UsageBalanced'
  <2> SUFFICES ASSUME Inv, UsageBalanced, [Next]_vars PROVE UsageBalanced'
    OBVIOUS
  <2>1. ASSUME NewPool PROVE UsageBalanced'
    <3>1. ASSUME NEW n \in Nat, NEW m \in Nat PROVE (0 - 1) * n <= 0 * m
      OBVIOUS
    <3>2. QED
      BY <2>1, <3>1 DEF NewPool, UsageBalanced
  <2>2. ASSUME UNCHANGED usage, everOff \subseteq everOff' PROVE UsageBalanced'
    BY <2>2 DEF UsageBalanced
  <2>3. ASSUME NEW t \in Tasks, Begin(t) PROVE UsageBalanced'
    <3> DEFINE K == {k \in Keys : Available(k)}
    <3>1. K \in SUBSET Keys /\ everOff' = everOff \union (Keys \ K)
      BY <2>3 DEF Begin
    <3>2. ASSUME NEW k \in K, Best(k, K), usage' = [usage EXCEPT ![k] = @ + 1] PROVE UsageBalanced'
      <4>1. Keys \ everOff' \subseteq K /\ everOff \subseteq everOff'
        BY <3>1
      <4>2. QED
        BY <3>1, <3>2, <4>1, Balance DEF Inv
    <3>3. QED
      BY <2>2, <2>3, <3>1, <3>2 DEF Begin
  <2>4. ASSUME NEW t \in Tasks, TaskStep(t) \/ DiskStep(t) PROVE Begin(t) \/ UNCHANGED <<usage, everOff>>
    BY <2>4 DEF TaskStep, DiskStep, MarkOnly, LogDirFails, CallFails, DiskFails, Except,
     OpenFile, WriteFile, UnlinkMarker, Abort, Report, poolVars
  <2>5. ASSUME NEW m \in {"default", "force", "only_failed", "mark"}, Start(m) PROVE NewPool
    BY <2>5 DEF Start
  <2>6. End \/ EndAborted \/ Crash => NewPool
    BY DEF End, EndAborted, Crash, Exit
  <2>7. Tick \/ UNCHANGED vars => UNCHANGED <<usage, everOff>>
    BY DEF Tick, vars, poolVars
  <2>8. QED
    BY <2>1, <2>2, <2>3, <2>4, <2>5, <2>6, <2>7 DEF Next
<1>3. QED
  BY <1>1, <1>2, InitInv, InvStep, PTL DEF Spec

==============================================================================
