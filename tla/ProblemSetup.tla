----------------------------- MODULE ProblemSetup -----------------------------
(***************************************************************************)
(* Installing a problem in the judge (router.js, problem_manager.js):      *)
(* POST /problem/add-problem and /problem/setup unzip a package into a     *)
(* temporary directory of the problem, validate and copy it over the       *)
(* problem's directory, compile its checker and pack it. The handlers of   *)
(* two requests interleave at every await, and share that directory.       *)
(*                                                                         *)
(* One problem, and packages of one layout (config.yaml, chk.cc, a         *)
(* testdata directory), which is what the pipeline uploads: without its    *)
(* config.yaml such a package is refused by the free mode, which finds no  *)
(* test cases at the top level. A file, or the test data as one, is the    *)
(* number of the package it came from; the interactor is installed as the  *)
(* checker is. Tests left by a larger package are beyond the new n_cases.  *)
(***************************************************************************)
EXTENDS Naturals, FiniteSets

CONSTANTS
  MaxRequests,  \* bound: packages are numbered 1 .. MaxRequests
  DiskMayFail   \* may extracting, copying, packing or go-judge fail?

Packages == 1 .. MaxRequests
Absent   == 0
Mixed    == MaxRequests + 1   \* test data of two packages
Versions == 0 .. MaxRequests + 1
Parts    == {"conf", "chk", "data"}

ASSUME SetupAssumption == MaxRequests \in Nat /\ DiskMayFail \in BOOLEAN

VARIABLES
  exists,    \* is there a directory of the problem?
  installed, \* what is in it
  bin,       \* the source its chk.cc.bin was compiled from
  tmp,       \* what is in tmp_<pid>
  spc,       \* where the handler of a package is
  todo,      \* the parts it has not extracted, or not copied, yet
  source,    \* the checker source it has read
  reply,     \* what it answered
  sound,     \* does the checker of a package compile?
  beside,    \* history: packages whose handler ran beside another one
  hurt       \* history: packages whose handler met a failing disk or go-judge

setupVars == <<exists, installed, bin, tmp, spc, todo, source, reply, sound, beside, hurt>>

Nothing == [part \in Parts |-> Absent]

SetupInit ==
  /\ exists = FALSE /\ installed = Nothing /\ bin = Absent /\ tmp = Nothing
  /\ spc = [r \in Packages |-> "idle"]
  /\ todo = [r \in Packages |-> {}]
  /\ source = [r \in Packages |-> Absent]
  /\ reply = [r \in Packages |-> "none"]
  /\ sound \in [Packages -> BOOLEAN]
  /\ beside = {} /\ hurt = {}

Handled == {r \in Packages : spc[r] # "idle"}

\* A request arrives: its zip file has been stored by upload.js.
Receive(r, kind) ==
  /\ spc[r] = "idle"
  /\ spc' = [spc EXCEPT ![r] = kind]
  /\ reply' = [reply EXCEPT ![r] = "none"]
  /\ beside' = IF Handled = {} THEN beside ELSE beside \union Handled \union {r}
  /\ UNCHANGED <<exists, installed, bin, tmp, todo, source, sound, hurt>>

GoTo(r, there) == spc' = [spc EXCEPT ![r] = there] /\ UNCHANGED reply

Answer(r, what) ==
  /\ spc' = [spc EXCEPT ![r] = "idle"]
  /\ reply' = [reply EXCEPT ![r] = what]

\* addProblem: refused when the directory exists, even the leftover of an add
\* that failed.
CheckAdd(r) ==
  /\ spc[r] = "add"
  /\ IF exists THEN Answer(r, "exists") ELSE GoTo(r, "mkdir")
  /\ UNCHANGED <<exists, installed, bin, tmp, todo, source, sound, beside, hurt>>

\* Fault: a failed extraction is taken for an empty package.
StartExtract_Nothing(r) == todo' = [todo EXCEPT ![r] = {}]

StartExtract(r) == todo' = [todo EXCEPT ![r] = Parts]

\* mkdir, then setupProblem, which finds the directory.
MakeDir(r) ==
  /\ spc[r] = "mkdir"
  /\ exists' = TRUE
  /\ StartExtract(r) /\ GoTo(r, "extract")
  /\ UNCHANGED <<installed, bin, tmp, source, sound, beside, hurt>>

CheckSetup(r) ==
  /\ spc[r] = "setup"
  /\ IF exists
     THEN StartExtract(r) /\ GoTo(r, "extract")
     ELSE Answer(r, "failed") /\ UNCHANGED todo
  /\ UNCHANGED <<exists, installed, bin, tmp, source, sound, beside, hurt>>

Extract(r, part) ==
  /\ spc[r] = "extract" /\ part \in todo[r]
  /\ tmp' = [tmp EXCEPT ![part] = r]
  /\ todo' = [todo EXCEPT ![r] = @ \ {part}]
  /\ UNCHANGED <<exists, installed, bin, spc, source, reply, sound, beside, hurt>>

\* What has been extracted stays behind.
ExtractFails(r) ==
  /\ DiskMayFail
  /\ spc[r] = "extract"
  /\ Answer(r, "failed")
  /\ hurt' = hurt \union {r}
  /\ todo' = [todo EXCEPT ![r] = {}]
  /\ UNCHANGED <<exists, installed, bin, tmp, source, sound, beside>>

\* setProblem: the easy mode copies every file it finds; no files, or none of
\* the free mode's, is an error, after which the temporary directory is removed.
SetProblem(r) ==
  /\ spc[r] = "extract" /\ todo[r] = {}
  /\ IF tmp["conf"] # Absent
     THEN /\ todo' = [todo EXCEPT ![r] = {part \in Parts : tmp[part] # Absent}]
          /\ GoTo(r, "copy")
          /\ UNCHANGED tmp
     ELSE Answer(r, "failed") /\ tmp' = Nothing /\ UNCHANGED todo
  /\ UNCHANGED <<exists, installed, bin, source, sound, beside, hurt>>

\* A part that was removed meanwhile cannot be copied. The test data are
\* several files: on the way they are a mixture.
Copy(r, part) ==
  /\ spc[r] = "copy" /\ part \in todo[r]
  /\ tmp[part] # Absent
  /\ \/ /\ part = "data" /\ installed["data"] \notin {Mixed, tmp["data"]}
        /\ installed' = [installed EXCEPT !["data"] = Mixed]
        /\ UNCHANGED todo
     \/ /\ part = "data" => installed["data"] \in {Mixed, tmp["data"]}
        /\ installed' = [installed EXCEPT ![part] = tmp[part]]
        /\ todo' = [todo EXCEPT ![r] = @ \ {part}]
  /\ UNCHANGED <<exists, bin, tmp, spc, source, reply, sound, beside, hurt>>

CopyFails(r) ==
  /\ spc[r] = "copy"
  /\ \/ /\ \E part \in todo[r] : tmp[part] = Absent
        /\ UNCHANGED hurt
     \/ DiskMayFail /\ hurt' = hurt \union {r}
  /\ tmp' = Nothing
  /\ todo' = [todo EXCEPT ![r] = {}]
  /\ Answer(r, "failed")
  /\ UNCHANGED <<exists, installed, bin, source, sound, beside>>

RemoveTmp(r) ==
  /\ spc[r] = "copy" /\ todo[r] = {}
  /\ tmp' = Nothing
  /\ GoTo(r, "read")
  /\ UNCHANGED <<exists, installed, bin, todo, source, sound, beside, hurt>>

\* The configuration that is installed by now names the checker to read.
ReadChecker(r) ==
  /\ spc[r] = "read"
  /\ IF installed["chk"] = Absent
     THEN Answer(r, "failed") /\ UNCHANGED source
     ELSE source' = [source EXCEPT ![r] = installed["chk"]] /\ GoTo(r, "compile")
  /\ UNCHANGED <<exists, installed, bin, tmp, todo, sound, beside, hurt>>

\* Fault: an error of the compiler is only logged.
CompileChecker_Ignore(r) ==
  /\ spc[r] = "compile"
  /\ IF sound[source[r]] THEN bin' = source[r] ELSE UNCHANGED bin
  /\ GoTo(r, "pack")
  /\ UNCHANGED <<exists, installed, tmp, todo, source, sound, beside, hurt>>

\* Without a compiled checker the set-up fails; an older .bin stays.
CompileChecker(r) ==
  /\ spc[r] = "compile"
  /\ IF sound[source[r]]
     THEN bin' = source[r] /\ GoTo(r, "pack")
     ELSE Answer(r, "failed") /\ UNCHANGED bin
  /\ UNCHANGED <<exists, installed, tmp, todo, source, sound, beside, hurt>>

Pack(r) ==
  /\ spc[r] = "pack"
  /\ Answer(r, "ok")
  /\ UNCHANGED <<exists, installed, bin, tmp, todo, source, sound, beside, hurt>>

CompileOrPackFails(r) ==
  /\ DiskMayFail
  /\ spc[r] \in {"compile", "pack"}
  /\ Answer(r, "failed")
  /\ hurt' = hurt \union {r}
  /\ UNCHANGED <<exists, installed, bin, tmp, todo, source, sound, beside>>

SetupStep(r) ==
  \/ CheckAdd(r) \/ MakeDir(r) \/ CheckSetup(r)
  \/ \E part \in Parts : Extract(r, part) \/ Copy(r, part)
  \/ ExtractFails(r) \/ SetProblem(r) \/ CopyFails(r) \/ RemoveTmp(r)
  \/ ReadChecker(r) \/ CompileChecker(r) \/ Pack(r) \/ CompileOrPackFails(r)

-----------------------------------------------------------------------------
(* Properties                                                              *)

SetupTypeOK ==
  /\ exists \in BOOLEAN /\ installed \in [Parts -> Versions] /\ bin \in Versions
  /\ tmp \in [Parts -> Packages \union {Absent}]
  /\ spc \in [Packages -> {"idle", "add", "mkdir", "setup", "extract", "copy", "read",
                           "compile", "pack"}]
  /\ todo \in [Packages -> SUBSET Parts]
  /\ source \in [Packages -> Versions]
  /\ \A r \in Packages : spc[r] = "compile" => source[r] \in Packages
  /\ reply \in [Packages -> {"none", "ok", "exists", "failed"}]
  /\ sound \in [Packages -> BOOLEAN]
  /\ beside \subseteq Packages /\ hurt \subseteq Packages

\* A set-up that answers "ok" without another one beside it has installed its
\* package whole, compiled its checker and no other, and left no temporary
\* files, whatever earlier set-ups of the problem have left (setupProblem).
InstalledWhole ==
  [][\A r \in Packages :
       Pack(r) /\ r \notin beside =>
         installed' = [part \in Parts |-> r] /\ bin' = r /\ tmp' = Nothing]_setupVars

\* A package whose checker compiles is installed by the first set-up that meets
\* neither a failure nor another set-up: no leftover of an earlier one makes
\* it fail (addProblem, setupProblem).
NoFailureWithoutCause ==
  \A r \in Packages : reply[r] = "failed" => ~sound[r] \/ r \in hurt \union beside
=============================================================================
