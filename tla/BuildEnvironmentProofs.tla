------------------------ MODULE BuildEnvironmentProofs ------------------------
(***************************************************************************)
(* The set-up of a problem in the judge and the stage of the pipeline that *)
(* calls it, for any number of packages, rounds, restarts and solutions.   *)
(***************************************************************************)
EXTENDS BuildEnvironment, TLAPS

USE SetupAssumption, BuildAssumption

-----------------------------------------------------------------------------
(* The invariant of the judge.                                             *)

Spcs == {"idle", "add", "mkdir", "setup", "extract", "copy", "read", "compile", "pack"}

Disk ==
  /\ exists \in BOOLEAN /\ installed \in [Parts -> Versions] /\ bin \in Versions
  /\ tmp \in [Parts -> Packages \union {Absent}]
  /\ installed["chk"] # Mixed
  /\ sound \in [Packages -> BOOLEAN]

Handlers ==
  /\ spc \in [Packages -> Spcs]
  /\ todo \in [Packages -> SUBSET Parts]
  /\ source \in [Packages -> Versions]
  /\ \A r \in Packages : spc[r] = "compile" => source[r] \in Packages
  /\ reply \in [Packages -> {"none", "ok", "exists", "failed"}]
  /\ \A r \in Packages : reply[r] # "none" => spc[r] = "idle"
  /\ beside \subseteq Packages /\ hurt \subseteq Packages

\* What is installed is package r, and nothing is left in the temporary directory.
Whole(r) == \A part \in Parts : installed[part] = r /\ tmp[part] = Absent

\* How far the handler of r has come when no other runs.
Progress(r) ==
  /\ \A q \in Packages : q # r => spc[q] = "idle"
  /\ spc[r] = "extract" => \A part \in Parts \ todo[r] : tmp[part] = r
  /\ spc[r] = "copy" =>
       /\ \A part \in Parts : tmp[part] = r
       /\ \A part \in Parts \ todo[r] : installed[part] = r
  /\ spc[r] \in {"read", "compile", "pack"} => Whole(r)
  /\ spc[r] = "compile" => source[r] = r
  /\ spc[r] = "pack" => bin = r

Alone == \A r \in Packages : spc[r] # "idle" /\ r \notin beside => Progress(r)

\* Who is sent to /problem/setup will find the directory.
DirFound == \A r \in Packages : spc[r] = "setup" \/ reply[r] = "exists" => exists

SInv == Disk /\ Handlers /\ Alone /\ DirFound /\ NoFailureWithoutCause

\* A step of the judge, as its clients see it.
Served(r) == SetupStep(r) \/ Receive(r, "add") \/ (exists /\ Receive(r, "setup"))

LEMMA Numbers ==
  /\ \A r \in Packages : r # Absent /\ r # Mixed /\ r \in Versions
  /\ Absent \in Versions /\ Mixed \in Versions /\ Absent # Mixed
BY DEF Packages, Absent, Mixed, Versions

LEMMA SInit == Init => SInv
<1> SUFFICES ASSUME Init PROVE SInv
  OBVIOUS
<1> USE DEF Init, SetupInit
<1>1. Disk
  BY Numbers DEF Disk, Nothing, Parts
<1>2. Handlers
  BY Numbers DEF Handlers, Spcs
<1>3. Alone /\ DirFound /\ NoFailureWithoutCause
  BY DEF Alone, DirFound, NoFailureWithoutCause
<1>4. QED
  BY <1>1, <1>2, <1>3 DEF SInv

LEMMA DiskStep ==
  ASSUME SInv, NEW r \in Packages, Served(r)
  PROVE  Disk'
<1> USE DEF SInv, Disk, GoTo, Answer, Nothing, StartExtract
<1>1. CASE CheckAdd(r)
  BY <1>1, Numbers DEF CheckAdd
<1>2. CASE MakeDir(r)
  BY <1>2, Numbers DEF MakeDir
<1>3. CASE CheckSetup(r)
  BY <1>3, Numbers DEF CheckSetup
<1>4. CASE ExtractFails(r)
  BY <1>4, Numbers DEF ExtractFails
<1>5. CASE SetProblem(r)
  BY <1>5, Numbers DEF SetProblem
<1>6. CASE CopyFails(r)
  BY <1>6, Numbers DEF CopyFails
<1>7. CASE RemoveTmp(r)
  BY <1>7, Numbers DEF RemoveTmp
<1>8. CASE ReadChecker(r)
  BY <1>8, Numbers DEF ReadChecker
<1>9. CASE CompileChecker(r)
  BY <1>9, Numbers DEF CompileChecker, Handlers
<1>10. CASE Pack(r)
  BY <1>10, Numbers DEF Pack
<1>11. CASE CompileOrPackFails(r)
  BY <1>11, Numbers DEF CompileOrPackFails
<1>12. ASSUME NEW part \in Parts, Extract(r, part) PROVE Disk'
  BY <1>12, Numbers DEF Extract
<1>13. ASSUME NEW part \in Parts, Copy(r, part) PROVE Disk'
  <2>1. part \in Parts /\ tmp[part] \in Packages
    BY <1>13 DEF Copy, Packages, Absent
  <2>2. installed' \in [Parts -> Versions]
    BY <1>13, <2>1, Numbers DEF Copy
  <2>3. installed'["chk"] # Mixed
    BY <1>13, <2>1, Numbers DEF Copy, Parts
  <2>4. QED
    BY <1>13, <2>2, <2>3 DEF Copy
<1>14. CASE Receive(r, "add") \/ (exists /\ Receive(r, "setup"))
  BY <1>14 DEF Receive
<1>15. QED
  BY <1>1, <1>2, <1>3, <1>4, <1>5, <1>6, <1>7, <1>8, <1>9, <1>10, <1>11, <1>12, <1>13, <1>14
     DEF Served, SetupStep

LEMMA HandlersStep ==
  ASSUME SInv, NEW r \in Packages, Served(r)
  PROVE  Handlers'
<1> USE DEF SInv, Disk, Handlers, GoTo, Answer, Spcs, Parts, StartExtract
<1>1. CASE CheckAdd(r)
  BY <1>1, Numbers DEF CheckAdd
<1>2. CASE MakeDir(r)
  BY <1>2, Numbers DEF MakeDir
<1>3. CASE CheckSetup(r)
  BY <1>3, Numbers DEF CheckSetup
<1>4. CASE ExtractFails(r)
  BY <1>4, Numbers DEF ExtractFails
<1>5. CASE SetProblem(r)
  BY <1>5, Numbers DEF SetProblem
<1>6. CASE CopyFails(r)
  BY <1>6, Numbers DEF CopyFails
<1>7. CASE RemoveTmp(r)
  BY <1>7, Numbers DEF RemoveTmp
<1>8. CASE ReadChecker(r)
  <2>1. installed["chk"] # Absent => installed["chk"] \in Packages
    BY DEF Parts, Versions, Packages, Absent, Mixed
  <2>2. QED
    BY <1>8, <2>1, Numbers DEF ReadChecker
<1>9. CASE CompileChecker(r)
  BY <1>9, Numbers DEF CompileChecker
<1>10. CASE Pack(r)
  BY <1>10, Numbers DEF Pack
<1>11. CASE CompileOrPackFails(r)
  BY <1>11, Numbers DEF CompileOrPackFails
<1>12. ASSUME NEW part \in Parts, Extract(r, part) PROVE Handlers'
  BY <1>12, Numbers DEF Extract
<1>13. ASSUME NEW part \in Parts, Copy(r, part) PROVE Handlers'
  BY <1>13, Numbers DEF Copy
<1>14. CASE Receive(r, "add") \/ (exists /\ Receive(r, "setup"))
  BY <1>14 DEF Receive, Handled
<1>15. QED
  BY <1>1, <1>2, <1>3, <1>4, <1>5, <1>6, <1>7, <1>8, <1>9, <1>10, <1>11, <1>12, <1>13, <1>14
     DEF Served, SetupStep

LEMMA DirStep ==
  ASSUME SInv, NEW r \in Packages, Served(r)
  PROVE  DirFound'
<1> USE DEF SInv, Disk, Handlers, DirFound, GoTo, Answer
<1>1. CASE CheckAdd(r)
  BY <1>1, Numbers DEF CheckAdd
<1>2. CASE MakeDir(r)
  BY <1>2, Numbers DEF MakeDir
<1>3. CASE CheckSetup(r)
  BY <1>3, Numbers DEF CheckSetup
<1>4. CASE ExtractFails(r)
  BY <1>4, Numbers DEF ExtractFails
<1>5. CASE SetProblem(r)
  BY <1>5, Numbers DEF SetProblem
<1>6. CASE CopyFails(r)
  BY <1>6, Numbers DEF CopyFails
<1>7. CASE RemoveTmp(r)
  BY <1>7, Numbers DEF RemoveTmp
<1>8. CASE ReadChecker(r)
  BY <1>8, Numbers DEF ReadChecker
<1>9. CASE CompileChecker(r)
  BY <1>9, Numbers DEF CompileChecker
<1>10. CASE Pack(r)
  BY <1>10, Numbers DEF Pack
<1>11. CASE CompileOrPackFails(r)
  BY <1>11, Numbers DEF CompileOrPackFails
<1>12. ASSUME NEW part \in Parts, Extract(r, part) PROVE DirFound'
  BY <1>12, Numbers DEF Extract
<1>13. ASSUME NEW part \in Parts, Copy(r, part) PROVE DirFound'
  BY <1>13, Numbers DEF Copy
<1>14. CASE Receive(r, "add") \/ (exists /\ Receive(r, "setup"))
  BY <1>14 DEF Receive, Handled
<1>15. QED
  BY <1>1, <1>2, <1>3, <1>4, <1>5, <1>6, <1>7, <1>8, <1>9, <1>10, <1>11, <1>12, <1>13, <1>14
     DEF Served, SetupStep

LEMMA CauseStep ==
  ASSUME SInv, NEW r \in Packages, Served(r)
  PROVE  NoFailureWithoutCause'
<1> USE DEF SInv, Disk, Handlers, NoFailureWithoutCause, GoTo, Answer, Spcs
<1>1. CASE CheckAdd(r)
  BY <1>1, Numbers DEF CheckAdd
<1>2. CASE MakeDir(r)
  BY <1>2, Numbers DEF MakeDir
<1>3. CASE CheckSetup(r)
  BY <1>3 DEF CheckSetup, DirFound
<1>4. CASE ExtractFails(r)
  BY <1>4, Numbers DEF ExtractFails
<1>5. CASE SetProblem(r)
  <2>1. r \notin beside => tmp["conf"] # Absent
    BY <1>5, Numbers DEF SetProblem, Alone, Progress, Parts
  <2>2. QED
    BY <1>5, <2>1 DEF SetProblem
<1>6. CASE CopyFails(r)
  <2>1. r \notin beside => \A part \in Parts : tmp[part] # Absent
    BY <1>6, Numbers DEF CopyFails, Alone, Progress
  <2>2. QED
    BY <1>6, <2>1 DEF CopyFails
<1>7. CASE RemoveTmp(r)
  BY <1>7, Numbers DEF RemoveTmp
<1>8. CASE ReadChecker(r)
  <2>1. r \notin beside => installed["chk"] # Absent
    BY <1>8, Numbers DEF ReadChecker, Alone, Progress, Whole, Parts
  <2>2. QED
    BY <1>8, <2>1 DEF ReadChecker
<1>9. CASE CompileChecker(r)
  <2>1. r \notin beside => source[r] = r
    BY <1>9 DEF CompileChecker, Alone, Progress
  <2>2. QED
    BY <1>9, <2>1 DEF CompileChecker
<1>10. CASE Pack(r)
  BY <1>10, Numbers DEF Pack
<1>11. CASE CompileOrPackFails(r)
  BY <1>11, Numbers DEF CompileOrPackFails
<1>12. ASSUME NEW part \in Parts, Extract(r, part) PROVE NoFailureWithoutCause'
  BY <1>12, Numbers DEF Extract
<1>13. ASSUME NEW part \in Parts, Copy(r, part) PROVE NoFailureWithoutCause'
  BY <1>13, Numbers DEF Copy
<1>14. CASE Receive(r, "add") \/ (exists /\ Receive(r, "setup"))
  BY <1>14 DEF Receive, Handled
<1>15. QED
  BY <1>1, <1>2, <1>3, <1>4, <1>5, <1>6, <1>7, <1>8, <1>9, <1>10, <1>11, <1>12, <1>13, <1>14
     DEF Served, SetupStep

\* Handlers that run beside each other are all known to do so; so one that is not
\* among them runs alone, and what it does is what it alone does.
LEMMA AloneStep ==
  ASSUME SInv, NEW r \in Packages, Served(r)
  PROVE  Alone'
<1> SUFFICES ASSUME NEW p \in Packages, spc'[p] # "idle", p \notin beside'
             PROVE  Progress(p)'
  BY DEF Alone
<1> USE DEF SInv, Disk, Handlers, GoTo, Answer, Spcs
<1>a. CASE SetupStep(r)
  <2>0. spc[r] # "idle" /\ beside' = beside /\ \A q \in Packages \ {r} : spc'[q] = spc[q]
    BY <1>a DEF SetupStep, CheckAdd, MakeDir, CheckSetup, Extract, Copy, ExtractFails, SetProblem,
       CopyFails, RemoveTmp, ReadChecker, CompileChecker, Pack, CompileOrPackFails
  <2>r. p = r /\ Progress(r)
    BY <2>0 DEF Alone, Progress
  <2>q. \A q \in Packages : q # r => spc'[q] = "idle"
    BY <2>0, <2>r DEF Progress
  <2> USE DEF Progress
  <2>1. CASE CheckAdd(r)
    BY <2>1, <2>r, <2>q, Numbers DEF CheckAdd
  <2>2. CASE MakeDir(r)
    BY <2>2, <2>r, <2>q, Numbers DEF MakeDir, StartExtract
  <2>3. CASE CheckSetup(r)
    BY <2>3, <2>r, <2>q, Numbers DEF CheckSetup, StartExtract
  <2>4. CASE ExtractFails(r)
    BY <2>4, <2>r, <2>q, Numbers DEF ExtractFails
  <2>5. CASE SetProblem(r)
    BY <2>5, <2>r, <2>q, Numbers DEF SetProblem, Parts
  <2>6. CASE CopyFails(r)
    BY <2>6, <2>r, <2>q, Numbers DEF CopyFails
  <2>7. CASE RemoveTmp(r)
    BY <2>7, <2>r, <2>q, Numbers DEF RemoveTmp, Whole, Nothing
  <2>8. CASE ReadChecker(r)
    BY <2>8, <2>r, <2>q, Numbers DEF ReadChecker, Whole, Parts
  <2>9. CASE CompileChecker(r)
    BY <2>9, <2>r, <2>q, Numbers DEF CompileChecker, Whole
  <2>10. CASE Pack(r)
    BY <2>10, <2>r, <2>q, Numbers DEF Pack
  <2>11. CASE CompileOrPackFails(r)
    BY <2>11, <2>r, <2>q, Numbers DEF CompileOrPackFails
  <2>12. ASSUME NEW part \in Parts, Extract(r, part) PROVE Progress(p)'
    BY <2>12, <2>r, <2>q, Numbers DEF Extract, Parts
  <2>13. ASSUME NEW part \in Parts, Copy(r, part) PROVE Progress(p)'
    BY <2>13, <2>r, <2>q, Numbers DEF Copy, Parts
  <2>14. QED
    BY <1>a, <2>1, <2>2, <2>3, <2>4, <2>5, <2>6, <2>7, <2>8, <2>9, <2>10, <2>11, <2>12, <2>13
       DEF SetupStep
<1>b. ASSUME NEW kind \in {"add", "setup"}, Receive(r, kind) PROVE Progress(p)'
  <2>1. Handled = {} /\ p = r
    <3>1. spc[p] # "idle" \/ p = r
      BY <1>b DEF Receive
    <3>2. Handled = {}
      BY <1>b, <3>1 DEF Receive, Handled
    <3>3. QED
      BY <3>1, <3>2 DEF Handled
  <2>2. \A q \in Packages : spc[q] = "idle"
    BY <2>1 DEF Handled
  <2>3. spc'[r] = kind /\ \A q \in Packages : q # r => spc'[q] = "idle"
    BY <1>b, <2>2 DEF Receive
  <2>4. QED
    BY <1>b, <2>1, <2>3 DEF Progress
<1>c. QED
  BY <1>a, <1>b DEF Served

LEMMA SStep ==
  ASSUME SInv, NEW r \in Packages, Served(r)
  PROVE  SInv'
<1>1. QED
  BY DiskStep, HandlersStep, DirStep, CauseStep, AloneStep DEF SInv

LEMMA SStutter == SInv /\ UNCHANGED setupVars => SInv'
<1> SUFFICES ASSUME SInv, UNCHANGED setupVars PROVE SInv'
  OBVIOUS
<1> USE DEF SInv, setupVars
<1>1. Disk' /\ DirFound' /\ NoFailureWithoutCause'
  BY DEF Disk, DirFound, NoFailureWithoutCause
<1>2. Handlers'
  BY DEF Handlers
<1>3. Alone'
  BY DEF Alone, Progress, Whole
<1>4. QED
  BY <1>1, <1>2, <1>3

-----------------------------------------------------------------------------
(* The invariant of the client.                                            *)

Phases == {"write", "add", "setup", "run", "validated", "discarded", "dead"}

Counters ==
  /\ phase \in Phases
  /\ package \in Packages /\ rounds \in 1 .. MaxRounds
  /\ next \in 1 .. NSolutions + 1
  /\ checkerErrors \in BOOLEAN

\* The rows and their indices.
RowsKept ==
  /\ matrix \in Seq(Rows) /\ kept \in Seq(Solutions)
  /\ Len(matrix) = Len(kept)
  /\ \A i \in 1 .. Len(kept) : kept[i] < next
  /\ \A i, j \in 1 .. Len(kept) : i < j => kept[i] < kept[j]

Trying == {"run", "validated"}

\* Nobody else is at the package that is being installed, or has been.
Current ==
  /\ phase \in {"add", "setup"} \union Trying /\ package \notin beside =>
       \A q \in Packages : q # package => spc[q] = "idle"
  /\ phase \in Trying => reply[package] = "ok"
  /\ phase \in {"add", "setup"} \union Trying /\ package \notin beside /\ reply[package] = "ok" =>
       Whole(package) /\ bin = package

\* The runs so far were judged with the package.
Judged ==
  /\ matrix # <<>> => against # {}
  /\ phase = "validated" => matrix # <<>>
  /\ phase \notin Trying => against = {}
  /\ phase \in Trying /\ package \notin beside =>
       against \subseteq {[conf |-> package, bin |-> package, data |-> package]}

CInv == Counters /\ RowsKept /\ Current /\ Judged

Inv == SInv /\ CInv

LEMMA CInit == Init => CInv
<1> SUFFICES ASSUME Init PROVE CInv
  OBVIOUS
<1> USE DEF Init
<1>1. Counters
  <2>1. checkerErrors \in BOOLEAN
    OBVIOUS
  <2>2. QED
    BY <2>1 DEF Counters, Phases, Packages, Solutions
<1>2. RowsKept
  BY DEF RowsKept
<1>3. Current /\ Judged
  BY DEF Current, Judged, Trying
<1>4. QED
  BY <1>1, <1>2, <1>3 DEF CInv

\* Between the rounds nothing is kept.
LEMMA RoundStarts ==
  ASSUME Inv, NothingRun, phase' \in {"write", "discarded", "dead"},
         package' \in Packages, rounds' \in 1 .. MaxRounds
  PROVE  CInv'
<1> USE DEF NothingRun
<1>1. Counters'
  <2>1. checkerErrors' \in BOOLEAN
    OBVIOUS
  <2>2. next' \in 1 .. NSolutions + 1
    OBVIOUS
  <2>3. QED
    BY <2>1, <2>2 DEF Counters, Phases
<1>2. RowsKept'
  BY DEF RowsKept
<1>3. Current' /\ Judged'
  BY DEF Current, Judged, Trying
<1>4. QED
  BY <1>1, <1>2, <1>3 DEF CInv

LEMMA RoundEnds ==
  ASSUME Inv, NextRound
  PROVE  CInv'
<1>1. NothingRun /\ phase' \in {"write", "discarded"}
  BY DEF NextRound
<1>2. package' \in Packages /\ rounds' \in 1 .. MaxRounds
  BY DEF NextRound, Inv, CInv, Counters, Packages
<1>3. QED
  BY <1>1, <1>2, RoundStarts

\* The client waits while the judge receives its request.
LEMMA Requested ==
  ASSUME Inv, NEW kind \in {"add", "setup"}, Receive(package, kind), phase \notin Trying,
         phase' = kind, UNCHANGED <<package, rounds, runVars>>
  PROVE  CInv'
<1> USE DEF Inv, CInv, runVars
<1>1. Counters' /\ RowsKept'
  BY DEF Counters, RowsKept, Phases
<1>2. reply'[package] = "none"
  BY DEF Receive, SInv, Handlers, Counters
<1>3. package \notin beside' => \A q \in Packages : q # package => spc'[q] = "idle"
  BY DEF Receive, Handled, SInv, Handlers, Counters
<1>4. Current' /\ Judged'
  BY <1>2, <1>3 DEF Current, Judged, Trying
<1>5. QED
  BY <1>1, <1>4

\* The judge goes on while the client waits: with its package, or with one it has
\* given up, beside which it runs then.
LEMMA JudgeGoesOn ==
  ASSUME Inv, NEW r \in Packages, JudgeStep(r)
  PROVE  CInv'
<1> USE DEF Inv, CInv, JudgeStep, buildVars
<1>1. Counters' /\ RowsKept'
  BY DEF Counters, RowsKept
<1>2. /\ spc[r] # "idle" /\ beside' = beside
      /\ \A q \in Packages \ {r} : spc'[q] = spc[q] /\ reply'[q] = reply[q]
      /\ reply'[r] = "ok" => reply[r] = "ok" \/ Pack(r)
  BY DEF SInv, Handlers, GoTo, Answer, SetupStep, CheckAdd, MakeDir, CheckSetup, Extract, Copy,
     ExtractFails, SetProblem, CopyFails, RemoveTmp, ReadChecker, CompileChecker, Pack,
     CompileOrPackFails
<1>3. Current'
  <2>1. package \in Packages
    BY DEF Counters
  <2>2. reply[r] = "none"
    BY <1>2 DEF SInv, Handlers
  <2>3. CASE phase \in {"add", "setup"} \union Trying /\ package \notin beside
    <3>1. r = package /\ phase \notin Trying
      BY <1>2, <2>1, <2>2, <2>3 DEF Current
    <3>2. reply'[package] = "ok" => Whole(package)' /\ (bin = package)'
      BY <1>2, <2>2, <2>3, <3>1 DEF Pack, SInv, Alone, Progress, Whole
    <3>3. QED
      BY <1>2, <2>1, <2>3, <3>1, <3>2 DEF Current, Trying
  <2>4. CASE phase \in Trying /\ package \in beside
    BY <1>2, <2>1, <2>2, <2>4 DEF Current, Trying
  <2>5. QED
    BY <1>2, <2>3, <2>4 DEF Current, Trying
<1>4. Judged'
  BY <1>2 DEF Judged
<1>5. QED
  BY <1>1, <1>3, <1>4

LEMMA RunsScored ==
  ASSUME Inv, RunScored
  PROVE  CInv'
<1> USE DEF Inv, CInv, RunScored, setupVars
<1>1. Counters'
  BY DEF Counters, Phases, Solutions
<1>2. RowsKept'
  <2>1. next \in Solutions /\ matrix \in Seq(Rows) /\ kept \in Seq(Solutions)
    BY DEF RowsKept
  <2>2. PICK row \in Rows : matrix' = Append(matrix, row)
    OBVIOUS
  <2>3. matrix' \in Seq(Rows) /\ Len(matrix') = Len(matrix) + 1
    BY <2>1, <2>2
  <2>4. /\ kept' \in Seq(Solutions) /\ Len(kept') = Len(kept) + 1 /\ kept'[Len(kept) + 1] = next
        /\ \A i \in 1 .. Len(kept) : kept'[i] = kept[i]
    BY <2>1
  <2>5. Len(kept) \in Nat /\ next \in Nat /\ next' = next + 1 /\ \A i \in 1 .. Len(kept) : kept[i] \in Nat
    BY <2>1 DEF Solutions
  <2>6. \A i \in 1 .. Len(kept') : kept'[i] < next'
    BY <2>4, <2>5 DEF RowsKept
  <2>7. \A i, j \in 1 .. Len(kept') : i < j => kept'[i] < kept'[j]
    BY <2>4, <2>5 DEF RowsKept
  <2>8. QED
    BY <2>3, <2>4, <2>6, <2>7 DEF RowsKept
<1>3. Current'
  BY DEF Current, Whole
<1>4. Judged'
  <2>1. against' # {}
    OBVIOUS
  <2>2. package \notin beside => View = [conf |-> package, bin |-> package, data |-> package]
    BY DEF Current, Trying, View, Whole, Parts
  <2>3. QED
    BY <2>1, <2>2 DEF Judged, Trying
<1>5. QED
  BY <1>1, <1>2, <1>3, <1>4

\* The steps of the client that change none of what was run.
LEMMA Goes ==
  ASSUME Inv, UNCHANGED <<setupVars, package, rounds, matrix, kept, against>>,
         next' \in 1 .. NSolutions + 1, next <= next', checkerErrors' \in BOOLEAN,
         \/ phase' = phase
         \/ phase = "run" /\ phase' = "validated" /\ matrix # <<>>
         \/ phase \in {"add", "setup"} /\ phase' = "run" /\ Installed
  PROVE  CInv'
<1> USE DEF Inv, CInv, setupVars
<1>1. Counters'
  BY DEF Counters, Phases
<1>2. RowsKept'
  <2>1. \A i \in 1 .. Len(kept) : kept[i] \in Nat
    BY DEF RowsKept, Solutions
  <2>2. next \in Nat /\ next' \in Nat
    BY DEF Counters
  <2>3. \A i \in 1 .. Len(kept) : kept[i] < next'
    BY <2>1, <2>2 DEF RowsKept
  <2>4. QED
    BY <2>3 DEF RowsKept
<1>3. Current'
  BY DEF Current, Trying, Installed, Whole
<1>4. Judged'
  BY DEF Judged, Trying
<1>5. QED
  BY <1>1, <1>2, <1>3, <1>4

LEMMA InvStep == Inv /\ [Next]_vars => Inv'
<1> SUFFICES ASSUME Inv, [Next]_vars PROVE Inv'
  OBVIOUS
<1>p. package \in Packages
  BY DEF Inv, CInv, Counters
<1>1. CASE UNCHANGED vars
  <2>1. SInv'
    BY <1>1, SStutter DEF vars, Inv
  <2>2. UNCHANGED <<setupVars, buildVars>>
    BY <1>1 DEF vars
  <2>3. Inv /\ UNCHANGED <<setupVars, package, rounds, matrix, kept, against>> /\ phase' = phase
    BY <2>2 DEF buildVars
  <2>4. /\ next' \in 1 .. NSolutions + 1 /\ next <= next' /\ checkerErrors' \in BOOLEAN
    BY <2>2 DEF buildVars, Inv, CInv, Counters
  <2>5. CInv'
    BY <2>3, <2>4, Goes
  <2>6. QED
    BY <2>1, <2>5 DEF Inv
<1>2. ASSUME NEW r \in Packages, JudgeStep(r) PROVE Inv'
  BY <1>2, SStep, JudgeGoesOn DEF JudgeStep, Served, Inv
<1>3. ASSUME UNCHANGED setupVars, CInv' PROVE Inv'
  BY <1>3, SStutter DEF Inv
<1>4. CASE WriteNothing
  BY <1>3, <1>4, RoundEnds DEF WriteNothing
<1>5. CASE AddProblem
  <2>1. Receive(package, "add") /\ phase' = "add" /\ UNCHANGED <<package, rounds, runVars>>
    BY <1>5 DEF AddProblem
  <2>2. phase \notin Trying
    BY <1>5 DEF AddProblem, Trying
  <2>3. SInv'
    BY <1>p, <2>1, SStep DEF Served, Inv
  <2>4. CInv'
    BY <2>1, <2>2, Requested
  <2>5. QED
    BY <2>3, <2>4 DEF Inv
<1>6. CASE AddAnswered
  <2>1. Receive(package, "setup") /\ phase' = "setup" /\ UNCHANGED <<package, rounds, runVars>>
    BY <1>6 DEF AddAnswered
  <2>2. phase \notin Trying /\ exists
    BY <1>6, <1>p DEF AddAnswered, Trying, Inv, SInv, DirFound
  <2>3. SInv'
    BY <1>p, <2>1, <2>2, SStep DEF Served, Inv
  <2>4. CInv'
    BY <2>1, <2>2, Requested
  <2>5. QED
    BY <2>3, <2>4 DEF Inv
<1>7. CASE InstallEnds
  <2>1. CASE Installed
    <3>1. /\ phase \in {"add", "setup"} /\ phase' = "run"
          /\ UNCHANGED <<setupVars, package, rounds, runVars>>
      BY <1>7, <2>1 DEF InstallEnds
    <3>2. /\ UNCHANGED <<setupVars, package, rounds, matrix, kept, against>>
          /\ next' \in 1 .. NSolutions + 1 /\ next <= next' /\ checkerErrors' \in BOOLEAN
      BY <3>1 DEF runVars, Inv, CInv, Counters
    <3>3. CInv'
      BY <2>1, <3>1, <3>2, Goes
    <3>4. QED
      BY <1>3, <3>1, <3>3
  <2>2. CASE ~Installed
    BY <1>3, <1>7, <2>2, RoundEnds DEF InstallEnds
  <2>3. QED
    BY <2>1, <2>2
<1>8. CASE InstallTimesOut
  BY <1>3, <1>8, RoundEnds DEF InstallTimesOut
<1>9. CASE RunScored
  BY <1>3, <1>9, RunsScored DEF RunScored
<1>10. CASE RunNotCompiled \/ RunErrors
  <2>1. /\ UNCHANGED <<setupVars, phase, package, rounds, matrix, kept, against>>
        /\ next \in Solutions /\ next' = next + 1 /\ checkerErrors' \in {TRUE, checkerErrors}
    BY <1>10 DEF RunNotCompiled, RunErrors
  <2>2. next' \in 1 .. NSolutions + 1 /\ next <= next'
    BY <2>1 DEF Solutions, Inv, CInv, Counters
  <2>3. checkerErrors' \in BOOLEAN
    <3>1. checkerErrors \in BOOLEAN /\ checkerErrors' \in {TRUE, checkerErrors}
      BY <2>1 DEF Inv, CInv, Counters
    <3>2. QED
      BY <3>1, Zenon
  <2>4. CInv'
    BY <2>1, <2>2, <2>3, Goes
  <2>5. QED
    BY <1>3, <2>1, <2>4
<1>11. CASE CrossValidate
  <2>1. CASE Valid
    <3>1. /\ phase = "run" /\ phase' = "validated" /\ matrix # <<>>
          /\ UNCHANGED <<setupVars, package, rounds, runVars>>
      BY <1>11, <2>1 DEF CrossValidate, Valid
    <3>2. /\ UNCHANGED <<setupVars, package, rounds, matrix, kept, against>>
          /\ next' \in 1 .. NSolutions + 1 /\ next <= next' /\ checkerErrors' \in BOOLEAN
      BY <3>1 DEF runVars, Inv, CInv, Counters
    <3>3. CInv'
      BY <3>1, <3>2, Goes
    <3>4. QED
      BY <1>3, <3>1, <3>3
  <2>2. CASE ~Valid
    BY <1>3, <1>11, <2>2, RoundEnds DEF CrossValidate
  <2>3. QED
    BY <2>1, <2>2
<1>12. CASE Die
  <2>1. NothingRun /\ phase' = "dead" /\ UNCHANGED <<setupVars, package, rounds>>
    BY <1>12 DEF Die
  <2>2. package' \in Packages /\ rounds' \in 1 .. MaxRounds
    BY <2>1 DEF Inv, CInv, Counters
  <2>3. QED
    BY <1>3, <2>1, <2>2, RoundStarts
<1>13. CASE Restart
  <2>1. /\ phase = "dead" /\ phase' = "write" /\ rounds' = 1
        /\ package < MaxRequests /\ package' = package + 1
        /\ UNCHANGED <<setupVars, next, matrix, kept, checkerErrors, against>>
    BY <1>13 DEF Restart, runVars
  <2>2. Counters'
    BY <2>1 DEF Inv, CInv, Counters, Phases, Packages
  <2>3. RowsKept'
    BY <2>1 DEF Inv, CInv, RowsKept
  <2>4. Current' /\ Judged'
    BY <2>1 DEF Inv, CInv, Current, Judged, Trying
  <2>5. QED
    BY <1>3, <2>1, <2>2, <2>3, <2>4 DEF CInv
<1>14. QED
  BY <1>1, <1>2, <1>4, <1>5, <1>6, <1>7, <1>8, <1>9, <1>10, <1>11, <1>12, <1>13
     DEF Next, ClientStep

LEMMA Invariance == Spec => []Inv
<1>1. Init => Inv
  BY SInit, CInit DEF Inv
<1>2. QED
  BY <1>1, InvStep, PTL DEF Spec

-----------------------------------------------------------------------------
(* The theorems.                                                           *)

\* Every variable has its type, and the rows that are kept belong to distinct
\* solutions in order (_run_solutions).
THEOREM TypeCorrect == Spec => []TypeOK
<1>1. Inv => TypeOK
  <2> SUFFICES ASSUME Inv PROVE TypeOK
    OBVIOUS
  <2> USE DEF Inv, SInv, CInv
  <2>1. SetupTypeOK
    BY DEF SetupTypeOK, Disk, Handlers, Spcs
  <2>2. QED
    BY <2>1 DEF TypeOK, Counters, Phases, RowsKept
<1>2. QED
  BY <1>1, Invariance, PTL

\* A set-up that answers "ok" without another one beside it has installed its
\* package whole and compiled its checker (setupProblem).
THEOREM InstalledWholeHolds == Spec => InstalledWhole
<1>1. Inv /\ [Next]_vars =>
        [\A r \in Packages :
           Pack(r) /\ r \notin beside =>
             installed' = [part \in Parts |-> r] /\ bin' = r /\ tmp' = Nothing]_setupVars
  <2> SUFFICES ASSUME Inv, NEW r \in Packages, Pack(r), r \notin beside
               PROVE  installed' = [part \in Parts |-> r] /\ bin' = r /\ tmp' = Nothing
    OBVIOUS
  <2>1. Whole(r) /\ bin = r /\ UNCHANGED <<installed, bin, tmp>>
    BY DEF Inv, SInv, Alone, Progress, Pack
  <2>2. installed \in [Parts -> Versions] /\ tmp \in [Parts -> Packages \union {Absent}]
    BY DEF Inv, SInv, Disk
  <2>3. QED
    BY <2>1, <2>2 DEF Whole, Nothing
<1>2. QED
  BY <1>1, Invariance, PTL DEF Spec, InstalledWhole

\* No leftover of an earlier set-up makes a good package fail that met neither a
\* failure nor another set-up (addProblem, setupProblem).
THEOREM NoFailureWithoutCauseHolds == Spec => []NoFailureWithoutCause
<1>1. Inv => NoFailureWithoutCause
  BY DEF Inv, SInv
<1>2. QED
  BY <1>1, Invariance, PTL

\* A validated candidate was scored with what it is written with (_build_one).
THEOREM JudgedAsBuiltHolds == Spec => []JudgedAsBuilt
<1>1. Inv => JudgedAsBuilt
  BY DEF Inv, CInv, Judged, Trying, JudgedAsBuilt
<1>2. QED
  BY <1>1, Invariance, PTL
=============================================================================
