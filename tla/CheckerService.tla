--------------------------- MODULE CheckerService ---------------------------
(***************************************************************************)
(* What a job of the judge may rely on when it asks for its checker,       *)
(* whatever its neighbours do: it is given a checker of the contents it    *)
(* has read, as if it compiled one of its own (judge_engine.js, L46-166).  *)
(* Nothing here is cached, shared, awaited or evicted. What sharing does   *)
(* cost is explicit: jobs may be answered together, and a job may lose its *)
(* checker, but only when another has read other contents of its problem.  *)
(***************************************************************************)
EXTENDS Naturals

CONSTANTS
  Workers,       \* the judge's workers
  Slots,         \* the (problem, role) pairs
  Contents,      \* the contents a checker file may have
  Broken,        \* the contents that do not compile
  GoJudgeFails,  \* may a call to go-judge fail for a reason of its own?
  None           \* no file, no contents, no slot

VARIABLES
  src, bin,  \* the files of each slot on disk (None: missing)
  edits,     \* how many edits they have had
  phase,     \* how far each worker's job is
  slot,      \* the slot of the job
  read,      \* the contents it has read, with their kind
  given      \* what the checker it was given was built from (None: it is gone)

diskVars == <<src, bin, edits>>
vars == <<diskVars, phase, slot, read, given>>

Init ==
  /\ src \in [Slots -> Contents \union {None}]
  /\ bin \in [Slots -> Contents \union {None}]
  /\ edits = 0
  /\ phase = [w \in Workers |-> "idle"]
  /\ slot = [w \in Workers |-> None]
  /\ read = [w \in Workers |-> None]
  /\ given = [w \in Workers |-> None]

\* A file is replaced, never deleted.
Edit ==
  /\ edits' = edits + 1
  /\ \E s \in Slots, c \in Contents :
       \/ src' = [src EXCEPT ![s] = c] /\ UNCHANGED bin
       \/ bin' = [bin EXCEPT ![s] = c] /\ UNCHANGED src
  /\ UNCHANGED <<phase, slot, read, given>>

Ask(w, s) ==
  /\ phase[w] = "idle"
  /\ phase' = [phase EXCEPT ![w] = "asking"]
  /\ slot' = [slot EXCEPT ![w] = s]
  /\ UNCHANGED <<diskVars, read, given>>

\* The source counts only without a .bin. Between the look for the .bin and the
\* reading of the source an edit may add one.
LooksAtSource(w) == bin[slot[w]] = None \/ edits > 0

Read(w) ==
  /\ phase[w] = "asking"
  /\ phase' = [phase EXCEPT ![w] = "read"]
  /\ \/ /\ bin[slot[w]] # None
        /\ read' = [read EXCEPT ![w] = [slot |-> slot[w], kind |-> "bin", hash |-> bin[slot[w]]]]
     \/ /\ LooksAtSource(w)
        /\ src[slot[w]] # None
        /\ read' = [read EXCEPT ![w] = [slot |-> slot[w], kind |-> "src", hash |-> src[slot[w]]]]
  /\ UNCHANGED <<diskVars, slot, given>>

\* Of a source, its own checker; of a .bin, one that may be as new as the last
\* edit, for the .bin is opened again when it is uploaded.
CheckerOf(k, c) ==
  IF k.kind = "src" THEN c = k.hash /\ c \notin Broken
                    ELSE c \in Contents /\ (edits = 0 => c = k.hash)

\* Another job has read other contents of the same slot.
Outdated(v) ==
  /\ phase[v] = "given"
  /\ \E w \in Workers : phase[w] = "read" /\ slot[w] = slot[v] /\ read[w] # read[v]

\* The jobs of W, which have all read the same, are answered at once; those of
\* V lose their checkers.
Answer(W, V) ==
  /\ \A v, w \in W : read[v] = read[w]
  /\ \A v \in V : Outdated(v)
  /\ phase' = [w \in Workers |-> IF w \in W THEN "given" ELSE phase[w]]
  /\ \E c \in Contents \union {None} :
       /\ \A w \in W : phase[w] = "read" /\ CheckerOf(read[w], c)
       /\ given' = [w \in Workers |-> IF w \in W THEN c
                                      ELSE IF w \in V THEN None ELSE given[w]]
  /\ UNCHANGED <<diskVars, slot, read>>

End(W) ==
  /\ phase' = [w \in Workers |-> IF w \in W THEN "idle" ELSE phase[w]]
  /\ slot' = [w \in Workers |-> IF w \in W THEN None ELSE slot[w]]
  /\ read' = [w \in Workers |-> IF w \in W THEN None ELSE read[w]]
  /\ given' = [w \in Workers |-> IF w \in W THEN None ELSE given[w]]
  /\ UNCHANGED diskVars

\* A job ends without a checker when its problem has none, when its source does
\* not compile, or with go-judge.
NoChecker(w) ==
  /\ phase[w] = "asking"
  /\ LooksAtSource(w)
  /\ src[slot[w]] = None
  /\ End({w})

Fail(W) ==
  /\ \A w \in W :
       /\ phase[w] = "read"
       /\ GoJudgeFails \/ (read[w].kind = "src" /\ read[w].hash \in Broken)
  /\ \A v, w \in W : read[v] = read[w]
  /\ End(W)

Finish(w) ==
  /\ phase[w] = "given"
  /\ End({w})

Next ==
  \/ Edit
  \/ \E w \in Workers : (\E s \in Slots : Ask(w, s)) \/ Read(w) \/ NoChecker(w) \/ Finish(w)
  \/ \E W \in SUBSET Workers : Fail(W) \/ \E V \in SUBSET Workers : Answer(W, V)

Spec == Init /\ [][Next]_vars
=============================================================================
