-------------------------- MODULE JudgeEngineProofs --------------------------
(***************************************************************************)
(* The safety of the judge engine, and that it implements JudgeService,    *)
(* for any number of submissions, workers, resets and crashes.             *)
(***************************************************************************)
EXTENDS JudgeEngine, FiniteSetTheorems, TLAPS

\* How many ids have been given out: no counter, and nothing of the counter file,
\* is beyond it.
Given == Cardinality({s \in Subs : sid[s] # None})

Counted ==
  /\ counter # None => counter <= Given
  /\ counterRead # None => counterRead <= Given
  /\ counterFile <= Given
  /\ \A n \in counterWrites : n <= Given

\* What the phase of a submission, and of a worker, says of its other variables.
Early == {"new", "counter", "mkdir"}
Owning == {"mkdir", "source", "writing", "meta", "polling", "answered"}

Placed ==
  /\ \A s \in Subs :
       /\ phase[s] \in {"new", "counter"} => sid[s] = None
       /\ phase[s] \in Owning => sid[s] # None
       /\ phase[s] = "counter" /\ counterRead = None => counter # None
  /\ \A w \in Workers : wpc[w] = "idle" <=> job[w] = None

TInv == TypeOK /\ Counted /\ Placed

USE EngineAssumption, NoneAssumption

-----------------------------------------------------------------------------
(* Lemmas about the queue and about the ids that are given out.            *)

\* Appending keeps what is in the queue, in its place.
LEMMA AppendKeeps ==
  ASSUME NEW S, NEW q \in Seq(S), NEW x \in S
  PROVE  /\ Append(q, x) \in Seq(S)
         /\ DOMAIN Append(q, x) = 1 .. Len(q) + 1
         /\ DOMAIN q = 1 .. Len(q) /\ Len(q) \in Nat
         /\ \A i \in DOMAIN q : q[i] \in S /\ Append(q, x)[i] = q[i]
         /\ Append(q, x)[Len(q) + 1] = x
OBVIOUS

\* Taking the head moves the rest one place to the front.
LEMMA TailKeeps ==
  ASSUME NEW S, NEW q \in Seq(S), q # <<>>
  PROVE  /\ Tail(q) \in Seq(S) /\ Head(q) \in S
         /\ 1 \in DOMAIN q /\ Head(q) = q[1]
         /\ Len(q) \in Nat /\ DOMAIN q = 1 .. Len(q)
         /\ \A i \in DOMAIN Tail(q) : i + 1 \in DOMAIN q /\ Tail(q)[i] = q[i + 1]
         /\ \A i \in DOMAIN q : i = 1 \/ (i - 1 \in DOMAIN Tail(q) /\ Tail(q)[i - 1] = q[i])
OBVIOUS

\* The ids that are given are fewer than the submissions, as long as one has none.
LEMMA GivenBound ==
  ASSUME TypeOK
  PROVE  /\ Given \in Nat /\ Cardinality(Subs) \in Nat /\ Given <= Cardinality(Subs)
         /\ \A s \in Subs : sid[s] = None => Given + 1 <= Cardinality(Subs)
<1> DEFINE G == {s \in Subs : sid[s] # None}
<1>1. IsFiniteSet(Subs) /\ Cardinality(Subs) \in Nat
  BY FS_CardinalityType
<1>2. IsFiniteSet(G) /\ Cardinality(G) \in Nat /\ Cardinality(G) <= Cardinality(Subs)
  BY <1>1, FS_Subset, FS_CardinalityType
<1>3. ASSUME NEW s \in Subs, sid[s] = None PROVE Cardinality(G) + 1 <= Cardinality(Subs)
  <2>1. s \notin G
    BY <1>3
  <2>2. Cardinality(G \union {s}) = Cardinality(G) + 1
    BY <1>2, <2>1, FS_AddElement
  <2>3. Cardinality(G \union {s}) <= Cardinality(Subs)
    BY <1>1, FS_Subset
  <2>4. QED
    BY <1>1, <1>2, <2>2, <2>3
<1>4. QED
  BY <1>1, <1>2, <1>3 DEF Given

\* Giving an id raises the number of those given by one.
LEMMA GiveOne ==
  ASSUME TypeOK, NEW s \in Subs, sid[s] = None, NEW i \in Sids, sid' = [sid EXCEPT ![s] = i]
  PROVE  Given' = Given + 1
<1> DEFINE G == {t \in Subs : sid[t] # None}
<1>1. {t \in Subs : sid'[t] # None} = G \union {s}
  BY DEF TypeOK
<1>2. IsFiniteSet(G) /\ s \notin G
  BY FS_Subset
<1>3. Cardinality(G \union {s}) = Cardinality(G) + 1
  BY <1>2, FS_AddElement
<1>4. QED
  BY <1>1, <1>3 DEF Given

-----------------------------------------------------------------------------
(* The type invariant.                                                     *)

\* What a worker publishes is a result, under the id of its job.
LEMMA PublishTyped ==
  ASSUME TInv, NEW w \in Workers, job[w] # None, NEW st \in {"done", "error"}, Publish(w, st)
  PROVE  results' \in [Sids -> Result \union {None}]
<1>1. job[w] \in Job
  BY DEF TInv, TypeOK
<1>2. job[w].sid \in Sids /\ job[w].sub \in Subs
  BY <1>1 DEF Job
<1>3. code[w] \in Code /\ None \in Code
  BY DEF TInv, TypeOK, Code
<1>4. [status |-> st, of |-> job[w].sub, code |-> IF st = "done" THEN code[w] ELSE None] \in Result
  BY <1>2, <1>3 DEF Result
<1>5. QED
  BY <1>2, <1>4 DEF Publish, TInv, TypeOK

\* An entry of the disk is the same, one of its files apart.
Entry == [dir : BOOLEAN, source : Code]

LEMMA EntryTyped ==
  ASSUME NEW d \in [Sids -> Entry], NEW i \in Sids, NEW c \in Code
  PROVE  /\ [d EXCEPT ![i].dir = TRUE] \in [Sids -> Entry]
         /\ [d EXCEPT ![i].source = c] \in [Sids -> Entry]
BY DEF Entry

LEMMA TInvInit == Init => TInv
<1> SUFFICES ASSUME Init PROVE TInv
  OBVIOUS
<1>1. Given = 0
  <2>1. {s \in Subs : sid[s] # None} = {}
    BY DEF Init
  <2>2. QED
    BY <2>1, FS_EmptySet DEF Given
<1>2. TypeOK
  BY DEF Init, TypeOK, Code, Phases, Wpcs, NoDir
<1>3. QED
  BY <1>1, <1>2 DEF Init, TInv, Counted, Placed, Owning

(* One lemma per action: it keeps the types, the count of the ids and the   *)
(* places of submissions and workers.                                       *)

LEMMA TEnsureCounter ==
  ASSUME TInv, NEW s \in Subs, EnsureCounter(s)
  PROVE  TInv'
<1>1. TypeOK'
  BY DEF TInv, TypeOK, Placed, EnsureCounter, Goto, Code, Phases, Submitting, Wpcs,
     workerVars, faultVars
<1>2. Counted'
  BY GivenBound DEF TInv, TypeOK, Counted, Given, EnsureCounter, Goto, workerVars, faultVars
<1>3. Placed'
  BY <1>1 DEF TInv, TypeOK, Placed, EnsureCounter, Goto, Early, Owning, Submitting,
     Phases, Wpcs, workerVars, faultVars
<1>4. QED
  BY <1>1, <1>2, <1>3 DEF TInv

LEMMA TSubmitId ==
  ASSUME TInv, NEW s \in Subs, SubmitId(s)
  PROVE  TInv' /\ Given' = Given + 1 /\ counter' = sid'[s] /\ sid[s] = None /\ counter # None
<1>1. sid[s] = None /\ counter # None /\ counter \in Nat /\ counter <= Given
  BY DEF TInv, TypeOK, Placed, Counted, SubmitId, Sids
<1>2. counter + 1 \in Sids
  BY <1>1, GivenBound DEF TInv, Sids
<1>3. counter' = counter + 1 /\ counterWrites' = counterWrites \union {counter + 1}
      /\ UNCHANGED <<counterRead, counterFile>>
  BY DEF SubmitId, NextSubmissionId
<1>4. Given' = Given + 1
  BY <1>1, <1>2, <1>3, GiveOne DEF TInv, SubmitId
<1>5. sid'[s] = counter'
  BY DEF TInv, TypeOK, SubmitId
<1>6. TypeOK'
  <2>1. Queued(s) \in Result
    BY DEF Queued, Result, Code
  <2>2. results' \in [Sids -> Result \union {None}] /\ sid' \in [Subs -> Sids \union {None}]
    BY <1>2, <1>3, <2>1 DEF TInv, TypeOK, SubmitId
  <2>3. phase' \in [Subs -> Phases]
    BY DEF TInv, TypeOK, SubmitId, Goto, Phases, Submitting
  <2>4. QED
    BY <1>2, <1>3, <2>2, <2>3 DEF TInv, TypeOK, SubmitId, workerVars, faultVars
<1>7. Counted'
  BY <1>1, <1>3, <1>4, GivenBound DEF TInv, TypeOK, Counted, Sids
<1>8. Placed'
  BY <1>1, <1>2, <1>3, <1>5 DEF TInv, TypeOK, Placed, SubmitId, Goto, Owning, workerVars,
     faultVars
<1>9. QED
  BY <1>1, <1>3, <1>4, <1>5, <1>6, <1>7, <1>8 DEF TInv

LEMMA TSubmitEnqueue ==
  ASSUME TInv, NEW s \in Subs, SubmitEnqueue(s)
  PROVE  TInv'
<1>1. TypeOK'
  <2>1. sid[s] \in Sids
    BY DEF TInv, TypeOK, Placed, Owning, SubmitEnqueue
  <2>2. disk' \in [Sids -> Entry]
    BY <2>1, EntryTyped, ZenonT(60) DEF TInv, TypeOK, SubmitEnqueue, Entry
  <2>3. queue' \in Seq(Job)
    BY <2>1 DEF TInv, TypeOK, SubmitEnqueue, Job
  <2>4. phase' \in [Subs -> Phases]
    BY DEF TInv, TypeOK, SubmitEnqueue, Goto, Phases, Submitting
  <2>5. QED
    BY <2>2, <2>3, <2>4 DEF TInv, TypeOK, SubmitEnqueue, Entry, idVars, workerVars,
       faultVars
<1>2. Counted'
  BY GivenBound DEF TInv, TypeOK, Counted, Given, SubmitEnqueue, Goto, idVars, workerVars,
     faultVars
<1>3. Placed'
  BY <1>1 DEF TInv, TypeOK, Placed, SubmitEnqueue, Goto, Early, Owning, Submitting,
     Phases, Wpcs, idVars, workerVars, faultVars
<1>4. QED
  BY <1>1, <1>2, <1>3 DEF TInv

LEMMA TSubmitOpenSource ==
  ASSUME TInv, NEW s \in Subs, SubmitOpenSource(s)
  PROVE  TInv'
<1>1. TypeOK'
  <2>1. sid[s] \in Sids /\ PartOf(s) \in Code
    BY DEF TInv, TypeOK, Placed, Owning, SubmitOpenSource, Code
  <2>2. disk' \in [Sids -> Entry]
    BY <2>1, EntryTyped DEF TInv, TypeOK, SubmitOpenSource, Entry
  <2>3. phase' \in [Subs -> Phases]
    BY DEF TInv, TypeOK, SubmitOpenSource, Goto, Phases, Submitting
  <2>4. QED
    BY <2>2, <2>3 DEF TInv, TypeOK, SubmitOpenSource, Entry, idVars, workerVars, faultVars
<1>2. Counted'
  BY GivenBound DEF TInv, TypeOK, Counted, Given, SubmitOpenSource, Goto, idVars,
     workerVars, faultVars
<1>3. Placed'
  BY <1>1 DEF TInv, TypeOK, Placed, SubmitOpenSource, Goto, Early, Owning, Submitting,
     Phases, Wpcs, idVars, workerVars, faultVars
<1>4. QED
  BY <1>1, <1>2, <1>3 DEF TInv

LEMMA TSubmitWriteSource ==
  ASSUME TInv, NEW s \in Subs, SubmitWriteSource(s)
  PROVE  TInv'
<1>1. TypeOK'
  <2>1. sid[s] \in Sids /\ s \in Code
    BY DEF TInv, TypeOK, Placed, Owning, SubmitWriteSource, Code
  <2>2. disk' \in [Sids -> Entry]
    BY <2>1, EntryTyped DEF TInv, TypeOK, SubmitWriteSource, Entry
  <2>3. phase' \in [Subs -> Phases]
    BY DEF TInv, TypeOK, SubmitWriteSource, Goto, Phases, Submitting
  <2>4. QED
    BY <2>2, <2>3 DEF TInv, TypeOK, SubmitWriteSource, Entry, idVars, workerVars, faultVars
<1>2. Counted'
  BY GivenBound DEF TInv, TypeOK, Counted, Given, SubmitWriteSource, Goto, idVars,
     workerVars, faultVars
<1>3. Placed'
  BY <1>1 DEF TInv, TypeOK, Placed, SubmitWriteSource, Goto, Early, Owning, Submitting,
     Phases, Wpcs, idVars, workerVars, faultVars
<1>4. QED
  BY <1>1, <1>2, <1>3 DEF TInv

LEMMA TSubmitMeta ==
  ASSUME TInv, NEW s \in Subs, SubmitMeta(s)
  PROVE  TInv'
<1>1. TypeOK'
  BY DEF TInv, TypeOK, Placed, SubmitMeta, Goto, Code, Phases, Submitting, Wpcs, idVars,
     workerVars, faultVars
<1>2. Counted'
  BY GivenBound DEF TInv, TypeOK, Counted, Given, SubmitMeta, Goto, idVars, workerVars,
     faultVars
<1>3. Placed'
  BY <1>1 DEF TInv, TypeOK, Placed, SubmitMeta, Goto, Early, Owning, Submitting, Phases,
     Wpcs, idVars, workerVars, faultVars
<1>4. QED
  BY <1>1, <1>2, <1>3 DEF TInv

LEMMA TSubmitFails ==
  ASSUME TInv, NEW s \in Subs, SubmitFails(s)
  PROVE  TInv'
<1>1. TypeOK'
  BY DEF TInv, TypeOK, Placed, SubmitFails, Goto, Code, Phases, Submitting, Wpcs, idVars,
     workerVars, faultVars
<1>2. Counted'
  BY GivenBound DEF TInv, TypeOK, Counted, Given, SubmitFails, Goto, idVars, workerVars,
     faultVars
<1>3. Placed'
  BY <1>1 DEF TInv, TypeOK, Placed, SubmitFails, Goto, Early, Owning, Submitting, Phases,
     Wpcs, idVars, workerVars, faultVars
<1>4. QED
  BY <1>1, <1>2, <1>3 DEF TInv

LEMMA TPollResult ==
  ASSUME TInv, NEW s \in Subs, PollResult(s)
  PROVE  TInv'
<1>1. TypeOK'
  <2>1. sid[s] \in Sids /\ results[sid[s]] \in Result
    BY DEF TInv, TypeOK, Placed, Owning, PollResult, IsFinal
  <2>2. results' \in [Sids -> Result \union {None}] /\ popped' \in [Subs -> Result \union {None}]
    BY <2>1 DEF TInv, TypeOK, PollResult
  <2>3. phase' \in [Subs -> Phases]
    BY DEF TInv, TypeOK, PollResult, Goto, Phases
  <2>4. QED
    BY <2>2, <2>3 DEF TInv, TypeOK, PollResult, idVars, workerVars, faultVars
<1>2. Counted'
  BY GivenBound DEF TInv, TypeOK, Counted, Given, PollResult, Goto, IsFinal, idVars,
     workerVars, faultVars
<1>3. Placed'
  BY <1>1 DEF TInv, TypeOK, Placed, PollResult, Goto, IsFinal, Early, Owning, Submitting,
     Phases, Wpcs, idVars, workerVars, faultVars
<1>4. QED
  BY <1>1, <1>2, <1>3 DEF TInv

LEMMA TTakeJob ==
  ASSUME TInv, NEW w \in Workers, TakeJob(w)
  PROVE  TInv'
<1>1. TypeOK'
  <2>1. queue' \in Seq(Job) /\ Head(queue) \in Job
    BY TailKeeps DEF TInv, TypeOK, TakeJob
  <2>2. wpc' \in [Workers -> Wpcs]
    BY DEF TInv, TypeOK, TakeJob, Work, Wpcs
  <2>3. QED
    BY <2>1, <2>2 DEF TInv, TypeOK, TakeJob, idVars, clientVars, faultVars
<1>2. Counted'
  BY GivenBound DEF TInv, TypeOK, Counted, Given, TakeJob, Work, idVars, clientVars,
     faultVars
<1>3. Placed'
  BY <1>1 DEF TInv, TypeOK, Placed, TakeJob, Work, Early, Owning, Submitting, Phases,
     Wpcs, idVars, clientVars, faultVars
<1>4. QED
  BY <1>1, <1>2, <1>3 DEF TInv

LEMMA TLoadCode ==
  ASSUME TInv, NEW w \in Workers, LoadCode(w)
  PROVE  TInv'
<1>1. TypeOK'
  <2>1. job[w] \in Job
    BY DEF TInv, TypeOK, Placed, LoadCode
  <2>2. job[w].sid \in Sids /\ job[w].sub \in Code
    BY <2>1 DEF Job, Code
  <2>3. disk' \in [Sids -> Entry]
    <3>1. disk \in [Sids -> Entry]
      BY DEF TInv, TypeOK, Entry
    <3>2. disk' = [disk EXCEPT ![job[w].sid].source = job[w].sub] \/ UNCHANGED disk
      BY DEF LoadCode
    <3>3. ASSUME NEW i \in Sids, NEW c \in Code
          PROVE  [disk EXCEPT ![i].source = c] \in [Sids -> Entry]
      BY <3>1 DEF Entry
    <3>4. [disk EXCEPT ![job[w].sid].source = job[w].sub] \in [Sids -> Entry]
      BY <2>2, <3>3
    <3>5. QED
      BY <3>1, <3>2, <3>4
  <2>4. disk[job[w].sid].source \in Code
    BY <2>2 DEF TInv, TypeOK
  <2>5. code' \in [Workers -> Code] /\ wpc' \in [Workers -> Wpcs]
    BY <2>2, <2>4 DEF TInv, TypeOK, LoadCode, Work, Wpcs
  <2>6. QED
    BY <2>3, <2>5 DEF TInv, TypeOK, LoadCode, Entry, idVars, clientVars, faultVars
<1>2. Counted'
  BY GivenBound DEF TInv, TypeOK, Counted, Given, LoadCode, Work, idVars, clientVars,
     faultVars
<1>3. Placed'
  BY <1>1 DEF TInv, TypeOK, Placed, LoadCode, Work, Early, Owning, Submitting, Phases,
     Wpcs, idVars, clientVars, faultVars
<1>4. QED
  BY <1>1, <1>2, <1>3 DEF TInv

LEMMA TLoadFails ==
  ASSUME TInv, NEW w \in Workers, LoadFails(w)
  PROVE  TInv'
<1>1. TypeOK'
  <2>1. job[w] # None
    BY DEF TInv, TypeOK, Placed, LoadFails
  <2>2. results' \in [Sids -> Result \union {None}]
    BY <2>1, PublishTyped DEF LoadFails
  <2>3. wpc' \in [Workers -> Wpcs]
    BY DEF TInv, TypeOK, LoadFails, Work, Wpcs
  <2>4. QED
    BY <2>2, <2>3 DEF TInv, TypeOK, LoadFails, idVars, clientVars, faultVars
<1>2. Counted'
  BY GivenBound DEF TInv, TypeOK, Counted, Given, LoadFails, Work, Publish, idVars,
     clientVars, faultVars
<1>3. Placed'
  BY <1>1 DEF TInv, TypeOK, Placed, LoadFails, Work, Publish, Early, Owning, Submitting,
     Phases, Wpcs, idVars, clientVars, faultVars
<1>4. QED
  BY <1>1, <1>2, <1>3 DEF TInv

LEMMA TJudge ==
  ASSUME TInv, NEW w \in Workers, Judge(w)
  PROVE  TInv'
<1>1. TypeOK'
  <2>1. job[w] # None
    BY DEF TInv, TypeOK, Placed, Judge
  <2>2. results' \in [Sids -> Result \union {None}]
    BY <2>1, PublishTyped DEF Judge
  <2>3. wpc' \in [Workers -> Wpcs]
    BY DEF TInv, TypeOK, Judge, Work, Wpcs
  <2>4. QED
    BY <2>2, <2>3 DEF TInv, TypeOK, Judge, idVars, clientVars, faultVars
<1>2. Counted'
  BY GivenBound DEF TInv, TypeOK, Counted, Given, Judge, Work, Publish, idVars,
     clientVars, faultVars
<1>3. Placed'
  BY <1>1 DEF TInv, TypeOK, Placed, Judge, Work, Publish, Early, Owning, Submitting,
     Phases, Wpcs, idVars, clientVars, faultVars
<1>4. QED
  BY <1>1, <1>2, <1>3 DEF TInv

LEMMA TSaveResult ==
  ASSUME TInv, NEW w \in Workers, SaveResult(w)
  PROVE  TInv'
<1>1. TypeOK'
  BY DEF TInv, TypeOK, SaveResult, EndJob, Work, Wpcs, Code, idVars, clientVars, faultVars
<1>2. Counted'
  BY GivenBound DEF TInv, TypeOK, Counted, Given, SaveResult, EndJob, Work, idVars,
     clientVars, faultVars
<1>3. Placed'
  BY <1>1 DEF TInv, TypeOK, Placed, SaveResult, EndJob, Work, Early, Owning, Submitting,
     Phases, Wpcs, idVars, clientVars, faultVars
<1>4. QED
  BY <1>1, <1>2, <1>3 DEF TInv

LEMMA TSaveFails ==
  ASSUME TInv, NEW w \in Workers, SaveFails(w)
  PROVE  TInv'
<1>1. TypeOK'
  <2>1. job[w] # None
    BY DEF TInv, TypeOK, Placed, SaveFails
  <2>2. results' \in [Sids -> Result \union {None}]
    BY <2>1, PublishTyped DEF SaveFails
  <2>3. wpc' \in [Workers -> Wpcs]
    BY DEF TInv, TypeOK, SaveFails, Work, Wpcs
  <2>4. QED
    BY <2>2, <2>3 DEF TInv, TypeOK, SaveFails, idVars, clientVars, faultVars
<1>2. Counted'
  BY GivenBound DEF TInv, TypeOK, Counted, Given, SaveFails, Work, Publish, idVars,
     clientVars, faultVars
<1>3. Placed'
  BY <1>1 DEF TInv, TypeOK, Placed, SaveFails, Work, Publish, Early, Owning, Submitting,
     Phases, Wpcs, idVars, clientVars, faultVars
<1>4. QED
  BY <1>1, <1>2, <1>3 DEF TInv

LEMMA TSaveIgnored ==
  ASSUME TInv, NEW w \in Workers, SaveIgnored(w)
  PROVE  TInv'
<1>1. TypeOK'
  BY DEF TInv, TypeOK, Placed, SaveIgnored, EndJob, Work, Code, Phases, Submitting, Wpcs,
     idVars, clientVars, faultVars
<1>2. Counted'
  BY GivenBound DEF TInv, TypeOK, Counted, Given, SaveIgnored, EndJob, Work, idVars,
     clientVars, faultVars
<1>3. Placed'
  BY <1>1 DEF TInv, TypeOK, Placed, SaveIgnored, EndJob, Work, Early, Owning, Submitting,
     Phases, Wpcs, idVars, clientVars, faultVars
<1>4. QED
  BY <1>1, <1>2, <1>3 DEF TInv

LEMMA TCounterReadDone ==
  ASSUME TInv, CounterReadDone
  PROVE  TInv'
<1>1. TypeOK'
  BY DEF TInv, TypeOK, Placed, CounterReadDone, Code, Phases, Submitting, Wpcs,
     clientVars, workerVars, faultVars
<1>2. Counted'
  BY GivenBound DEF TInv, TypeOK, Counted, Given, CounterReadDone, clientVars, workerVars,
     faultVars
<1>3. Placed'
  BY <1>1 DEF TInv, TypeOK, Placed, CounterReadDone, Early, Owning, Submitting, Phases,
     Wpcs, clientVars, workerVars, faultVars
<1>4. QED
  BY <1>1, <1>2, <1>3 DEF TInv

LEMMA TPersistCounter ==
  ASSUME TInv, NEW n \in counterWrites, PersistCounter(n)
  PROVE  TInv'
<1>1. TypeOK'
  BY DEF TInv, TypeOK, Placed, PersistCounter, Code, Phases, Submitting, Wpcs, clientVars,
     workerVars, faultVars
<1>2. Counted'
  BY GivenBound DEF TInv, TypeOK, Counted, Given, PersistCounter, clientVars, workerVars,
     faultVars
<1>3. Placed'
  BY <1>1 DEF TInv, TypeOK, Placed, PersistCounter, Early, Owning, Submitting, Phases,
     Wpcs, clientVars, workerVars, faultVars
<1>4. QED
  BY <1>1, <1>2, <1>3 DEF TInv

LEMMA TResetEmptyDir ==
  ASSUME TInv, ResetEmptyDir
  PROVE  TInv'
<1>1. TypeOK'
  BY DEF TInv, TypeOK, Placed, ResetEmptyDir, Code, Phases, Submitting, Wpcs, NoDir,
     idVars, clientVars, workerVars
<1>2. Counted'
  BY GivenBound DEF TInv, TypeOK, Counted, Given, ResetEmptyDir, idVars, clientVars,
     workerVars
<1>3. Placed'
  BY <1>1 DEF TInv, TypeOK, Placed, ResetEmptyDir, Early, Owning, Submitting, Phases,
     Wpcs, idVars, clientVars, workerVars
<1>4. QED
  BY <1>1, <1>2, <1>3 DEF TInv

LEMMA TResetCounter ==
  ASSUME TInv, ResetCounter
  PROVE  TInv'
<1>1. TypeOK'
  BY DEF TInv, TypeOK, Placed, ResetCounter, Code, Phases, Submitting, Wpcs, clientVars,
     workerVars
<1>2. Counted'
  BY GivenBound DEF TInv, TypeOK, Counted, Given, ResetCounter, clientVars, workerVars
<1>3. Placed'
  BY <1>1 DEF TInv, TypeOK, Placed, ResetCounter, Early, Owning, Submitting, Phases, Wpcs,
     clientVars, workerVars
<1>4. QED
  BY <1>1, <1>2, <1>3 DEF TInv

LEMMA TResetResults ==
  ASSUME TInv, ResetResults
  PROVE  TInv'
<1>1. TypeOK'
  BY DEF TInv, TypeOK, Placed, ResetResults, Code, Phases, Submitting, Wpcs, clientVars,
     workerVars
<1>2. Counted'
  BY GivenBound DEF TInv, TypeOK, Counted, Given, ResetResults, clientVars, workerVars
<1>3. Placed'
  BY <1>1 DEF TInv, TypeOK, Placed, ResetResults, Early, Owning, Submitting, Phases, Wpcs,
     clientVars, workerVars
<1>4. QED
  BY <1>1, <1>2, <1>3 DEF TInv

LEMMA TResetFails ==
  ASSUME TInv, ResetFails
  PROVE  TInv'
<1>1. TypeOK'
  <2>1. NoDir \in Entry /\ disk \in [Sids -> Entry]
    BY DEF TInv, TypeOK, Entry, NoDir, Code
  <2>2. disk' \in [Sids -> Entry]
    BY <2>1 DEF ResetFails
  <2>3. QED
    BY <2>2 DEF TInv, TypeOK, ResetFails, Entry, idVars, clientVars, workerVars
<1>2. Counted'
  BY GivenBound DEF TInv, TypeOK, Counted, Given, ResetFails, idVars, clientVars, workerVars
<1>3. Placed'
  BY <1>1 DEF TInv, TypeOK, Placed, ResetFails, Early, Owning, Submitting, Phases, Wpcs,
     idVars, clientVars, workerVars
<1>4. QED
  BY <1>1, <1>2, <1>3 DEF TInv

LEMMA TCrash ==
  ASSUME TInv, Crash
  PROVE  TInv'
<1>1. TypeOK'
  <2>1. phase' \in [Subs -> Phases]
    BY DEF TInv, TypeOK, Crash, Phases
  <2>2. results' \in [Sids -> Result \union {None}] /\ queue' \in Seq(Job)
    BY DEF Crash
  <2>3. wpc' \in [Workers -> Wpcs] /\ job' \in [Workers -> Job \union {None}] /\ code' \in [Workers -> Code]
    BY DEF Crash, Wpcs, Code
  <2>4. QED
    BY <2>1, <2>2, <2>3 DEF TInv, TypeOK, Crash
<1>2. Counted'
  BY GivenBound DEF TInv, TypeOK, Counted, Given, Crash
<1>3. Placed'
  BY <1>1 DEF TInv, TypeOK, Placed, Crash, Early, Owning, Submitting, Phases, Wpcs
<1>4. QED
  BY <1>1, <1>2, <1>3 DEF TInv


LEMMA TStep == TInv /\ [Next]_vars => TInv'
<1> SUFFICES ASSUME TInv, [Next]_vars PROVE TInv'
  OBVIOUS
<1>1. ASSUME NEW s \in Subs, SubmitStep(s) \/ PollResult(s) PROVE TInv'
  BY <1>1, TEnsureCounter, TSubmitId, TSubmitEnqueue, TSubmitOpenSource, TSubmitWriteSource,
     TSubmitMeta, TSubmitFails, TPollResult DEF SubmitStep
<1>2. ASSUME NEW w \in Workers, WorkerStep(w) PROVE TInv'
  BY <1>2, TTakeJob, TLoadCode, TLoadFails, TJudge, TSaveResult, TSaveFails, TSaveIgnored
  DEF WorkerStep
<1>3. CASE CounterStep
  BY <1>3, TCounterReadDone, TPersistCounter DEF CounterStep
<1>4. CASE Reset
  BY <1>4, TResetEmptyDir, TResetCounter, TResetResults, TResetFails DEF Reset
<1>5. CASE Crash
  BY <1>5, TCrash
<1>6. CASE UNCHANGED vars
  BY <1>6 DEF TInv, TypeOK, Counted, Given, Placed, vars, idVars, clientVars, workerVars,
     faultVars
<1>7. QED
  BY <1>1, <1>2, <1>3, <1>4, <1>5, <1>6 DEF Next

\* Every variable keeps its type: an id never exceeds the number of submissions,
\* whatever resets and crashes do to the counter and its file.
THEOREM TypeCorrect == Spec => []TypeOK
<1>1. TInv => TypeOK
  BY DEF TInv
<1>2. QED
  BY <1>1, TInvInit, TStep, PTL DEF Spec

-----------------------------------------------------------------------------
(* Jobs and submissions: no submission has two jobs.                       *)

JInv ==
  /\ \A i \in DOMAIN queue : phase[queue[i].sub] \notin Early
  /\ \A w \in Workers : job[w] # None => phase[job[w].sub] \notin Early
  /\ \A i, j \in DOMAIN queue : queue[i].sub = queue[j].sub => i = j
  /\ \A v, w \in Workers :
       job[v] # None /\ job[w] # None /\ job[v].sub = job[w].sub => v = w
  /\ \A i \in DOMAIN queue : \A w \in Workers :
       job[w] # None => job[w].sub # queue[i].sub

\* The jobs of a typed state are jobs of submissions.
LEMMA JobsTyped ==
  ASSUME TypeOK
  PROVE  /\ \A i \in DOMAIN queue : queue[i] \in Job /\ queue[i].sub \in Subs /\ queue[i].sid \in Sids
         /\ \A w \in Workers : job[w] # None => job[w] \in Job /\ job[w].sub \in Subs /\ job[w].sid \in Sids
<1>1. ASSUME NEW i \in DOMAIN queue PROVE queue[i] \in Job
  BY AppendKeeps DEF TypeOK
<1>2. ASSUME NEW x \in Job PROVE x.sub \in Subs /\ x.sid \in Sids
  BY DEF Job
<1>3. QED
  BY <1>1, <1>2 DEF TypeOK

\* A submission that has left the first phases does not come back to them.
LEMMA EarlyStays ==
  ASSUME TInv, [Next]_vars, NEW t \in Subs, phase[t] \notin Early
  PROVE  phase'[t] \notin Early
<1>1. ASSUME NEW s \in Subs, SubmitStep(s) \/ PollResult(s) PROVE phase'[t] \notin Early
  BY <1>1 DEF TInv, TypeOK, Early, SubmitStep, EnsureCounter, SubmitId, SubmitEnqueue,
     SubmitOpenSource,
     SubmitWriteSource, SubmitMeta, SubmitFails, PollResult, Goto
<1>2. CASE Crash
  BY <1>2 DEF TInv, TypeOK, Early, Crash, Submitting
<1>3. ASSUME UNCHANGED phase PROVE phase'[t] \notin Early
  BY <1>3
<1>4. ASSUME NEW w \in Workers, WorkerStep(w) PROVE UNCHANGED phase
  BY <1>4 DEF WorkerStep, TakeJob, LoadCode, LoadFails, Judge, SaveResult, SaveFails,
     SaveIgnored, clientVars
<1>5. CounterStep \/ Reset \/ UNCHANGED vars => UNCHANGED phase
  BY DEF CounterStep, CounterReadDone, PersistCounter, Reset, ResetEmptyDir, ResetCounter,
     ResetResults,
     ResetFails, vars, clientVars
<1>6. QED
  BY <1>1, <1>2, <1>3, <1>4, <1>5 DEF Next

LEMMA JStep == TInv /\ JInv /\ [Next]_vars => JInv'
<1> SUFFICES ASSUME TInv, JInv, [Next]_vars PROVE JInv'
  OBVIOUS
<1>0. TypeOK /\ TypeOK'
  BY TStep DEF TInv
<1>1. ASSUME UNCHANGED <<queue, job>> PROVE JInv'
  BY <1>0, <1>1, JobsTyped, EarlyStays DEF JInv
<1>2. ASSUME NEW s \in Subs, SubmitEnqueue(s) PROVE JInv'
  <2>1. phase[s] \in Early /\ phase'[s] \notin Early /\ UNCHANGED job
    BY <1>0, <1>2 DEF SubmitEnqueue, Early, Goto, TypeOK, workerVars
  <2> DEFINE x == [sid |-> sid[s], sub |-> s, inMemory |-> ~(Len(queue) >= QueueLimit)]
  <2>2. queue' = Append(queue, x) /\ x.sub = s
    BY <1>2 DEF SubmitEnqueue
  <2>3. x \in Job
    BY <1>0, <1>2 DEF TInv, Placed, SubmitEnqueue, Owning, TypeOK, Job
  <2> HIDE DEF x
  <2>4. /\ DOMAIN queue' = DOMAIN queue \union {Len(queue) + 1}
        /\ \A i \in DOMAIN queue : queue'[i] = queue[i] /\ i # Len(queue) + 1
        /\ queue'[Len(queue) + 1] = x
    BY <1>0, <2>2, <2>3, AppendKeeps DEF TypeOK
  <2>5. \A i \in DOMAIN queue : queue[i].sub # s
    BY <2>1 DEF JInv
  <2>6. \A w \in Workers : job[w] # None => job[w].sub # s
    BY <2>1 DEF JInv
  <2>7. \A t \in Subs : phase[t] \notin Early => phase'[t] \notin Early
    BY EarlyStays
  <2>8. QED
    BY <1>0, <2>1, <2>2, <2>4, <2>5, <2>6, <2>7, JobsTyped DEF JInv
<1>3. ASSUME NEW w \in Workers, TakeJob(w) PROVE JInv'
  <2>1. /\ queue \in Seq(Job) /\ queue # <<>> /\ queue' = Tail(queue)
        /\ UNCHANGED phase /\ job[w] = None
        /\ \A v \in Workers : job'[v] = IF v = w THEN queue[1] ELSE job[v]
    BY <1>0, <1>3, TailKeeps DEF TakeJob, TInv, TypeOK, Placed, clientVars
  <2>2. \A i \in DOMAIN queue' : i + 1 \in DOMAIN queue /\ queue'[i] = queue[i + 1] /\ i + 1 # 1 /\ i \in Nat
    BY <2>1, TailKeeps
  <2>3. 1 \in DOMAIN queue /\ queue[1] # None
    BY <1>0, <2>1, TailKeeps
  <2>4. QED
    BY <2>1, <2>2, <2>3 DEF JInv
<1>4. ASSUME NEW w \in Workers, EndJob(w), UNCHANGED queue PROVE JInv'
  BY <1>0, <1>4, JobsTyped, EarlyStays DEF JInv, EndJob, TypeOK
<1>5. CASE Crash
  BY <1>5 DEF JInv, Crash
<1>6. ASSUME NEW s \in Subs, SubmitStep(s) \/ PollResult(s) PROVE UNCHANGED <<queue, job>> \/ SubmitEnqueue(s)
  BY <1>6 DEF SubmitStep, EnsureCounter, SubmitId, SubmitOpenSource, SubmitWriteSource,
     SubmitMeta,
     SubmitFails, PollResult, workerVars
<1>7. ASSUME NEW w \in Workers, WorkerStep(w)
      PROVE  UNCHANGED <<queue, job>> \/ TakeJob(w) \/ (EndJob(w) /\ UNCHANGED queue)
  BY <1>7 DEF WorkerStep, LoadCode, LoadFails, Judge, SaveResult, SaveFails, SaveIgnored
<1>8. CounterStep \/ Reset \/ UNCHANGED vars => UNCHANGED <<queue, job>>
  BY DEF CounterStep, CounterReadDone, PersistCounter, Reset, ResetEmptyDir, ResetCounter,
     ResetResults,
     ResetFails, vars, workerVars
<1>9. QED
  BY <1>1, <1>2, <1>3, <1>4, <1>5, <1>6, <1>7, <1>8 DEF Next

\* A set of which any two members are the same is counted as 0 or 1.
LEMMA AtMostOne ==
  ASSUME NEW S, \A x, y \in S : x = y
  PROVE  /\ Cardinality(S) \in {0, 1}
         /\ S = {} => Cardinality(S) = 0
<1>1. S = {} => Cardinality(S) = 0
  BY FS_EmptySet
<1>2. ASSUME NEW x \in S PROVE Cardinality(S) = 1
  <2>1. S = {x}
    OBVIOUS
  <2>2. QED
    BY <2>1, FS_Singleton
<1>3. QED
  BY <1>1, <1>2

\* No submission ever has two jobs, in the queue or with the workers: whatever is
\* reset, crashes or fails, no two workers judge the same submission (startWorker,
\* judge_engine.js:513-555).
THEOREM NeverTwoJobs == Spec => []OneJobPerSubmission
<1>1. Init => JInv
  BY DEF Init, JInv
<1>2. TInv /\ JInv => OneJobPerSubmission
  <2> SUFFICES ASSUME TInv, JInv, NEW s \in Subs
               PROVE  Cardinality({i \in DOMAIN queue : queue[i].sub = s})
                        + Cardinality({w \in Workers : job[w] # None /\ job[w].sub = s}) <= 1
    BY DEF OneJobPerSubmission
  <2> DEFINE Q == {i \in DOMAIN queue : queue[i].sub = s}
             W == {w \in Workers : job[w] # None /\ job[w].sub = s}
  <2>1. \A i, j \in Q : i = j
    BY DEF JInv
  <2>2. \A v, w \in W : v = w
    BY DEF JInv
  <2>3. Q = {} \/ W = {}
    BY DEF JInv
  <2> HIDE DEF Q, W
  <2>4. /\ Cardinality(Q) \in {0, 1} /\ (Q = {} => Cardinality(Q) = 0)
        /\ Cardinality(W) \in {0, 1} /\ (W = {} => Cardinality(W) = 0)
    BY <2>1, <2>2, AtMostOne
  <2>5. Cardinality(Q) + Cardinality(W) <= 1
    BY <2>3, <2>4
  <2>6. QED
    BY <2>5 DEF Q, W
<1>3. QED
  BY <1>1, <1>2, TInvInit, TStep, JStep, PTL DEF Spec

-----------------------------------------------------------------------------
(* Until a reset or a crash: whose ids, results, files and jobs they are.  *)

Own(s) == {s, PartOf(s)}
Outcome(r, s) == r.of = s /\ (r.status = "done" => r.code \in Own(s))

\* Every id is given once, and none is beyond the counter.
Ids ==
  /\ rpc = "idle"
  /\ counter = None => counterFile = 0 /\ counterWrites = {}
  /\ counterRead # None => counterRead = 0 /\ counter = None
  /\ \A s \in Subs : phase[s] \notin {"new", "counter"} => sid[s] # None
  /\ \A s \in Subs : sid[s] # None => counter # None /\ sid[s] <= counter
  /\ \A s, t \in Subs : sid[s] # None /\ sid[s] = sid[t] => s = t

\* What the map holds under an id, and what a client was given, is its own.
Results ==
  /\ \A s \in Subs : sid[s] # None /\ results[sid[s]] # None => Outcome(results[sid[s]], s)
  /\ \A s \in Subs : popped[s] # None =>
       /\ Outcome(popped[s], s) /\ IsFinal(popped[s])
       /\ phase[s] \in {"polling", "answered"}
       /\ phase[s] = "polling" => LoseResponses
  /\ \A s \in Subs : phase[s] = "mkdir" => ~IsFinal(results[sid[s]])

Files ==
  \A i \in Sids : disk[i].source # None => \E s \in Subs : sid[s] = i /\ disk[i].source \in Own(s)

\* A job that is not judged yet has no result yet; one that is, has had it.
Unjudged(s) == ~IsFinal(results[sid[s]]) /\ popped[s] = None

Queued1 ==
  \A i \in DOMAIN queue :
    /\ queue[i].sid = sid[queue[i].sub] /\ Unjudged(queue[i].sub)
    /\ disk[queue[i].sid].dir

Working ==
  \A w \in Workers : job[w] # None =>
    /\ job[w].sid = sid[job[w].sub]
    /\ disk[job[w].sid].dir
    /\ wpc[w] \in {"load", "judge"} => Unjudged(job[w].sub)
    /\ wpc[w] = "judge" => code[w] \in Own(job[w].sub)
    /\ wpc[w] \in {"save", "saveError", "saveLast"} => ~Unjudged(job[w].sub)

\* A submission whose job was queued still has it, or has a result.
Waiting ==
  \A s \in Subs : phase[s] \in {"source", "writing", "meta", "polling"} => JobOf(s) \/ ~Unjudged(s)

UInv == Ids /\ Results /\ Files /\ Queued1 /\ Working /\ Waiting

InWait == {"source", "writing", "meta", "polling"}

\* A submission waits as long as neither its job nor its result goes away.
LEMMA WaitingKept ==
  ASSUME TInv, Waiting, UNCHANGED <<queue, job, sid>>,
         \A t \in Subs : phase'[t] \in InWait => phase[t] \in InWait,
         \A t \in Subs : phase[t] \in InWait /\ ~Unjudged(t) => ~Unjudged(t)'
  PROVE  Waiting'
<1> SUFFICES ASSUME NEW t \in Subs, phase'[t] \in InWait PROVE JobOf(t)' \/ ~Unjudged(t)'
  BY DEF Waiting, InWait
<1>1. JobOf(t) \/ ~Unjudged(t)
  BY DEF Waiting, InWait
<1>2. JobOf(t) => JobOf(t)'
  BY DEF JobOf
<1>3. QED
  BY <1>1, <1>2

\* A publication is the result of the worker's submission and of no other.
LEMMA UPublish ==
  ASSUME TInv, TInv', JInv, UInv, NEW w \in Workers, job[w] # None,
         NEW st \in {"done", "error"}, Publish(w, st),
         st = "done" => code[w] \in Own(job[w].sub),
         NEW p \in {"save", "saveError", "saveLast"}, Work(w, p),
         UNCHANGED <<idVars, queue, disk, clientVars, job, code, faultVars>>
  PROVE  UInv'
<1> USE DEF vars, idVars, clientVars, workerVars, faultVars
<1>0. PICK u \in Subs : u = job[w].sub
  BY JobsTyped DEF TInv
<1>1. /\ job[w].sid \in Sids /\ job[w].sid = sid[u]
      /\ phase[u] \notin Early
  BY <1>0, JobsTyped DEF TInv, UInv, Working, JInv
<1>2. /\ results'[sid[u]] # None /\ IsFinal(results'[sid[u]]) /\ Outcome(results'[sid[u]], u)
  <2> DEFINE r == [status |-> st, of |-> job[w].sub, code |-> IF st = "done" THEN code[w] ELSE None]
  <2>1. results'[sid[u]] = r
    BY <1>0, <1>1 DEF Publish, TInv, TypeOK
  <2>2. code[w] \in Code /\ None \in Code
    BY DEF TInv, TypeOK, Code
  <2>3. r \in Result
    BY <1>0, <2>2 DEF Result
  <2>4. QED
    BY <1>0, <2>1, <2>3 DEF IsFinal, Outcome
<1>3. \A t \in Subs : t # u /\ sid[t] # None => sid[t] # sid[u] /\ results'[sid[t]] = results[sid[t]]
  BY <1>0, <1>1 DEF Publish, TInv, TypeOK, UInv, Ids
<1>4. ~Unjudged(u)' /\ \A t \in Subs : t # u /\ sid[t] # None => Unjudged(t)' = Unjudged(t)
  BY <1>1, <1>2, <1>3 DEF Unjudged
<1>5. Ids' /\ Files'
  BY DEF UInv, Ids, Files
<1>6. Results'
  <2>1. \A t \in Subs : phase[t] = "mkdir" => sid[t] # None /\ t # u
    BY <1>1 DEF TInv, Placed, Owning, Early
  <2>2. QED
    BY <1>1, <1>2, <1>3, <2>1 DEF UInv, Results
<1>7. Queued1'
  <2>1. \A i \in DOMAIN queue : queue[i].sub \in Subs /\ queue[i].sub # u /\ sid[queue[i].sub] # None
    BY <1>0, JobsTyped DEF TInv, JInv, UInv, Queued1
  <2>2. QED
    BY <1>4, <2>1 DEF UInv, Queued1
<1>8. Working'
  <2>1. \A v \in Workers : job[v] # None /\ v # w =>
          job[v].sub \in Subs /\ job[v].sub # u /\ sid[job[v].sub] # None /\ wpc'[v] = wpc[v]
    BY <1>0, JobsTyped DEF TInv, TypeOK, JInv, UInv, Working, Work
  <2>2. wpc'[w] \in {"save", "saveError", "saveLast"}
    BY DEF TInv, TypeOK, Work
  <2>3. QED
    BY <1>0, <1>1, <1>4, <2>1, <2>2 DEF UInv, Working
<1>9. Waiting'
  <2>1. \A t \in Subs : phase[t] \in InWait => sid[t] # None
    BY DEF TInv, Placed, Owning, InWait
  <2>2. \A t \in Subs : phase[t] \in InWait /\ ~Unjudged(t) => ~Unjudged(t)'
    BY <1>4, <2>1
  <2>3. QED
    BY <2>2, WaitingKept DEF UInv
<1>10. QED
  BY <1>5, <1>6, <1>7, <1>8, <1>9 DEF UInv

(* One lemma per action: until a reset or a crash it keeps UInv.            *)

LEMMA ULoadFails ==
  ASSUME TInv, TInv', JInv, UInv, NEW w \in Workers, LoadFails(w)
  PROVE  UInv'
BY UPublish DEF LoadFails, TInv, Placed

LEMMA UJudge ==
  ASSUME TInv, TInv', JInv, UInv, NEW w \in Workers, Judge(w)
  PROVE  UInv'
<1>1. job[w] # None /\ code[w] \in Own(job[w].sub)
  BY DEF Judge, TInv, Placed, UInv, Working
<1>2. QED
  BY <1>1, UPublish DEF Judge

LEMMA USaveFails ==
  ASSUME TInv, TInv', JInv, UInv, NEW w \in Workers, SaveFails(w)
  PROVE  UInv'
BY UPublish DEF SaveFails, TInv, Placed

LEMMA UEnsureCounter ==
  ASSUME TInv, TInv', JInv, UInv, NEW s \in Subs, EnsureCounter(s)
  PROVE  UInv'
<1> USE DEF TInv, TypeOK, Placed, Owning, Early, UInv, EnsureCounter, Goto, workerVars,
   faultVars
<1>1. Ids'
  BY DEF Ids, Sids
<1>2. Results'
  BY DEF Ids, Results, Outcome, IsFinal, Own, Working
<1>3. Files'
  BY DEF Ids, Files, Own
<1>4. Queued1'
  BY JobsTyped DEF JInv, Ids, Queued1, Unjudged, IsFinal
<1>5. Working'
  BY JobsTyped DEF JInv, Ids, Queued1, Working, Unjudged, IsFinal
<1>6. Waiting'
  BY JobsTyped DEF JInv, Ids, Results, Waiting, JobOf, Unjudged, IsFinal
<1>7. QED
  BY <1>1, <1>2, <1>3, <1>4, <1>5, <1>6

LEMMA USubmitId ==
  ASSUME TInv, TInv', JInv, UInv, NEW s \in Subs, SubmitId(s)
  PROVE  UInv'
<1> USE DEF workerVars, faultVars
<1>1. /\ counter \in Nat /\ counter' = counter + 1 /\ counter' \in Sids /\ counterRead = None
      /\ sid[s] = None /\ sid' = [sid EXCEPT ![s] = counter'] /\ sid'[s] = counter'
      /\ results' = [results EXCEPT ![counter'] = Queued(s)] /\ results'[counter'] = Queued(s)
      /\ phase[s] \in {"new", "counter"} /\ phase' = [phase EXCEPT ![s] = "mkdir"]
      /\ UNCHANGED <<counterRead, counterFile, queue, disk, popped, rpc, wpc, job, code>>
  BY TSubmitId DEF TInv, TypeOK, Placed, SubmitId, Goto, NextSubmissionId, UInv, Ids, Sids
<1>2. \A t \in Subs : t # s => /\ sid'[t] = sid[t] /\ phase'[t] = phase[t]
                               /\ sid[t] # None => /\ sid[t] \in Sids /\ sid[t] # counter'
                                                   /\ results'[sid[t]] = results[sid[t]]
                                                   /\ Unjudged(t)' = Unjudged(t)
  BY <1>1 DEF TInv, TypeOK, UInv, Ids, Unjudged, Sids
<1>3. Queued(s) # None /\ Outcome(Queued(s), s) /\ ~IsFinal(Queued(s))
  <2>1. Queued(s) \in Result
    BY DEF Queued, Result, Code
  <2>2. QED
    BY <2>1 DEF Queued, Outcome, IsFinal
<1>4. Ids'
  <2>1. \A t \in Subs : sid'[t] # None => counter' # None /\ sid'[t] <= counter'
    BY <1>1, <1>2 DEF UInv, Ids, Sids
  <2>2. QED
    BY <1>1, <1>2, <2>1 DEF UInv, Ids, Sids
<1>5. Results'
  BY <1>1, <1>2, <1>3 DEF UInv, Results, TInv, Placed, Owning
<1>6. Files'
  BY <1>1, <1>2 DEF UInv, Files
<1>7. Queued1'
  <2>1. \A i \in DOMAIN queue : queue[i].sub \in Subs /\ queue[i].sub # s /\ sid[queue[i].sub] # None
    BY <1>1, JobsTyped DEF TInv, JInv, Early, UInv, Queued1
  <2>2. QED
    BY <1>1, <1>2, <2>1 DEF UInv, Queued1
<1>8. Working'
  <2>1. \A v \in Workers : job[v] # None =>
          job[v].sub \in Subs /\ job[v].sub # s /\ sid[job[v].sub] # None
    BY <1>1, JobsTyped DEF TInv, JInv, Early, UInv, Working
  <2>2. QED
    BY <1>1, <1>2, <2>1 DEF UInv, Working
<1>9. Waiting'
  <2> SUFFICES ASSUME NEW t \in Subs, phase'[t] \in InWait PROVE JobOf(t)' \/ ~Unjudged(t)'
    BY DEF Waiting, InWait
  <2>1. t # s /\ sid[t] # None /\ phase[t] \in InWait
    BY <1>1, <1>2 DEF InWait, TInv, TypeOK, Placed, Owning
  <2>2. JobOf(t) \/ ~Unjudged(t)
    BY <2>1 DEF UInv, Waiting, InWait
  <2>3. JobOf(t) => JobOf(t)'
    BY <1>1 DEF JobOf
  <2>4. QED
    BY <1>2, <2>1, <2>2, <2>3
<1>10. QED
  BY <1>4, <1>5, <1>6, <1>7, <1>8, <1>9 DEF UInv

LEMMA USubmitEnqueue ==
  ASSUME TInv, TInv', JInv, UInv, NEW s \in Subs, SubmitEnqueue(s)
  PROVE  UInv'
<1> USE DEF TInv, TypeOK, Placed, Owning, Early, UInv, SubmitEnqueue, Goto, idVars,
   workerVars, faultVars
<1>0. /\ DOMAIN queue' = DOMAIN queue \union {Len(queue) + 1}
      /\ \A i \in DOMAIN queue : queue'[i] = queue[i] /\ i # Len(queue) + 1
      /\ queue'[Len(queue) + 1].sid = sid[s] /\ queue'[Len(queue) + 1].sub = s
  <2> DEFINE x == [sid |-> sid[s], sub |-> s, inMemory |-> ~(Len(queue) >= QueueLimit)]
  <2>1. x \in Job /\ x.sid = sid[s] /\ x.sub = s /\ queue' = Append(queue, x)
    BY DEF Job
  <2> HIDE DEF x
  <2>2. QED
    BY <2>1, AppendKeeps
<1>1. Ids'
  BY DEF Ids, Sids
<1>2. Results'
  BY DEF Ids, Results, Outcome, IsFinal, Own, Working
<1>3. Files'
  BY DEF Ids, Files, Own
<1>4. Queued1'
  <2>1. Unjudged(s) /\ sid[s] \in Sids
    BY DEF Results, Unjudged
  <2>2. \A i \in DOMAIN queue : Unjudged(queue[i].sub)' = Unjudged(queue[i].sub)
    BY DEF Unjudged
  <2>3. disk'[sid[s]].dir /\ \A i \in Sids : disk[i].dir => disk'[i].dir
    BY <2>1
  <2>4. Unjudged(s)'
    BY <2>1 DEF Unjudged
  <2>5. \A i \in DOMAIN queue : queue[i].sid \in Sids
    BY JobsTyped
  <2>6. QED
    BY <1>0, <2>2, <2>3, <2>4, <2>5 DEF Queued1
<1>5. Working'
  BY JobsTyped, SMTT(30) DEF JInv, Ids, Queued1, Working, Unjudged, IsFinal
<1>6. Waiting'
  <2> SUFFICES ASSUME NEW t \in Subs, phase'[t] \in InWait PROVE JobOf(t)' \/ ~Unjudged(t)
    BY DEF Waiting, InWait, Unjudged
  <2>1. CASE t = s
    BY <1>0, <2>1 DEF JobOf
  <2>2. CASE t # s
    <3>1. JobOf(t) \/ ~Unjudged(t)
      BY <2>2 DEF Waiting, InWait
    <3>2. JobOf(t) => JobOf(t)'
      BY <1>0 DEF JobOf
    <3>3. QED
      BY <3>1, <3>2
  <2>3. QED
    BY <2>1, <2>2
<1>7. QED
  BY <1>1, <1>2, <1>3, <1>4, <1>5, <1>6

LEMMA USubmitOpenSource ==
  ASSUME TInv, TInv', JInv, UInv, NEW s \in Subs, SubmitOpenSource(s)
  PROVE  UInv'
<1> USE DEF TInv, TypeOK, Placed, Owning, Early, UInv, SubmitOpenSource, Goto, idVars,
   workerVars, faultVars
<1>1. Ids'
  BY DEF Ids, Sids
<1>2. Results'
  BY DEF Ids, Results, Outcome, IsFinal, Own, Working
<1>3. Files'
  BY DEF Ids, Files, Own
<1>4. Queued1'
  BY JobsTyped DEF JInv, Ids, Queued1, Unjudged, IsFinal
<1>5. Working'
  BY JobsTyped, SMTT(30) DEF JInv, Ids, Queued1, Working, Unjudged, IsFinal
<1>6. Waiting'
  BY JobsTyped DEF JInv, Ids, Results, Waiting, JobOf, Unjudged, IsFinal
<1>7. QED
  BY <1>1, <1>2, <1>3, <1>4, <1>5, <1>6

LEMMA USubmitWriteSource ==
  ASSUME TInv, TInv', JInv, UInv, NEW s \in Subs, SubmitWriteSource(s)
  PROVE  UInv'
<1> USE DEF TInv, TypeOK, Placed, Owning, Early, UInv, SubmitWriteSource, Goto, idVars,
   workerVars, faultVars
<1>1. Ids'
  BY DEF Ids, Sids
<1>2. Results'
  BY DEF Ids, Results, Outcome, IsFinal, Own, Working
<1>3. Files'
  BY DEF Ids, Files, Own
<1>4. Queued1'
  BY JobsTyped DEF JInv, Ids, Queued1, Unjudged, IsFinal
<1>5. Working'
  BY JobsTyped, SMTT(30) DEF JInv, Ids, Queued1, Working, Unjudged, IsFinal
<1>6. Waiting'
  BY JobsTyped DEF JInv, Ids, Results, Waiting, JobOf, Unjudged, IsFinal
<1>7. QED
  BY <1>1, <1>2, <1>3, <1>4, <1>5, <1>6

LEMMA USubmitMeta ==
  ASSUME TInv, TInv', JInv, UInv, NEW s \in Subs, SubmitMeta(s)
  PROVE  UInv'
<1> USE DEF TInv, TypeOK, Placed, Owning, Early, UInv, SubmitMeta, Goto, idVars, workerVars,
   faultVars
<1>1. Ids'
  BY DEF Ids, Sids
<1>2. Results'
  BY DEF Ids, Results, Outcome, IsFinal, Own, Working
<1>3. Files'
  BY DEF Ids, Files, Own
<1>4. Queued1'
  BY JobsTyped DEF JInv, Ids, Queued1, Unjudged, IsFinal
<1>5. Working'
  BY JobsTyped DEF JInv, Ids, Queued1, Working, Unjudged, IsFinal
<1>6. Waiting'
  BY JobsTyped DEF JInv, Ids, Results, Waiting, JobOf, Unjudged, IsFinal
<1>7. QED
  BY <1>1, <1>2, <1>3, <1>4, <1>5, <1>6

LEMMA USubmitFails ==
  ASSUME TInv, TInv', JInv, UInv, NEW s \in Subs, SubmitFails(s)
  PROVE  UInv'
<1> USE DEF TInv, TypeOK, Placed, Owning, Early, UInv, SubmitFails, Goto, idVars,
   workerVars, faultVars
<1>1. Ids'
  BY DEF Ids, Sids
<1>2. Results'
  BY DEF Ids, Results, Outcome, IsFinal, Own, Working
<1>3. Files'
  BY DEF Ids, Files, Own
<1>4. Queued1'
  BY JobsTyped DEF JInv, Ids, Queued1, Unjudged, IsFinal
<1>5. Working'
  BY JobsTyped DEF JInv, Ids, Queued1, Working, Unjudged, IsFinal
<1>6. Waiting'
  <2>1. \A t \in Subs : phase[t] \in InWait /\ ~Unjudged(t) => ~Unjudged(t)'
    BY DEF Unjudged
  <2>2. \A t \in Subs : phase'[t] \in InWait => phase[t] \in InWait
    BY DEF InWait
  <2>3. QED
    BY <2>1, <2>2, WaitingKept
<1>7. QED
  BY <1>1, <1>2, <1>3, <1>4, <1>5, <1>6

LEMMA UPollResult ==
  ASSUME TInv, TInv', JInv, UInv, NEW s \in Subs, PollResult(s)
  PROVE  UInv'
<1> USE DEF TInv, TypeOK, Placed, Owning, Early, UInv, PollResult, Goto, idVars, workerVars,
   faultVars
<1>1. Ids'
  BY DEF Ids, Sids
<1>2. Results'
  BY DEF Ids, Results, Outcome, IsFinal, Own, Working
<1>3. Files'
  BY DEF Ids, Files, Own
<1>4. Queued1'
  BY JobsTyped DEF JInv, Ids, Queued1, Unjudged, IsFinal
<1>5. Working'
  BY JobsTyped, SMTT(30) DEF JInv, Ids, Queued1, Working, Unjudged, IsFinal
<1>6. Waiting'
  <2>1. \A t \in Subs : phase[t] \in InWait /\ ~Unjudged(t) => ~Unjudged(t)'
    <3>1. ~Unjudged(s)'
      BY DEF Unjudged, IsFinal
    <3>2. \A t \in Subs : t # s /\ sid[t] # None => Unjudged(t)' = Unjudged(t)
      BY DEF Unjudged, Ids
    <3>3. QED
      BY <3>1, <3>2 DEF InWait
  <2>2. \A t \in Subs : phase'[t] \in InWait => phase[t] \in InWait
    BY DEF InWait
  <2>3. QED
    BY <2>1, <2>2, WaitingKept
<1>7. QED
  BY <1>1, <1>2, <1>3, <1>4, <1>5, <1>6

LEMMA UTakeJob ==
  ASSUME TInv, TInv', JInv, UInv, NEW w \in Workers, TakeJob(w)
  PROVE  UInv'
<1> USE DEF TInv, TypeOK, Placed, Owning, Early, UInv, TakeJob, Work, idVars, clientVars,
   faultVars
<1>0. /\ 1 \in DOMAIN queue /\ queue[1] # None
      /\ \A i \in DOMAIN queue' : i + 1 \in DOMAIN queue /\ queue'[i] = queue[i + 1]
      /\ \A i \in DOMAIN queue : i = 1 \/ (i - 1 \in DOMAIN queue' /\ queue'[i - 1] = queue[i])
  <2>1. queue \in Seq(Job) /\ queue # <<>> /\ queue' = Tail(queue)
    OBVIOUS
  <2>2. QED
    BY <2>1, TailKeeps
<1>b. \A v \in Workers : /\ job'[v] = IF v = w THEN queue[1] ELSE job[v]
                         /\ wpc'[v] = IF v = w THEN "load" ELSE wpc[v]
  <2>1. Head(queue) = queue[1]
    BY TailKeeps
  <2>2. QED
    BY <2>1
<1>a. \A t : Unjudged(t)' = Unjudged(t)
  BY DEF Unjudged
<1>1. Ids'
  BY DEF Ids, Sids
<1>2. Results'
  BY DEF Ids, Results, Outcome, IsFinal, Own, Working
<1>3. Files'
  BY DEF Ids, Files, Own
<1>4. Queued1'
  BY <1>0, <1>a, <1>b, JobsTyped DEF Queued1
<1>5. Working'
  BY <1>0, <1>a, <1>b, JobsTyped DEF Queued1, Working
<1>6. Waiting'
  <2> SUFFICES ASSUME NEW t \in Subs, phase[t] \in InWait PROVE JobOf(t)' \/ ~Unjudged(t)
    BY <1>0, <1>a DEF Waiting, InWait
  <2>1. JobOf(t) \/ ~Unjudged(t)
    BY DEF Waiting, InWait
  <2>2. ASSUME NEW i \in DOMAIN queue, queue[i].sub = t PROVE JobOf(t)'
    <3>1. CASE i = 1
      <4>1. job'[w] # None /\ job'[w].sub = t
        BY <1>0, <1>b, <2>2, <3>1
      <4>2. QED
        BY <4>1 DEF JobOf
    <3>2. CASE i # 1
      <4>1. PICK k \in DOMAIN queue' : queue'[k] = queue[i]
        BY <1>0, <3>2
      <4>2. QED
        BY <2>2, <4>1 DEF JobOf
    <3>3. QED
      BY <3>1, <3>2
  <2>3. ASSUME NEW v \in Workers, job[v] # None, job[v].sub = t PROVE JobOf(t)'
    BY <1>b, <2>3 DEF JobOf
  <2>4. QED
    BY <2>1, <2>2, <2>3 DEF JobOf
<1>7. QED
  BY <1>1, <1>2, <1>3, <1>4, <1>5, <1>6

LEMMA ULoadCode ==
  ASSUME TInv, TInv', JInv, UInv, NEW w \in Workers, LoadCode(w)
  PROVE  UInv'
<1> USE DEF TInv, TypeOK, Placed, Owning, Early, UInv, LoadCode, Work, idVars, clientVars,
   faultVars
<1>1. Ids'
  BY DEF Ids, Sids
<1>2. Results'
  BY DEF Ids, Results, Outcome, IsFinal, Own, Working
<1>3. Files'
  <2>1. job[w].sid = sid[job[w].sub] /\ job[w].sub \in Subs /\ job[w].sid \in Sids
    BY JobsTyped DEF Working
  <2>2. QED
    BY <2>1 DEF Files, Own
<1>4. Queued1'
  <2>1. \A i \in Sids : disk[i].dir => disk'[i].dir
    BY JobsTyped, SMTT(30)
  <2>2. \A i \in DOMAIN queue : Unjudged(queue[i].sub)' = Unjudged(queue[i].sub) /\ queue[i].sid \in Sids
    BY JobsTyped DEF Unjudged
  <2>3. QED
    BY <2>1, <2>2 DEF Queued1
<1>5. Working'
  <2>1. \A i \in Sids : disk[i].dir => disk'[i].dir
    BY JobsTyped, SMTT(30)
  <2>2. \A v \in Workers : job[v] # None => /\ Unjudged(job[v].sub)' = Unjudged(job[v].sub)
                                           /\ job[v].sid \in Sids
    BY JobsTyped DEF Unjudged
  <2>3. job[w] # None /\ job[w].sid = sid[job[w].sub] /\ job[w].sub \in Subs /\ job[w].sid \in Sids
    BY JobsTyped DEF Working
  <2>4. code'[w] \in Own(job[w].sub)
    BY <2>3 DEF Files, Own, Ids
  <2>5. \A v \in Workers : v # w => code'[v] = code[v] /\ wpc'[v] = wpc[v]
    OBVIOUS
  <2>6. QED
    BY <2>1, <2>2, <2>3, <2>4, <2>5, SMTT(30) DEF Working
<1>6. Waiting'
  <2>1. \A t \in Subs : phase[t] \in InWait /\ ~Unjudged(t) => ~Unjudged(t)'
    BY DEF Unjudged
  <2>2. \A t \in Subs : phase'[t] \in InWait => phase[t] \in InWait
    BY DEF InWait
  <2>3. QED
    BY <2>1, <2>2, WaitingKept
<1>7. QED
  BY <1>1, <1>2, <1>3, <1>4, <1>5, <1>6

LEMMA USaveResult ==
  ASSUME TInv, TInv', JInv, UInv, NEW w \in Workers, SaveResult(w)
  PROVE  UInv'
<1> USE DEF TInv, TypeOK, Placed, Owning, Early, UInv, SaveResult, EndJob, Work, idVars,
   clientVars, faultVars
<1>1. Ids'
  BY DEF Ids, Sids
<1>2. Results'
  BY DEF Ids, Results, Outcome, IsFinal, Own, Working
<1>3. Files'
  BY DEF Ids, Files, Own
<1>4. Queued1'
  BY JobsTyped DEF JInv, Ids, Queued1, Unjudged, IsFinal
<1>5. Working'
  BY JobsTyped, SMTT(30) DEF JInv, Ids, Queued1, Working, Unjudged, IsFinal
<1>6. Waiting'
  <2> SUFFICES ASSUME NEW t \in Subs, phase[t] \in InWait PROVE JobOf(t)' \/ ~Unjudged(t)
    BY DEF Waiting, InWait, Unjudged
  <2>1. CASE job[w] # None /\ job[w].sub = t
    BY <2>1 DEF Working
  <2>2. CASE ~(job[w] # None /\ job[w].sub = t)
    BY <2>2 DEF Waiting, JobOf, InWait
  <2>3. QED
    BY <2>1, <2>2
<1>7. QED
  BY <1>1, <1>2, <1>3, <1>4, <1>5, <1>6

LEMMA USaveIgnored ==
  ASSUME TInv, TInv', JInv, UInv, NEW w \in Workers, SaveIgnored(w)
  PROVE  UInv'
<1> USE DEF TInv, TypeOK, Placed, Owning, Early, UInv, SaveIgnored, EndJob, Work, idVars,
   clientVars, faultVars
<1>1. Ids'
  BY DEF Ids, Sids
<1>2. Results'
  BY DEF Ids, Results, Outcome, IsFinal, Own, Working
<1>3. Files'
  BY DEF Ids, Files, Own
<1>4. Queued1'
  BY JobsTyped DEF JInv, Ids, Queued1, Unjudged, IsFinal
<1>5. Working'
  BY JobsTyped, SMTT(30) DEF JInv, Ids, Queued1, Working, Unjudged, IsFinal
<1>6. Waiting'
  <2> SUFFICES ASSUME NEW t \in Subs, phase[t] \in InWait PROVE JobOf(t)' \/ ~Unjudged(t)
    BY DEF Waiting, InWait, Unjudged
  <2>1. CASE job[w] # None /\ job[w].sub = t
    BY <2>1 DEF Working
  <2>2. CASE ~(job[w] # None /\ job[w].sub = t)
    BY <2>2 DEF Waiting, JobOf, InWait
  <2>3. QED
    BY <2>1, <2>2
<1>7. QED
  BY <1>1, <1>2, <1>3, <1>4, <1>5, <1>6

LEMMA UCounterReadDone ==
  ASSUME TInv, TInv', JInv, UInv, CounterReadDone
  PROVE  UInv'
<1> USE DEF TInv, TypeOK, Placed, Owning, Early, UInv, CounterReadDone, clientVars,
   workerVars, faultVars
<1>1. Ids'
  BY DEF Ids, Sids
<1>2. Results'
  BY DEF Ids, Results, Outcome, IsFinal, Own, Working
<1>3. Files'
  BY DEF Ids, Files, Own
<1>4. Queued1'
  BY JobsTyped DEF JInv, Ids, Queued1, Unjudged, IsFinal
<1>5. Working'
  BY JobsTyped DEF JInv, Ids, Queued1, Working, Unjudged, IsFinal
<1>6. Waiting'
  BY JobsTyped DEF JInv, Ids, Results, Waiting, JobOf, Unjudged, IsFinal
<1>7. QED
  BY <1>1, <1>2, <1>3, <1>4, <1>5, <1>6

LEMMA UPersistCounter ==
  ASSUME TInv, TInv', JInv, UInv, NEW n \in counterWrites, PersistCounter(n)
  PROVE  UInv'
<1> USE DEF TInv, TypeOK, Placed, Owning, Early, UInv, PersistCounter, clientVars,
   workerVars, faultVars
<1>1. Ids'
  BY DEF Ids, Sids
<1>2. Results'
  BY DEF Ids, Results, Outcome, IsFinal, Own, Working
<1>3. Files'
  BY DEF Ids, Files, Own
<1>4. Queued1'
  BY JobsTyped DEF JInv, Ids, Queued1, Unjudged, IsFinal
<1>5. Working'
  BY JobsTyped DEF JInv, Ids, Queued1, Working, Unjudged, IsFinal
<1>6. Waiting'
  BY JobsTyped DEF JInv, Ids, Results, Waiting, JobOf, Unjudged, IsFinal
<1>7. QED
  BY <1>1, <1>2, <1>3, <1>4, <1>5, <1>6

-----------------------------------------------------------------------------
(* What holds until a reset or a crash, as an invariant.                   *)

Inv == TInv /\ JInv /\ (Undisturbed => UInv)

LEMMA InvInit == Init => Inv
<1> SUFFICES ASSUME Init PROVE JInv /\ UInv
  BY TInvInit DEF Inv
<1>1. JInv
  BY DEF Init, JInv
<1>2. Ids /\ Results /\ Files
  BY DEF Init, Ids, Results, Files, NoDir
<1>3. Queued1 /\ Working /\ Waiting
  BY DEF Init, Queued1, Working, Waiting
<1>4. QED
  BY <1>1, <1>2, <1>3 DEF UInv

\* A reset or a crash is never undone, and nothing else is one.
LEMMA StaysDisturbed ==
  ASSUME TInv, [Next]_vars, Undisturbed'
  PROVE  Undisturbed /\ UNCHANGED <<resets, crashes>>
<1>1. /\ resets \in Nat /\ crashes \in Nat /\ resets' = 0 /\ crashes' = 0
  BY DEF TInv, TypeOK, Undisturbed
<1>2. UNCHANGED <<resets, crashes>> \/ resets' = resets + 1 \/ crashes' = crashes + 1
  <2>1. ASSUME NEW s \in Subs, SubmitStep(s) \/ PollResult(s) PROVE UNCHANGED <<resets, crashes>>
    BY <2>1 DEF SubmitStep, EnsureCounter, SubmitId, SubmitEnqueue, SubmitOpenSource,
       SubmitWriteSource,
       SubmitMeta, SubmitFails, PollResult, faultVars
  <2>2. ASSUME NEW w \in Workers, WorkerStep(w) PROVE UNCHANGED <<resets, crashes>>
    BY <2>2 DEF WorkerStep, TakeJob, LoadCode, LoadFails, Judge, SaveResult, SaveFails,
       SaveIgnored, faultVars
  <2>3. CounterStep \/ UNCHANGED vars => UNCHANGED <<resets, crashes>>
    BY DEF CounterStep, CounterReadDone, PersistCounter, vars, faultVars
  <2>4. Reset => UNCHANGED <<resets, crashes>> \/ resets' = resets + 1
    BY DEF Reset, ResetEmptyDir, ResetCounter, ResetResults, ResetFails
  <2>5. Crash => crashes' = crashes + 1
    BY DEF Crash
  <2>6. QED
    BY <2>1, <2>2, <2>3, <2>4, <2>5 DEF Next
<1>3. QED
  BY <1>1, <1>2 DEF Undisturbed

\* Without a reset under way, a reset begins or fails at once.
LEMMA NoReset ==
  ASSUME TInv, UInv, UNCHANGED <<resets, crashes>>
  PROVE  ~Reset /\ ~Crash
BY DEF TInv, TypeOK, UInv, Ids, Reset, ResetEmptyDir, ResetCounter, ResetResults,
   ResetFails, Crash

LEMMA InvStep == Inv /\ [Next]_vars => Inv'
<1> SUFFICES ASSUME Inv, [Next]_vars, Undisturbed' PROVE UInv'
  BY TStep, JStep DEF Inv
<1>0. TInv /\ TInv' /\ JInv /\ UInv /\ ~Reset /\ ~Crash
  BY TStep, StaysDisturbed, NoReset DEF Inv
<1>1. ASSUME NEW s \in Subs, SubmitStep(s) \/ PollResult(s) PROVE UInv'
  BY <1>0, <1>1, UEnsureCounter, USubmitId, USubmitEnqueue, USubmitOpenSource,
     USubmitWriteSource,
     USubmitMeta, USubmitFails, UPollResult DEF SubmitStep
<1>2. ASSUME NEW w \in Workers, WorkerStep(w) PROVE UInv'
  BY <1>0, <1>2, UTakeJob, ULoadCode, ULoadFails, UJudge, USaveResult, USaveFails,
     USaveIgnored
  DEF WorkerStep
<1>3. CASE CounterStep
  BY <1>0, <1>3, UCounterReadDone, UPersistCounter DEF CounterStep
<1>4. CASE UNCHANGED vars
  <2>1. Ids' /\ Results' /\ Files'
    BY <1>0, <1>4 DEF UInv, Ids, Results, Files, vars, idVars, clientVars, workerVars,
       faultVars
  <2>2. \A t : JobOf(t)' = JobOf(t) /\ Unjudged(t)' = Unjudged(t)
    BY <1>4 DEF JobOf, Unjudged, vars, idVars, clientVars, workerVars, faultVars
  <2>3. Queued1' /\ Working' /\ Waiting'
    BY <1>0, <1>4, <2>2 DEF UInv, Queued1, Working, Waiting, vars, idVars, clientVars,
       workerVars, faultVars
  <2>4. QED
    BY <2>1, <2>3 DEF UInv
<1>5. QED
  BY <1>0, <1>1, <1>2, <1>3, <1>4 DEF Next

\* Until a reset or a crash every client that is given a result is given the
\* result of its own submission, judged on its own code (submit, getResult and
\* the worker share ids, directories and the map).
THEOREM AnswersAreOwn == Spec => []AnswerIsOwn
<1>1. Inv => AnswerIsOwn
  BY DEF Inv, UInv, Results, AnswerIsOwn, Outcome, Own
<1>2. QED
  BY <1>1, InvInit, InvStep, PTL DEF Spec

\* Until a reset or a crash no client polls for what is neither queued, nor with
\* a worker, nor in the map, unless the response that held it was lost.
THEOREM NothingIsLost == Spec => []NothingVanishes
<1>1. Inv => NothingVanishes
  <2> SUFFICES ASSUME Inv, Undisturbed, NEW s \in Subs, phase[s] = "polling", ~JobOf(s)
               PROVE  IsFinal(results[sid[s]]) \/ (LoseResponses /\ popped[s] # None)
    BY DEF NothingVanishes
  <2>1. ~Unjudged(s)
    BY DEF Inv, UInv, Waiting
  <2>2. popped[s] # None => LoseResponses
    BY DEF Inv, UInv, Results
  <2>3. QED
    BY <2>1, <2>2 DEF Unjudged
<1>2. QED
  BY <1>1, InvInit, InvStep, PTL DEF Spec

-----------------------------------------------------------------------------
(* The refinement of JudgeService.                                         *)

\* What the service shows of a submission depends on its result, in the map or
\* taken, and on its job, from the moment it is queued.
LEMMA SameView ==
  ASSUME NEW t \in Subs, phase[t] \in Early <=> phase'[t] \in Early,
         phase[t] \notin Early => results'[sid'[t]] = results[sid[t]] /\ popped'[t] = popped[t],
         phase[t] \notin Early /\ Unjudged(t) => (JobOf(t)' <=> JobOf(t))
  PROVE  Stage(t)' = Stage(t) /\ Verdict(t)' = Verdict(t)
<1>1. CASE phase[t] \in Early
  <2>1. Stage(t) = "idle" /\ Stage(t)' = "idle"
    BY <1>1 DEF Stage, Early
  <2>2. QED
    BY <2>1 DEF Verdict
<1>2. CASE phase[t] \notin Early
  <2>1. Stage(t)' = Stage(t)
    BY <1>2 DEF Stage, Early, Unjudged
  <2>2. QED
    BY <1>2, <2>1 DEF Verdict
<1>3. QED
  BY <1>1, <1>2

\* The jobs stay where they are.
LEMMA SameJobs ==
  ASSUME UNCHANGED <<queue, job, wpc>>, NEW t \in Subs
  PROVE  (JobOf(t)' <=> JobOf(t)) /\ Unsaved(t)' = Unsaved(t)
<1>1. JobOf(t)' <=> JobOf(t)
  BY DEF JobOf
<1>2. \A p \in {"save", "saveError"} : Saving(t, p)' <=> Saving(t, p)
  BY DEF Saving
<1>3. QED
  BY <1>1, <1>2 DEF Unsaved

\* A step of one worker at its own job, which it keeps.
LEMMA OtherJobs ==
  ASSUME TInv, JInv, NEW w \in Workers, job[w] # None, UNCHANGED job,
         \A v \in Workers \ {w} : wpc'[v] = wpc[v],
         NEW t \in Subs, t # job[w].sub
  PROVE  Unsaved(t)' = Unsaved(t)
<1>1. \A p \in {"save", "saveError"} : Saving(t, p)' <=> Saving(t, p)
  BY DEF Saving
<1>2. QED
  BY <1>1 DEF Unsaved

\* What is still to be saved is known by where the one worker with the job is.
LEMMA UnsavedIs ==
  \A w \in Workers : TInv /\ JInv /\ job[w] # None =>
    Unsaved(job[w].sub) = IF wpc[w] = "save" THEN 2 ELSE IF wpc[w] = "saveError" THEN 1 ELSE 0
<1> SUFFICES ASSUME NEW w \in Workers, TInv, JInv, job[w] # None
             PROVE  Unsaved(job[w].sub) =
                      IF wpc[w] = "save" THEN 2 ELSE IF wpc[w] = "saveError" THEN 1 ELSE 0
  OBVIOUS
<1>1. ASSUME NEW v \in Workers, wpc[v] \in {"save", "saveError"}, job[v].sub = job[w].sub
      PROVE  v = w
  BY <1>1 DEF TInv, Placed, JInv
<1>2. \A p \in {"save", "saveError"} : Saving(job[w].sub, p) <=> wpc[w] = p
  BY <1>1 DEF Saving
<1>3. QED
  BY <1>2 DEF Unsaved

\* When nothing of that changes the service stutters.
LEMMA Stutters ==
  ASSUME Undisturbed, Undisturbed',
         \A t \in Subs : Stage(t)' = Stage(t) /\ Verdict(t)' = Verdict(t) /\ Unsaved(t)' = Unsaved(t)
  PROVE  UNCHANGED Service!vars
BY DEF Service!vars

\* When one submission goes a stage further, so does the service.
LEMMA Moves ==
  ASSUME Undisturbed, Undisturbed', NEW s \in Subs,
         \A t \in Subs \ {s} :
           Stage(t)' = Stage(t) /\ Verdict(t)' = Verdict(t) /\ Unsaved(t)' = Unsaved(t),
         \/ /\ Stage(s) = "idle" /\ Verdict(s)' = Verdict(s) /\ Unsaved(s)' = Unsaved(s)
            /\ Stage(s)' = "accepted" \/ (DiskMayFail /\ Stage(s)' = "refused")
         \/ /\ Stage(s) = "accepted" /\ Stage(s)' = "judged" /\ Verdict(s)' \in {"done", "error"}
            /\ Unsaved(s)' \in 0 .. 2 /\ (Verdict(s)' = "done" <=> Unsaved(s)' = 2)
         \/ /\ DiskMayFail /\ Unsaved(s) > 0 /\ Unsaved(s)' = Unsaved(s) - 1
            /\ Stage(s)' = "judged" /\ Verdict(s)' = "error"
         \/ Stage(s)' = Stage(s) /\ Verdict(s)' = Verdict(s) /\ Unsaved(s)' = 0
         \/ /\ Stage(s) = "judged" /\ Stage(s)' = "delivered"
            /\ Verdict(s)' = Verdict(s) /\ Unsaved(s)' = Unsaved(s)
  PROVE  Service!Next
<1> DEFINE stages == [t \in Subs |-> Stage(t)]
           verdicts == [t \in Subs |-> Verdict(t)]
           unsaveds == [t \in Subs |-> Unsaved(t)]
<1>1. /\ stages' = [stages EXCEPT ![s] = Stage(s)'] /\ verdicts' = [verdicts EXCEPT ![s] = Verdict(s)']
      /\ unsaveds' = [unsaveds EXCEPT ![s] = Unsaved(s)']
  OBVIOUS
<1>2. /\ stages[s] = Stage(s) /\ unsaveds[s] = Unsaved(s)
      /\ Verdict(s)' = Verdict(s) => verdicts' = verdicts
      /\ Unsaved(s)' = Unsaved(s) => unsaveds' = unsaveds
      /\ Stage(s)' = Stage(s) => stages' = stages
  BY <1>1
<1>3. CASE /\ Stage(s) = "idle" /\ Verdict(s)' = Verdict(s) /\ Unsaved(s)' = Unsaved(s)
           /\ Stage(s)' = "accepted" \/ (DiskMayFail /\ Stage(s)' = "refused")
  BY <1>1, <1>2, <1>3 DEF Service!Next, Service!Accept, Service!Refuse, Service!Goto
<1>4. CASE /\ Stage(s) = "accepted" /\ Stage(s)' = "judged" /\ Verdict(s)' \in {"done", "error"}
           /\ Unsaved(s)' \in 0 .. 2 /\ (Verdict(s)' = "done" <=> Unsaved(s)' = 2)
  <2>1. Service!Judge(s)
    <3>1. PICK v \in {"done", "error"}, n \in 0 .. 2 : v = Verdict(s)' /\ n = Unsaved(s)'
      BY <1>4
    <3>2. (v = "done" <=> n = 2) /\ verdicts' = [verdicts EXCEPT ![s] = v]
          /\ unsaveds' = [unsaveds EXCEPT ![s] = n]
      BY <1>1, <1>4, <3>1
    <3>3. stages[s] = "accepted" /\ stages' = [stages EXCEPT ![s] = "judged"]
      BY <1>1, <1>2, <1>4
    <3>4. QED
      BY <3>2, <3>3 DEF Service!Judge, Service!Goto
  <2>2. QED
    BY <2>1 DEF Service!Next
<1>5. CASE /\ DiskMayFail /\ Unsaved(s) > 0 /\ Unsaved(s)' = Unsaved(s) - 1
           /\ Stage(s)' = "judged" /\ Verdict(s)' = "error"
  BY <1>1, <1>2, <1>5 DEF Service!Next, Service!TakeBack, Service!Goto
<1>6. CASE Stage(s)' = Stage(s) /\ Verdict(s)' = Verdict(s) /\ Unsaved(s)' = 0
  BY <1>1, <1>2, <1>6 DEF Service!Next, Service!Settle
<1>7. CASE /\ Stage(s) = "judged" /\ Stage(s)' = "delivered"
           /\ Verdict(s)' = Verdict(s) /\ Unsaved(s)' = Unsaved(s)
  BY <1>1, <1>2, <1>7 DEF Service!Next, Service!Deliver, Service!Goto
<1>8. QED
  BY <1>3, <1>4, <1>5, <1>6, <1>7

\* A publication is seen at the submission of the worker's job, and at no other.
LEMMA PublishSeen ==
  ASSUME TInv, JInv, UInv, TInv', JInv', NEW w \in Workers, job[w] # None,
         NEW st \in {"done", "error"}, Publish(w, st),
         NEW p \in {"save", "saveError", "saveLast"}, Work(w, p),
         UNCHANGED <<clientVars, queue, job>>
  PROVE  \E u \in Subs :
           /\ u = job[w].sub /\ phase[u] \notin Early
           /\ Stage(u)' = "judged" /\ Verdict(u)' = st
           /\ Unsaved(u)' = IF p = "save" THEN 2 ELSE IF p = "saveError" THEN 1 ELSE 0
           /\ \A t \in Subs \ {u} :
                Stage(t)' = Stage(t) /\ Verdict(t)' = Verdict(t) /\ Unsaved(t)' = Unsaved(t)
<1>1. PICK u \in Subs : u = job[w].sub /\ job[w].sid \in Sids /\ job[w].sid = sid[u]
                        /\ phase[u] \notin Early
  BY JobsTyped DEF TInv, UInv, Working, JInv
<1>2. /\ IsFinal(results'[sid[u]]) /\ results'[sid[u]].status = st
      /\ sid' = sid /\ phase' = phase /\ popped' = popped
  <2> DEFINE r == [status |-> st, of |-> job[w].sub, code |-> IF st = "done" THEN code[w] ELSE None]
  <2>1. results'[sid[u]] = r
    BY <1>1 DEF Publish, TInv, TypeOK
  <2>2. code[w] \in Code /\ None \in Code
    BY DEF TInv, TypeOK, Code
  <2>3. r \in Result
    BY <1>1, <2>2 DEF Result
  <2>4. QED
    BY <2>1, <2>3 DEF IsFinal, clientVars
<1>3. \A t \in Subs \ {u} : phase[t] \notin Early => results'[sid[t]] = results[sid[t]]
  BY <1>1 DEF Publish, TInv, TypeOK, UInv, Ids, Early
<1>4. \A t \in Subs : JobOf(t)' <=> JobOf(t)
  BY DEF JobOf
<1>5. \A t \in Subs \ {u} : Stage(t)' = Stage(t) /\ Verdict(t)' = Verdict(t)
  BY <1>2, <1>3, <1>4, SameView
<1>6. wpc'[w] = p /\ \A v \in Workers \ {w} : wpc'[v] = wpc[v]
  BY DEF Work, TInv, TypeOK
<1>7. \A t \in Subs \ {u} : Unsaved(t)' = Unsaved(t)
  BY <1>1, <1>6, OtherJobs
<1>8. Stage(u)' = "judged"
  BY <1>1, <1>2 DEF Stage, Early
<1>9. Verdict(u)' = st
  BY <1>2, <1>8 DEF Verdict
<1>10. Unsaved(u)' = IF p = "save" THEN 2 ELSE IF p = "saveError" THEN 1 ELSE 0
  <2>1. ASSUME NEW v \in Workers, wpc'[v] \in {"save", "saveError"}, job'[v].sub = u PROVE v = w
    BY <1>1, <2>1 DEF TInv, Placed, JInv
  <2>2. \A q \in {"save", "saveError"} : Saving(u, q)' <=> wpc'[w] = q
    BY <1>1, <2>1 DEF Saving
  <2>3. QED
    BY <1>6, <2>2 DEF Unsaved
<1>11. QED
  BY <1>1, <1>5, <1>7, <1>8, <1>9, <1>10

\* The first publication judges the submission, the others take its verdict back.
LEMMA PublishMoves ==
  ASSUME TInv, JInv, UInv, TInv', JInv', Undisturbed, Undisturbed', NEW w \in Workers,
         LoadFails(w) \/ Judge(w) \/ SaveFails(w)
  PROVE  Service!Next
<1>1. job[w] # None /\ UNCHANGED <<clientVars, queue, job>>
  BY DEF LoadFails, Judge, SaveFails, TInv, Placed
<1>2. CASE LoadFails(w) \/ Judge(w)
  <2>1. PICK st \in {"done", "error"}, p \in {"save", "saveError", "saveLast"} :
          Publish(w, st) /\ Work(w, p) /\ (st = "done" <=> p = "save")
    BY <1>2 DEF LoadFails, Judge
  <2>2. PICK u \in Subs :
          /\ u = job[w].sub /\ phase[u] \notin Early
          /\ Stage(u)' = "judged" /\ Verdict(u)' = st
          /\ Unsaved(u)' = IF p = "save" THEN 2 ELSE IF p = "saveError" THEN 1 ELSE 0
          /\ \A t \in Subs \ {u} :
               Stage(t)' = Stage(t) /\ Verdict(t)' = Verdict(t) /\ Unsaved(t)' = Unsaved(t)
    BY <1>1, <2>1, PublishSeen
  <2>3. Unjudged(u) /\ JobOf(u)
    BY <1>1, <1>2, <2>2 DEF LoadFails, Judge, UInv, Working, JobOf
  <2>4. Stage(u) = "accepted"
    BY <2>2, <2>3 DEF Stage, Unjudged, Early
  <2>5. Unsaved(u)' \in 0 .. 2 /\ (Verdict(u)' = "done" <=> Unsaved(u)' = 2)
    BY <2>1, <2>2
  <2>6. QED
    BY <2>2, <2>4, <2>5, Moves
<1>3. CASE SaveFails(w)
  <2>1. DiskMayFail
    BY <1>1, <1>3 DEF SaveFails, CannotSave, UInv, Working
  <2>2. PICK p \in {"saveError", "saveLast"} :
          /\ Publish(w, "error") /\ Work(w, p)
          /\ (wpc[w] = "save" /\ p = "saveError") \/ (wpc[w] = "saveError" /\ p = "saveLast")
    BY <1>3 DEF SaveFails
  <2>3. PICK u \in Subs :
          /\ u = job[w].sub /\ phase[u] \notin Early
          /\ Stage(u)' = "judged" /\ Verdict(u)' = "error"
          /\ Unsaved(u)' = IF p = "save" THEN 2 ELSE IF p = "saveError" THEN 1 ELSE 0
          /\ \A t \in Subs \ {u} :
               Stage(t)' = Stage(t) /\ Verdict(t)' = Verdict(t) /\ Unsaved(t)' = Unsaved(t)
    BY <1>1, <2>2, PublishSeen
  <2>4. Unsaved(u) = IF wpc[w] = "save" THEN 2 ELSE IF wpc[w] = "saveError" THEN 1 ELSE 0
    BY <1>1, <2>3, UnsavedIs
  <2>5. Unsaved(u) > 0 /\ Unsaved(u)' = Unsaved(u) - 1
    BY <2>2, <2>3, <2>4
  <2>6. QED
    BY <2>1, <2>3, <2>5, Moves
<1>4. QED
  BY <1>2, <1>3

\* A job that has been published ends: what it has left is final.
LEMMA EndSettles ==
  ASSUME TInv, JInv, UInv, TInv', JInv', Undisturbed, Undisturbed', NEW w \in Workers,
         SaveResult(w) \/ SaveIgnored(w)
  PROVE  Service!Next
<1>1. /\ wpc[w] \in {"save", "saveError", "saveLast"} /\ job[w] # None
      /\ UNCHANGED <<results, queue, clientVars>>
      /\ wpc'[w] = "idle" /\ job'[w] = None
      /\ \A v \in Workers \ {w} : wpc'[v] = wpc[v] /\ job'[v] = job[v]
  BY DEF SaveResult, SaveIgnored, EndJob, Work, TInv, TypeOK, Placed
<1>2. PICK u \in Subs : u = job[w].sub
  BY <1>1, JobsTyped DEF TInv
<1>3. ~Unjudged(u)
  BY <1>1, <1>2 DEF UInv, Working
<1>4. \A t \in Subs \ {u} : JobOf(t)' <=> JobOf(t)
  BY <1>1, <1>2 DEF JobOf
<1>5. \A t \in Subs : Stage(t)' = Stage(t) /\ Verdict(t)' = Verdict(t)
  BY <1>1, <1>3, <1>4, SameView DEF clientVars
<1>6. \A t \in Subs \ {u} : \A p \in {"save", "saveError"} : Saving(t, p)' <=> Saving(t, p)
  BY <1>1, <1>2 DEF Saving
<1>7. \A p \in {"save", "saveError"} : ~Saving(u, p)'
  <2>1. ASSUME NEW v \in Workers \ {w}, wpc'[v] \in {"save", "saveError"} PROVE job'[v].sub # u
    BY <1>1, <1>2, <2>1 DEF TInv, Placed, JInv
  <2>2. QED
    BY <1>1, <2>1 DEF Saving
<1>8. Unsaved(u)' = 0 /\ \A t \in Subs \ {u} : Unsaved(t)' = Unsaved(t)
  BY <1>6, <1>7 DEF Unsaved
<1>9. QED
  BY <1>5, <1>8, Moves

\* A job that is taken stays the submission's.
LEMMA TakeKeepsJobs ==
  ASSUME TInv, NEW w \in Workers, TakeJob(w), NEW t \in Subs
  PROVE  (JobOf(t)' <=> JobOf(t)) /\ Unsaved(t)' = Unsaved(t)
<1>1. /\ wpc[w] = "idle" /\ job[w] = None /\ wpc'[w] = "load" /\ job'[w] = queue[1]
      /\ \A v \in Workers \ {w} : wpc'[v] = wpc[v] /\ job'[v] = job[v]
      /\ queue[1] # None /\ queue \in Seq(Job) /\ queue # <<>> /\ queue' = Tail(queue)
  BY TailKeeps, JobsTyped DEF TakeJob, Work, TInv, TypeOK, Placed
<1>2. JobOf(t) => JobOf(t)'
  <2>1. ASSUME NEW i \in DOMAIN queue, queue[i].sub = t PROVE JobOf(t)'
    <3>1. i = 1 \/ (i - 1 \in DOMAIN queue' /\ queue'[i - 1] = queue[i])
      BY <1>1, TailKeeps
    <3>2. QED
      BY <1>1, <2>1, <3>1 DEF JobOf
  <2>2. ASSUME NEW v \in Workers, job[v] # None, job[v].sub = t PROVE JobOf(t)'
    BY <1>1, <2>2 DEF JobOf
  <2>3. QED
    BY <2>1, <2>2 DEF JobOf
<1>3. JobOf(t)' => JobOf(t)
  <2>1. ASSUME NEW i \in DOMAIN queue', queue'[i].sub = t PROVE JobOf(t)
    <3>1. i + 1 \in DOMAIN queue /\ queue'[i] = queue[i + 1]
      BY <1>1, TailKeeps
    <3>2. QED
      BY <2>1, <3>1 DEF JobOf
  <2>2. ASSUME NEW v \in Workers, job'[v] # None, job'[v].sub = t PROVE JobOf(t)
    <3>1. 1 \in DOMAIN queue
      BY <1>1, TailKeeps
    <3>2. QED
      BY <1>1, <2>2, <3>1 DEF JobOf
  <2>3. QED
    BY <2>1, <2>2 DEF JobOf
<1>4. \A p \in {"save", "saveError"} : Saving(t, p)' <=> Saving(t, p)
  BY <1>1 DEF Saving
<1>5. QED
  BY <1>2, <1>3, <1>4 DEF Unsaved

\* Queueing a job is the submission's only, and its acceptance.
LEMMA EnqueueAccepts ==
  ASSUME TInv, UInv, Undisturbed, Undisturbed', NEW s \in Subs, SubmitEnqueue(s)
  PROVE  Service!Next
<1>1. /\ phase[s] = "mkdir" /\ phase'[s] \notin Early /\ UNCHANGED <<results, sid, popped, workerVars>>
      /\ \A t \in Subs \ {s} : phase'[t] = phase[t]
  BY DEF SubmitEnqueue, Goto, Early, TInv, TypeOK
<1>2. PICK j \in Job : queue' = Append(queue, j) /\ j.sub = s
  <2>1. sid[s] \in Sids
    BY <1>1 DEF TInv, TypeOK, Placed, Owning
  <2>2. PICK b \in BOOLEAN : queue' = Append(queue, [sid |-> sid[s], sub |-> s, inMemory |-> b])
    BY DEF SubmitEnqueue
  <2>3. [sid |-> sid[s], sub |-> s, inMemory |-> b] \in Job
    BY <2>1 DEF Job
  <2>4. QED
    BY <2>2, <2>3
<1>3. /\ DOMAIN queue' = 1 .. Len(queue) + 1 /\ DOMAIN queue = 1 .. Len(queue) /\ Len(queue) \in Nat
      /\ \A i \in DOMAIN queue : queue'[i] = queue[i]
      /\ queue'[Len(queue) + 1] = j
  BY <1>2, AppendKeeps DEF TInv, TypeOK
<1>4. JobOf(s)' /\ \A t \in Subs \ {s} : JobOf(t)' <=> JobOf(t)
  <2>1. JobOf(s)'
    BY <1>2, <1>3 DEF JobOf
  <2>2. ASSUME NEW t \in Subs \ {s} PROVE JobOf(t)' <=> JobOf(t)
    <3>1. (\E i \in DOMAIN queue' : queue'[i].sub = t) <=> (\E i \in DOMAIN queue : queue[i].sub = t)
      BY <1>2, <1>3
    <3>2. QED
      BY <1>1, <3>1 DEF JobOf, workerVars
  <2>3. QED
    BY <2>1, <2>2
<1>5. ~IsFinal(results[sid[s]]) /\ popped[s] = None
  BY <1>1 DEF UInv, Results
<1>6. Stage(s) = "idle" /\ Stage(s)' = "accepted"
  BY <1>1, <1>4, <1>5 DEF Stage, Early
<1>7. Verdict(s)' = Verdict(s)
  BY <1>6 DEF Verdict
<1>8. \A t \in Subs \ {s} : Stage(t)' = Stage(t) /\ Verdict(t)' = Verdict(t)
  BY <1>1, <1>4, SameView
<1>9. \A t \in Subs : Unsaved(t)' = Unsaved(t)
  BY <1>1 DEF Unsaved, Saving, workerVars
<1>10. QED
  BY <1>6, <1>7, <1>8, <1>9, Moves

\* A handler that fails before it has queued its job is a refusal, one that fails
\* later is not seen: the job is judged all the same.
LEMMA FailureRefuses ==
  ASSUME TInv, JInv, UInv, Undisturbed, Undisturbed', NEW s \in Subs, SubmitFails(s)
  PROVE  Service!Next \/ UNCHANGED Service!vars
<1>1. /\ phase[s] \notin {"new", "counter"} /\ phase'[s] = "failed"
      /\ UNCHANGED <<results, sid, popped, queue, job, wpc>>
      /\ \A t \in Subs \ {s} : phase'[t] = phase[t]
  BY DEF SubmitFails, Goto, TInv, TypeOK, workerVars
<1>2. \A t \in Subs : (JobOf(t)' <=> JobOf(t)) /\ Unsaved(t)' = Unsaved(t)
  BY <1>1, SameJobs
<1>3. \A t \in Subs \ {s} : Stage(t)' = Stage(t) /\ Verdict(t)' = Verdict(t)
  BY <1>1, <1>2, SameView
<1>4. CASE phase[s] = "mkdir"
  <2>1. DiskMayFail
    BY <1>4 DEF SubmitFails
  <2>2. ~JobOf(s)
    BY <1>4 DEF JInv, JobOf, Early
  <2>3. ~IsFinal(results[sid[s]]) /\ popped[s] = None
    BY <1>4 DEF UInv, Results
  <2>4. Stage(s) = "idle" /\ Stage(s)' = "refused"
    BY <1>1, <1>2, <1>4, <2>2, <2>3 DEF Stage, Early
  <2>5. Verdict(s)' = Verdict(s)
    BY <2>4 DEF Verdict
  <2>6. QED
    BY <1>2, <1>3, <2>1, <2>4, <2>5, Moves
<1>5. CASE phase[s] # "mkdir"
  <2>1. phase[s] \notin Early /\ phase'[s] \notin Early
    BY <1>1, <1>5 DEF Early
  <2>2. Stage(s)' = Stage(s) /\ Verdict(s)' = Verdict(s)
    BY <1>1, <1>2, <2>1, SameView
  <2>3. QED
    BY <1>2, <1>3, <2>2, Stutters
<1>6. QED
  BY <1>4, <1>5

LEMMA EngineStep ==
  ASSUME Inv, Inv', [Next]_vars
  PROVE  [Service!Next]_Service!vars
<1>1. CASE ~Undisturbed'
  BY <1>1 DEF Service!Next, Service!Disturbed
<1>2. CASE Undisturbed'
  <2>0. Undisturbed /\ TInv /\ TInv' /\ JInv /\ JInv' /\ UInv /\ ~Reset /\ ~Crash
    BY <1>2, StaysDisturbed, NoReset DEF Inv
  <2>1. ASSUME UNCHANGED <<results, clientVars>>,
               \A t \in Subs : (JobOf(t)' <=> JobOf(t)) /\ Unsaved(t)' = Unsaved(t)
        PROVE  UNCHANGED Service!vars
    <3>1. \A t \in Subs : Stage(t)' = Stage(t) /\ Verdict(t)' = Verdict(t)
      BY <2>1, SameView DEF clientVars
    <3>2. QED
      BY <1>2, <2>0, <2>1, <3>1, Stutters
  <2>2. ASSUME NEW s \in Subs, EnsureCounter(s) PROVE UNCHANGED Service!vars
    <3>1. phase[s] \in Early /\ phase'[s] \in Early
          /\ UNCHANGED <<results, sid, popped, queue, job, wpc>>
          /\ \A t \in Subs \ {s} : phase'[t] = phase[t]
      BY <2>0, <2>2 DEF EnsureCounter, Goto, Early, TInv, TypeOK, workerVars
    <3>2. \A t \in Subs : (JobOf(t)' <=> JobOf(t)) /\ Unsaved(t)' = Unsaved(t)
      BY <3>1, SameJobs
    <3>3. \A t \in Subs : Stage(t)' = Stage(t) /\ Verdict(t)' = Verdict(t)
      BY <3>1, <3>2, SameView
    <3>4. QED
      BY <1>2, <2>0, <3>2, <3>3, Stutters
  <2>3. ASSUME NEW s \in Subs, SubmitId(s) PROVE UNCHANGED Service!vars
    <3>1. /\ phase[s] \in Early /\ phase'[s] \in Early /\ UNCHANGED <<popped, queue, job, wpc>>
          /\ \A t \in Subs \ {s} : phase'[t] = phase[t] /\ sid'[t] = sid[t]
      BY <2>0, <2>3 DEF SubmitId, Goto, Early, TInv, TypeOK, workerVars
    <3>2. counter' = counter + 1 /\ counter \in Nat /\ results' = [results EXCEPT ![counter'] = Queued(s)]
      BY <2>0, <2>3 DEF SubmitId, NextSubmissionId, TInv, TypeOK, Sids, Placed
    <3>3. \A t \in Subs \ {s} : phase[t] \notin Early => sid[t] \in Sids /\ sid[t] <= counter
      BY <2>0 DEF UInv, Ids, Early, TInv, TypeOK
    <3>4. \A t \in Subs \ {s} : phase[t] \notin Early => results'[sid'[t]] = results[sid[t]]
      BY <2>0, <3>1, <3>2, <3>3 DEF TInv, TypeOK, Sids
    <3>5. \A t \in Subs : (JobOf(t)' <=> JobOf(t)) /\ Unsaved(t)' = Unsaved(t)
      BY <3>1, SameJobs
    <3>6. \A t \in Subs : Stage(t)' = Stage(t) /\ Verdict(t)' = Verdict(t)
      BY <3>1, <3>4, <3>5, SameView
    <3>7. QED
      BY <1>2, <2>0, <3>5, <3>6, Stutters
  <2>4. ASSUME NEW s \in Subs, SubmitOpenSource(s) \/ SubmitWriteSource(s) \/ SubmitMeta(s)
        PROVE  UNCHANGED Service!vars
    <3>1. phase[s] \notin Early
      BY <2>0, <2>4 DEF SubmitOpenSource, SubmitWriteSource, SubmitMeta, Early
    <3>2. phase'[s] \notin Early
      BY <3>1, EarlyStays, <2>0
    <3>3. UNCHANGED <<results, sid, popped, queue, job, wpc>>
          /\ \A t \in Subs \ {s} : phase'[t] = phase[t]
      BY <2>0, <2>4 DEF SubmitOpenSource, SubmitWriteSource, SubmitMeta, Goto, TInv, TypeOK, workerVars
    <3>4. \A t \in Subs : (JobOf(t)' <=> JobOf(t)) /\ Unsaved(t)' = Unsaved(t)
      BY <3>3, SameJobs
    <3>5. \A t \in Subs : Stage(t)' = Stage(t) /\ Verdict(t)' = Verdict(t)
      BY <3>1, <3>2, <3>3, <3>4, SameView
    <3>6. QED
      BY <1>2, <2>0, <3>4, <3>5, Stutters
  <2>5. ASSUME NEW s \in Subs, SubmitEnqueue(s) PROVE Service!Next
    BY <1>2, <2>0, <2>5, EnqueueAccepts
  <2>6. ASSUME NEW s \in Subs, SubmitFails(s) PROVE Service!Next \/ UNCHANGED Service!vars
    BY <1>2, <2>0, <2>6, FailureRefuses
  <2>7. ASSUME NEW s \in Subs, PollResult(s) PROVE Service!Next
    <3>1. /\ phase[s] = "polling" /\ phase'[s] \in {"polling", "answered"} /\ sid' = sid
          /\ IsFinal(results[sid[s]]) /\ sid[s] \in Sids
          /\ results'[sid[s]] = None /\ popped'[s] = results[sid[s]]
          /\ \A t \in Subs \ {s} : phase'[t] = phase[t] /\ popped'[t] = popped[t]
          /\ UNCHANGED <<queue, job, wpc>>
      BY <2>0, <2>7 DEF PollResult, Goto, TInv, TypeOK, Placed, Owning, workerVars
    <3>2. Stage(s) = "judged" /\ Stage(s)' = "delivered"
      BY <3>1 DEF Stage, IsFinal
    <3>3. Verdict(s)' = Verdict(s)
      BY <3>1, <3>2 DEF Verdict
    <3>4. \A t \in Subs \ {s} : phase[t] \notin Early => results'[sid[t]] = results[sid[t]]
      BY <2>0, <2>7, <3>1 DEF PollResult, TInv, TypeOK, UInv, Ids, Early
    <3>5. \A t \in Subs : (JobOf(t)' <=> JobOf(t)) /\ Unsaved(t)' = Unsaved(t)
      BY <3>1, SameJobs
    <3>6. \A t \in Subs \ {s} : Stage(t)' = Stage(t) /\ Verdict(t)' = Verdict(t)
      BY <3>1, <3>4, <3>5, SameView
    <3>7. QED
      BY <1>2, <2>0, <3>2, <3>3, <3>5, <3>6, Moves
  <2>8. ASSUME NEW w \in Workers, LoadFails(w) \/ Judge(w) \/ SaveFails(w) PROVE Service!Next
    BY <1>2, <2>0, <2>8, PublishMoves
  <2>9. ASSUME NEW w \in Workers, SaveResult(w) \/ SaveIgnored(w) PROVE Service!Next
    BY <1>2, <2>0, <2>9, EndSettles
  <2>10. ASSUME NEW w \in Workers, TakeJob(w) PROVE UNCHANGED Service!vars
    <3>1. UNCHANGED <<results, clientVars>>
      BY <2>10 DEF TakeJob
    <3>2. QED
      BY <2>0, <2>1, <2>10, <3>1, TakeKeepsJobs
  <2>11. ASSUME NEW w \in Workers, LoadCode(w) PROVE UNCHANGED Service!vars
    <3>1. UNCHANGED <<results, clientVars, queue, job>>
          /\ wpc[w] = "load" /\ wpc'[w] = "judge" /\ \A v \in Workers \ {w} : wpc'[v] = wpc[v]
      BY <2>0, <2>11 DEF LoadCode, Work, TInv, TypeOK
    <3>2. \A t \in Subs : (JobOf(t)' <=> JobOf(t)) /\ Unsaved(t)' = Unsaved(t)
      BY <3>1 DEF JobOf, Unsaved, Saving
    <3>3. QED
      BY <2>1, <3>1, <3>2
  <2>12. CounterStep \/ UNCHANGED vars => UNCHANGED Service!vars
    <3>1. CounterStep \/ UNCHANGED vars => UNCHANGED <<results, clientVars, queue, job, wpc>>
      BY DEF CounterStep, CounterReadDone, PersistCounter, vars, clientVars, workerVars
    <3>2. QED
      BY <2>1, <3>1, SameJobs
  <2>13. QED
    BY <2>0, <2>2, <2>3, <2>4, <2>5, <2>6, <2>7, <2>8, <2>9, <2>10, <2>11, <2>12 DEF Next,
       SubmitStep, WorkerStep
<1>3. QED
  BY <1>1, <1>2

\* Until a reset or a crash the engine is the service: whatever the disk does, a
\* submission that was queued is judged once, although its handler may fail, and
\* one poll takes its verdict, which nothing changes but a disk that fails to
\* save it (submit, startWorker, judgeDefault, getResult).
THEOREM EngineImplementsService == Spec => ImplementsService
<1>1. Init => Service!Init
  <2> SUFFICES ASSUME Init PROVE Service!Init
    OBVIOUS
  <2>1. Undisturbed /\ \A s \in Subs : Stage(s) = "idle" /\ Unsaved(s) = 0
    BY DEF Init, Undisturbed, Stage, Unsaved, Saving
  <2>2. \A s \in Subs : Verdict(s) = None
    BY <2>1 DEF Verdict
  <2>3. QED
    BY <2>1, <2>2 DEF Service!Init
<1>2. Inv /\ Inv' /\ [Next]_vars => [Service!Next]_Service!vars
  BY EngineStep
<1>3. QED
  BY <1>1, <1>2, InvInit, InvStep, PTL DEF Spec, ImplementsService, Service!Spec

=============================================================================
