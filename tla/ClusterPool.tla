----------------------------- MODULE ClusterPool -----------------------------
(***************************************************************************)
(* The clusters of a batch of research problems (batch/evaluator.py:       *)
(* _evaluate_with_workers, _create_cluster_pool, _cleanup_cluster_pool;    *)
(* runner/research_skypilot.py: create_cluster, exec_on_cluster, evaluate; *)
(* cli.py: the handler of Ctrl+C). With more than one cluster the pairs    *)
(* are grouped by the resources they need and every group has a pool of    *)
(* clusters, which its workers borrow; a pair without a pool, or that has  *)
(* waited too long, is evaluated on a cluster of its own, named after the  *)
(* problem and the minute. What the results file becomes is BatchEvaluator.*)
(*                                                                         *)
(* A pair is its place in the queue. A problem stands for its resources.   *)
(***************************************************************************)
EXTENDS Naturals, FiniteSets, Sequences, SequencesExt

CONSTANTS
  Problems, Workers,
  NPairs,       \* the pairs of the batch
  MaxClusters,  \* bound: --clusters
  Part          \* int(clusters * (size / pairs)) of floats, by clusters and size

ASSUME PoolAssumption ==
  NPairs \in Nat \ {0} /\ MaxClusters \in Nat \ {0}

\* The float may be just below a whole number: 98 * (1 / 49) is.
ASSUME PartAssumption ==
  \A c \in 1 .. MaxClusters, s \in 1 .. NPairs :
    /\ Part[c][s] \in Nat
    /\ NPairs * Part[c][s] <= c * s /\ c * s <= NPairs * Part[c][s] + NPairs

Pairs == 1 .. NPairs

VARIABLES
  problem,    \* the problem of each pair
  clusters,   \* --clusters
  keep,       \* --keep-clusters
  main,       \* where the main thread is
  next,       \* the head of the queue of pairs
  pools,      \* the clusters of each group that are not lent; no pool: no key
  poolNames,  \* _cluster_pools: all clusters that were created for the pools
  up,         \* the clusters that run
  left,       \* whose score is in results/score.txt of each (0: nobody's)
  pc, pair,
  on,         \* the cluster a worker uses
  recorded,   \* whose score was recorded for a pair (0: an error)
  shared,     \* history: two pairs of one problem began in one minute
  mishap,     \* history: a cluster runs whose launch has failed, or whose down has
  cutShort    \* history: an interrupt has ended the creation, or the wait for the workers

inputs    == <<problem, clusters, keep>>
cloudVars == <<up, left>>
vars == <<inputs, main, next, pools, poolNames, cloudVars, pc, pair, on, recorded,
          shared, mishap, cutShort>>

\* The clusters of a group are numbered; a pair's own cluster is named after its
\* problem and the minute it began in, for which stands the first such pair.
Names == ({"eval-worker"} \X Problems \X (1 .. MaxClusters))
           \union ({"eval"} \X Problems \X Pairs)
NoName == <<"", 0, 0>>

Init ==
  /\ problem \in [Pairs -> Problems]
  /\ clusters \in 1 .. MaxClusters
  /\ keep \in BOOLEAN
  /\ main = "start" /\ next = 1
  /\ pools = <<>> /\ poolNames = {}
  /\ up = {} /\ left = [c \in Names |-> 0]
  /\ pc = [w \in Workers |-> "idle"]
  /\ pair = [w \in Workers |-> 0]
  /\ on = [w \in Workers |-> NoName]
  /\ recorded = [i \in {} |-> 0]
  /\ shared = FALSE /\ mishap = FALSE /\ cutShort = FALSE

-----------------------------------------------------------------------------
(* _create_cluster_pool: the clusters are shared out among the groups.     *)

Members(g) == {i \in Pairs : problem[i] = g}
Size(g) == Cardinality(Members(g))
First(g) == CHOOSE i \in Members(g) : \A j \in Members(g) : i <= j

Groups == {problem[i] : i \in Pairs}

AtMost(a, b) == IF a <= b THEN a ELSE b
AtLeast(a, b) == IF a >= b THEN a ELSE b

Proportion(g) == AtLeast(1, Part[clusters][Size(g)])

\* The groups are given their parts in the order in which the pairs name them,
\* while there are any: what remains after the groups that the first i pairs name.
Remaining[i \in 0 .. NPairs] ==
  IF i = 0 THEN clusters
  ELSE IF First(problem[i]) # i THEN Remaining[i - 1]
  ELSE Remaining[i - 1] - AtMost(Proportion(problem[i]), Remaining[i - 1])

Share(g) == AtMost(Proportion(g), Remaining[First(g) - 1])

\* The order in which what is left is given out: the larger group first, and of
\* two of one size the one that was named first.
Before(g) == {h \in Groups : Size(h) > Size(g) \/ (Size(h) = Size(g) /\ First(h) < First(g))}

\* Fault: what is left of a share is given to every group.
Count_ToAll(g) == Share(g) + (IF Remaining[NPairs] > 0 THEN 1 ELSE 0)

\* What remains goes to the largest groups, one each.
Count(g) == Share(g) + (IF Cardinality(Before(g)) < Remaining[NPairs] THEN 1 ELSE 0)

Planned == {c \in Names : c[1] = "eval-worker" /\ c[2] \in Groups /\ c[3] <= Count(c[2])}

\* The clusters of group g, in the order of their numbers.
InOrder(q, g, created) ==
  /\ q \in SetToSeqs({c \in created : c[2] = g})
  /\ \A i, j \in DOMAIN q : i < j => q[i][3] < q[j][3]

\* All are created at once. A launch that fails may leave its cluster running.
CreatePools ==
  /\ main = "start" /\ clusters > 1
  /\ \E ok \in SUBSET Planned, zombies \in SUBSET Planned :
       /\ ok \intersect zombies = {}
       /\ up' = ok \union zombies
       /\ mishap' = (zombies # {})
       /\ poolNames' = ok
       /\ pools' \in [{c[2] : c \in Planned} -> SetToAllKPermutations(ok)]
       /\ \A g \in DOMAIN pools' : InOrder(pools'[g], g, ok)
       /\ main' = IF ok = {} THEN "ended" ELSE "run"
  /\ UNCHANGED <<inputs, next, left, pc, pair, on, recorded, shared, cutShort>>

NoPools ==
  /\ main = "start" /\ clusters = 1
  /\ main' = "run"
  /\ UNCHANGED <<inputs, next, pools, poolNames, cloudVars, pc, pair, on, recorded, shared,
                 mishap, cutShort>>

-----------------------------------------------------------------------------
(* The workers.                                                            *)

Goto(w, p) == pc' = [pc EXCEPT ![w] = p]

\* Outside the try, and in its finally, the state is saved; a save that raises ends
\* the worker. At the first a pair has been taken that nobody evaluates.
Take(w) ==
  /\ main \notin {"start", "ended"} /\ pc[w] = "idle" /\ next <= NPairs
  /\ pair' = [pair EXCEPT ![w] = next]
  /\ next' = next + 1
  /\ \/ Goto(w, IF problem[next] \in DOMAIN pools THEN "borrow" ELSE "own")
     \/ Goto(w, "dead")
  /\ UNCHANGED <<inputs, main, pools, poolNames, cloudVars, on, recorded, shared, mishap,
                 cutShort>>

\* Fault: the head of the pool is read and stays there.
Borrow_KeepsHead(w) ==
  /\ pc[w] = "borrow"
  /\ LET g == problem[pair[w]] IN
       /\ pools[g] # <<>>
       /\ on' = [on EXCEPT ![w] = Head(pools[g])]
  /\ Goto(w, "launch")
  /\ UNCHANGED <<inputs, main, next, pools, poolNames, cloudVars, pair, recorded, shared,
                 mishap, cutShort>>

Borrow(w) ==
  /\ pc[w] = "borrow"
  /\ LET g == problem[pair[w]] IN
       /\ pools[g] # <<>>
       /\ on' = [on EXCEPT ![w] = Head(pools[g])]
       /\ pools' = [pools EXCEPT ![g] = Tail(@)]
  /\ Goto(w, "launch")
  /\ UNCHANGED <<inputs, main, next, poolNames, cloudVars, pair, recorded, shared, mishap,
                 cutShort>>

\* Fault: the wait for a cluster has no timeout.
BorrowTimesOut_Never(w) == FALSE

\* No cluster came back to the pool in 300 s.
BorrowTimesOut(w) ==
  /\ pc[w] = "borrow" /\ pools[problem[pair[w]]] = <<>>
  /\ Goto(w, "own")
  /\ UNCHANGED <<inputs, main, next, pools, poolNames, cloudVars, pair, on, recorded, shared,
                 mishap, cutShort>>

Own(w) ==
  /\ pc[w] = "own"
  /\ LET p == problem[pair[w]]
         sameMinute == {c \in up \union {on[v] : v \in Workers} : c[1] = "eval" /\ c[2] = p}
     IN  \E name \in sameMinute \union {<<"eval", p, pair[w]>>} :
           /\ on' = [on EXCEPT ![w] = name]
           /\ shared' = (shared \/ name \in sameMinute)
  /\ Goto(w, "launch")
  /\ UNCHANGED <<inputs, main, next, pools, poolNames, cloudVars, pair, recorded, mishap,
                 cutShort>>

\* sky.launch takes the cluster of that name, or makes it.
Launch(w) ==
  /\ pc[w] = "launch"
  /\ up' = up \union {on[w]}
  /\ left' = IF on[w] \in up THEN left ELSE [left EXCEPT ![on[w]] = 0]
  /\ Goto(w, "run")
  /\ UNCHANGED <<inputs, main, next, pools, poolNames, pair, on, recorded, shared, mishap,
                 cutShort>>

Fails(w) ==
  /\ recorded' = [i \in DOMAIN recorded \union {pair[w]} |->
                    IF i = pair[w] THEN 0 ELSE recorded[i]]
  /\ Goto(w, "finally")

\* The launch raises, with or without a cluster that runs.
LaunchFails(w) ==
  /\ pc[w] = "launch"
  /\ up' \in {up, up \union {on[w]}}
  /\ left' = IF on[w] \in up THEN left ELSE [left EXCEPT ![on[w]] = 0]
  /\ Fails(w)
  /\ UNCHANGED <<inputs, main, next, pools, poolNames, pair, on, shared, mishap, cutShort>>

\* The run script makes the directory results if there is none. It writes a
\* score; or it ends before that (a timeout, an evaluation that fails), and what
\* is in score.txt stays; or it finds no number, and score.txt is empty.
Run(w) ==
  /\ pc[w] = "run" /\ on[w] \in up
  /\ \E p \in {pair[w], left[on[w]], 0} : left' = [left EXCEPT ![on[w]] = p]
  /\ Goto(w, "fetch")
  /\ UNCHANGED <<inputs, main, next, pools, poolNames, up, pair, on, recorded, shared, mishap,
                 cutShort>>

\* _fetch_results: whatever score is there.
Fetch(w) ==
  /\ pc[w] = "fetch" /\ on[w] \in up
  /\ recorded' = [i \in DOMAIN recorded \union {pair[w]} |->
                    IF i = pair[w] THEN left[on[w]] ELSE recorded[i]]
  /\ Goto(w, "finally")
  /\ UNCHANGED <<inputs, main, next, pools, poolNames, cloudVars, pair, on, shared, mishap,
                 cutShort>>

\* scp fails, or the cluster was taken down under the run.
FetchFails(w) ==
  /\ \/ pc[w] = "run" /\ on[w] \notin up
     \/ pc[w] = "fetch"
  /\ Fails(w)
  /\ UNCHANGED <<inputs, main, next, pools, poolNames, cloudVars, pair, on, shared, mishap,
                 cutShort>>

\* The save after an evaluation.
Release(w) ==
  /\ \E there \in {"idle", "dead"} : Goto(w, there)
  /\ pair' = [pair EXCEPT ![w] = 0]
  /\ on' = [on EXCEPT ![w] = NoName]

\* Fault: the cluster is put into the pool of any group.
GiveBack_AnyPool(w) ==
  /\ pc[w] = "finally" /\ on[w][1] = "eval-worker"
  /\ \E g \in DOMAIN pools : pools' = [pools EXCEPT ![g] = Append(@, on[w])]
  /\ Release(w)
  /\ UNCHANGED <<inputs, main, next, poolNames, cloudVars, recorded, shared, mishap, cutShort>>

\* The cluster is back in its pool before the state is saved.
GiveBack(w) ==
  /\ pc[w] = "finally" /\ on[w][1] = "eval-worker"
  /\ pools' = [pools EXCEPT ![problem[pair[w]]] = Append(@, on[w])]
  /\ Release(w)
  /\ UNCHANGED <<inputs, main, next, poolNames, cloudVars, recorded, shared, mishap, cutShort>>

\* Fault: a cluster whose evaluation failed is not taken down.
DownOwn_OnSuccess(w) ==
  /\ pc[w] = "finally" /\ on[w][1] = "eval"
  /\ up' = IF keep \/ recorded[pair[w]] = 0 THEN up ELSE up \ {on[w]}
  /\ Release(w)
  /\ UNCHANGED <<inputs, main, next, pools, poolNames, left, recorded, shared, mishap,
                 cutShort>>

\* The finally of evaluate. The exception of a down is ignored.
DownOwn(w) ==
  /\ pc[w] = "finally" /\ on[w][1] = "eval"
  /\ \/ up' = (IF keep THEN up ELSE up \ {on[w]}) /\ UNCHANGED mishap
     \/ ~keep /\ on[w] \in up /\ UNCHANGED up /\ mishap' = TRUE
  /\ Release(w)
  /\ UNCHANGED <<inputs, main, next, pools, poolNames, left, recorded, shared, cutShort>>

NoMoreWork(w) ==
  /\ main \notin {"start", "ended"} /\ pc[w] = "idle" /\ next > NPairs
  /\ Goto(w, "ended")
  /\ UNCHANGED <<inputs, main, next, pools, poolNames, cloudVars, pair, on, recorded, shared,
                 mishap, cutShort>>

-----------------------------------------------------------------------------
(* The main thread.                                                        *)

\* The finally of _evaluate_with_workers. What down_clusters cannot take down stays.
Cleanup ==
  \E stay \in SUBSET (poolNames \intersect up) :
    /\ up' = IF keep THEN up ELSE up \ (poolNames \ stay)
    /\ mishap' = (mishap \/ (~keep /\ stay # {}))
    /\ UNCHANGED left

Ended == \A w \in Workers : pc[w] \in {"ended", "dead"}

Join ==
  /\ main \in {"run", "drain"} /\ Ended
  /\ Cleanup
  /\ main' = "ended"
  /\ UNCHANGED <<inputs, next, pools, poolNames, pc, pair, on, recorded, shared, cutShort>>

\* Ctrl+C. The handler looks for an attribute no evaluator has (_cluster_names)
\* and exits; the executor the main thread is in waits for its threads: for the
\* launches, whose clusters nobody knows then, or for the workers, which go on
\* to the last pair.
Interrupt ==
  /\ \/ /\ main = "start" /\ clusters > 1
        /\ up' \in SUBSET Planned
        /\ main' = "ended" /\ cutShort' = TRUE
        /\ UNCHANGED <<left, mishap>>
     \/ /\ main = "run" /\ main' = "drain"
        /\ UNCHANGED <<cloudVars, mishap, cutShort>>
     \/ /\ main = "drain" /\ main' = "exit" \* the clusters go under the workers
        /\ Cleanup
        /\ cutShort' = TRUE
  /\ UNCHANGED <<inputs, next, pools, poolNames, pc, pair, on, recorded, shared>>

\* The interpreter waits for the threads.
Exit ==
  /\ main = "exit" /\ Ended
  /\ main' = "ended"
  /\ UNCHANGED <<inputs, next, pools, poolNames, cloudVars, pc, pair, on, recorded, shared,
                 mishap, cutShort>>

WorkerStep(w) ==
  \/ Take(w) \/ Borrow(w) \/ BorrowTimesOut(w) \/ Own(w)
  \/ Launch(w) \/ LaunchFails(w) \/ Run(w) \/ Fetch(w) \/ FetchFails(w)
  \/ GiveBack(w) \/ DownOwn(w) \/ NoMoreWork(w)

MainStep == CreatePools \/ NoPools \/ Join \/ Exit

Next == (\E w \in Workers : WorkerStep(w)) \/ MainStep \/ Interrupt

\* Threads run, and what runs on a cluster ends (its timeout).
Fairness == WF_vars(MainStep) /\ \A w \in Workers : WF_vars(WorkerStep(w))
Spec == Init /\ [][Next]_vars
FairSpec == Spec /\ Fairness

-----------------------------------------------------------------------------
(* Properties                                                              *)

\* Every variable has its type; a pair was taken before it was recorded, and a
\* cluster is in the pool of its own group.
TypeOK ==
  /\ main \in {"start", "run", "drain", "exit", "ended"}
  /\ next \in 1 .. NPairs + 1
  /\ \A g \in DOMAIN pools : \A i \in DOMAIN pools[g] :
       pools[g][i] \in poolNames /\ pools[g][i][2] = g
  /\ up \subseteq Names /\ poolNames \subseteq Names
  /\ left \in [Names -> 0 .. NPairs]
  /\ \A w \in Workers :
       /\ pc[w] \in {"idle", "ended"} => pair[w] = 0
       /\ pair[w] = 0 => pc[w] \in {"idle", "ended", "dead"}
       /\ pc[w] \in {"launch", "run", "fetch", "finally"} <=> on[w] # NoName
       /\ pair[w] \in 0 .. next - 1
  /\ DOMAIN recorded \subseteq 1 .. next - 1
  /\ \A i \in DOMAIN recorded : recorded[i] \in 0 .. NPairs

\* Every cluster that was asked for goes to a group, and no more than were
\* asked for (_create_cluster_pool: shares rounded down, remainders, minima).
AllAreShared == Cardinality(Planned) = clusters

\* A cluster of a pool is in its pool once, or lent to one worker: however
\* evaluations fail and waits time out, no two runs share one and none is lost
\* ("Each worker uses a dedicated cluster", evaluator.py:376).
LentToOne ==
  \A c \in poolNames :
    Cardinality({i \in DOMAIN pools[c[2]] : pools[c[2]][i] = c})
      + Cardinality({w \in Workers : on[w] = c}) = 1

\* Without --keep-clusters no cluster is left when the batch is over, whatever
\* failed and whichever clusters were shared, unless a failed launch or down
\* left it, or an interrupt cut the creation or the wait short.
NothingLeftUp == main = "ended" /\ ~keep /\ ~mishap /\ ~cutShort => up = {}

\* Once a pair has been taken the batch ends, with a result for every pair except
\* those whose workers a failed save has ended, or those nobody took before every
\* worker had ended so: no worker waits for good for a cluster another one has, or
\* has died with (_evaluate_with_workers).
BatchEnds ==
  <>(main = "ended" /\
     (next > 1 =>
        \/ \A w \in Workers : pc[w] = "dead"
        \/ \A i \in Pairs : i \in DOMAIN recorded \/ \E w \in Workers : pc[w] = "dead" /\ pair[w] = i))

-----------------------------------------------------------------------------
\* "No score parsed - this is an infrastructure/evaluator error"
\* (research_skypilot.py): a score that is recorded is the pair's own.
ScoreIsOwn == ~shared /\ ~cutShort => \A i \in DOMAIN recorded : recorded[i] \in {0, i}
=============================================================================
