-------------------------- MODULE ClusterPoolProofs --------------------------
(***************************************************************************)
(* What the pools of a batch keep, for any number of pairs, problems,      *)
(* clusters and workers: the clusters are all shared out, every cluster of *)
(* a pool is in its pool once or lent to one worker, and none is left when *)
(* the batch is over.                                                      *)
(***************************************************************************)
EXTENDS ClusterPool, FiniteSetTheorems, TLAPS

USE PoolAssumption

-----------------------------------------------------------------------------
(* The clusters are shared out (_create_cluster_pool).                     *)

\* What is chosen before anything happens.
Chosen == problem \in [Pairs -> Problems] /\ clusters \in 1 .. MaxClusters

\* A set of naturals has a least element: the induction of this module.
LEMMA Least ==
  ASSUME NEW T, T \subseteq Nat, T # {}
  PROVE  \E x \in T : \A y \in T : x <= y
<1>1. PICK x \in T : \A y \in T : ~(<<y, x>> \in OpToRel(<, Nat))
  BY WFMin, NatLessThanWellFounded, Zenon
<1>2. ASSUME NEW y \in T PROVE x <= y
  <2>1. y < x => <<y, x>> \in {p \in Nat \X Nat : p[1] < p[2]}
    OBVIOUS
  <2>2. <<y, x>> \notin {p \in Nat \X Nat : p[1] < p[2]}
    BY <1>1, Zenon DEF OpToRel
  <2>3. QED
    BY <2>1, <2>2
<1>3. QED
  BY <1>2

LEMMA GroupsAre ==
  ASSUME Chosen
  PROVE  /\ \A g \in Groups : First(g) \in Pairs /\ problem[First(g)] = g
         /\ \A i \in Pairs : problem[i] \in Groups /\ First(problem[i]) <= i
         /\ Groups \subseteq Problems
<1>1. ASSUME NEW g \in Groups
      PROVE  First(g) \in Members(g) /\ \A j \in Members(g) : First(g) <= j
  <2>1. Members(g) \subseteq Nat /\ Members(g) # {}
    BY DEF Groups, Members, Pairs
  <2>2. \E i \in Members(g) : \A j \in Members(g) : i <= j
    BY <2>1, Least
  <2>3. QED
    BY <2>2 DEF First
<1>2. QED
  BY <1>1 DEF Groups, Members, Pairs, Chosen

LEMMA SizeIs ==
  ASSUME Chosen, NEW g \in Groups
  PROVE  IsFiniteSet(Members(g)) /\ Size(g) \in 1 .. NPairs
<1>1. IsFiniteSet(Pairs) /\ Cardinality(Pairs) = NPairs
  BY FS_Interval DEF Pairs
<1>2. IsFiniteSet(Members(g)) /\ Cardinality(Members(g)) <= NPairs
  BY <1>1, FS_Subset DEF Members
<1>3. Members(g) # {}
  BY DEF Groups, Members
<1>4. Cardinality(Members(g)) # 0 /\ Cardinality(Members(g)) \in Nat
  BY <1>2, <1>3, FS_EmptySet, FS_CardinalityType
<1>5. QED
  BY <1>2, <1>4 DEF Size

LEMMA ProportionIs ==
  ASSUME Chosen, NEW g \in Groups
  PROVE  /\ Proportion(g) \in Nat \ {0}
         /\ clusters * Size(g) <= NPairs * Proportion(g) + NPairs
<1>1. Size(g) \in 1 .. NPairs
  BY SizeIs
<1> DEFINE p == Part[clusters][Size(g)]
<1>2. p \in Nat /\ clusters * Size(g) <= NPairs * p + NPairs
  BY <1>1, PartAssumption DEF Chosen
<1>3. Proportion(g) = AtLeast(1, p)
  BY DEF Proportion
<1> HIDE DEF p
<1>6. Proportion(g) \in Nat \ {0} /\ p <= Proportion(g)
  BY <1>2, <1>3 DEF AtLeast
<1>4. NPairs * p <= NPairs * Proportion(g)
  BY <1>2, <1>6
<1>5. clusters * Size(g) \in Nat /\ NPairs * p \in Nat /\ NPairs * Proportion(g) \in Nat
  BY <1>1, <1>2, <1>6 DEF Chosen
<1>7. QED
  BY <1>2, <1>4, <1>5, <1>6

\* The equation of Remaining, for the first n pairs.
After(f, i) ==
  IF i = 0 THEN clusters
  ELSE IF First(problem[i]) # i THEN f[i - 1]
  ELSE f[i - 1] - AtMost(Proportion(problem[i]), f[i - 1])

Solves(f, n) == f \in [0 .. n -> Int] /\ \A i \in 0 .. n : f[i] = After(f, i)

\* The recursion defines a function.
LEMMA RemainingIs ==
  ASSUME Chosen
  PROVE  /\ \A i \in 0 .. NPairs : Remaining[i] = After(Remaining, i)
         /\ \A i \in 0 .. NPairs : Remaining[i] \in 0 .. clusters
<1>1. ASSUME NEW n \in 0 .. NPairs
      PROVE  \E f : Solves(f, n)
  <2> DEFINE Bad == {k \in 0 .. NPairs : ~\E f : Solves(f, k)}
  <2>1. SUFFICES ASSUME Bad # {} PROVE FALSE
    OBVIOUS
  <2>2. PICK k \in Bad : \A y \in Bad : k <= y
    <3>1. Bad \subseteq Nat
      OBVIOUS
    <3>2. QED
      BY <2>1, <3>1, Least
  <2>3. CASE k = 0
    <3>1. Solves([i \in 0 .. 0 |-> clusters], 0)
      BY DEF Solves, After, Chosen
    <3>2. QED
      BY <2>2, <2>3, <3>1
  <2>4. CASE k # 0
    <3>1. k - 1 \in 0 .. NPairs /\ k - 1 \notin Bad
      BY <2>2, <2>4
    <3>2. PICK f : Solves(f, k - 1)
      BY <3>1
    <3> DEFINE h == [i \in 0 .. k |-> IF i = k THEN After(f, k) ELSE f[i]]
    <3>3. problem[k] \in Groups
      BY <2>4, GroupsAre DEF Pairs
    <3>4. After(f, k) \in Int
      BY <2>4, <3>2, <3>3, ProportionIs DEF Solves, After, AtMost
    <3>5. h \in [0 .. k -> Int]
      BY <3>2, <3>4 DEF Solves
    <3>6. ASSUME NEW i \in 0 .. k PROVE h[i] = After(h, i)
      BY <2>4, <3>2 DEF Solves, After
    <3>7. QED
      BY <2>2, <3>5, <3>6 DEF Solves
  <2>5. QED
    BY <2>3, <2>4
<1>2. PICK f : Solves(f, NPairs)
  BY <1>1
<1>3. f = [i \in 0 .. NPairs |->
             IF i = 0 THEN clusters
             ELSE IF First(problem[i]) # i THEN f[i - 1]
             ELSE f[i - 1] - AtMost(Proportion(problem[i]), f[i - 1])]
  BY <1>2 DEF Solves, After
<1>4. Remaining = [i \in 0 .. NPairs |->
             IF i = 0 THEN clusters
             ELSE IF First(problem[i]) # i THEN Remaining[i - 1]
             ELSE Remaining[i - 1] - AtMost(Proportion(problem[i]), Remaining[i - 1])]
  BY <1>3 DEF Remaining
<1>5. \A i \in 0 .. NPairs : Remaining[i] = After(Remaining, i)
  BY <1>4, Zenon DEF After
<1>6. ASSUME NEW n \in 0 .. NPairs, Remaining[n] \notin 0 .. clusters PROVE FALSE
  <2> DEFINE Bad == {k \in 0 .. NPairs : Remaining[k] \notin 0 .. clusters}
  <2>1. PICK k \in Bad : \A y \in Bad : k <= y
    <3>1. Bad \subseteq Nat /\ Bad # {}
      BY <1>6
    <3>2. QED
      BY <3>1, Least
  <2>2. k # 0
    BY <1>5, <2>1 DEF After, Chosen
  <2>3. Remaining[k - 1] \in 0 .. clusters /\ clusters \in Nat
    BY <2>1, <2>2 DEF Chosen
  <2>4. problem[k] \in Groups
    BY <2>1, <2>2, GroupsAre DEF Pairs
  <2>5. Remaining[k] \in 0 .. clusters
    BY <1>5, <2>1, <2>2, <2>3, <2>4, ProportionIs DEF After, AtMost
  <2>6. QED
    BY <2>1, <2>5
<1>7. QED
  BY <1>5, <1>6

\* The groups are in one line: what is before one that is before g is before g.
LEMMA BeforeIs ==
  ASSUME Chosen
  PROVE  /\ IsFiniteSet(Groups) /\ Cardinality(Groups) \in Nat
         /\ \A g \in Groups : Cardinality(Before(g)) \in Nat /\ Before(g) \subseteq Groups
         /\ \A g, h \in Groups : g = h \/ g \in Before(h) \/ h \in Before(g)
         /\ \A g, h \in Groups :
              h \in Before(g) => Cardinality(Before(h)) < Cardinality(Before(g))
<1>1. IsFiniteSet(Groups) /\ Cardinality(Groups) \in Nat
  <2>1. problem \in Surjection(Pairs, Groups)
    BY DEF Surjection, Groups, Chosen
  <2>2. IsFiniteSet(Pairs)
    BY FS_Interval DEF Pairs
  <2>3. QED
    BY <2>1, <2>2, FS_Surjection, FS_CardinalityType
<1>2. \A g \in Groups : Before(g) \subseteq Groups
  BY DEF Before
<1>3. \A g \in Groups : IsFiniteSet(Before(g)) /\ Cardinality(Before(g)) \in Nat
  BY <1>1, <1>2, FS_Subset, FS_CardinalityType
<1>4. \A g \in Groups : Size(g) \in Nat /\ First(g) \in Nat /\ problem[First(g)] = g
  BY SizeIs, GroupsAre DEF Pairs
<1>5. \A g, h \in Groups : g = h \/ g \in Before(h) \/ h \in Before(g)
  <2>1. ASSUME NEW g \in Groups, NEW h \in Groups, First(g) = First(h) PROVE g = h
    BY <1>4, <2>1
  <2>2. QED
    BY <1>4, <2>1 DEF Before
<1>6. ASSUME NEW g \in Groups, NEW h \in Groups, h \in Before(g)
      PROVE  Cardinality(Before(h)) < Cardinality(Before(g))
  <2>1. Before(h) \subseteq Before(g) /\ h \notin Before(h)
    BY <1>4, <1>6 DEF Before
  <2>2. Cardinality(Before(h) \union {h}) = Cardinality(Before(h)) + 1
    BY <1>3, <2>1, FS_AddElement
  <2>3. Cardinality(Before(h) \union {h}) <= Cardinality(Before(g))
    BY <1>3, <1>6, <2>1, FS_Subset
  <2>4. QED
    BY <1>3, <2>2, <2>3
<1>7. QED
  BY <1>1, <1>2, <1>3, <1>5, <1>6

\* The groups that get one of r more.
Favoured(r) == {g \in Groups : Cardinality(Before(g)) < r}

LEMMA FavouredIs ==
  ASSUME Chosen, NEW r \in 0 .. Cardinality(Groups)
  PROVE  IsFiniteSet(Favoured(r)) /\ Cardinality(Favoured(r)) = r
<1> DEFINE m == Cardinality(Groups)
<1>1. \A n \in 0 .. m : IsFiniteSet(Favoured(n)) /\ Favoured(n) \subseteq Groups
  BY BeforeIs, FS_Subset DEF Favoured
<1> DEFINE Bad == {n \in 0 .. m : Cardinality(Favoured(n)) # n}
<1>2. SUFFICES ASSUME Bad # {} PROVE FALSE
  BY <1>1
<1>3. PICK n \in Bad : \A y \in Bad : n <= y
  <2>1. Bad \subseteq Nat
    OBVIOUS
  <2>2. QED
    BY <1>2, <2>1, Least
<1>4. n # 0
  <2>1. Favoured(0) = {}
    BY BeforeIs DEF Favoured
  <2>2. Cardinality(Favoured(0)) = 0
    BY <2>1, FS_EmptySet
  <2>3. QED
    BY <1>3, <2>2
<1>5. /\ n \in 1 .. m /\ m \in Nat /\ n - 1 \in Nat
      /\ Cardinality(Favoured(n - 1)) = n - 1 /\ n - 1 \in 0 .. m
  BY <1>3, <1>4, BeforeIs
<1> DEFINE Rest == Groups \ Favoured(n - 1)
<1>6. Rest # {}
  BY <1>1, <1>5
<1>7. PICK g \in Rest : \A h \in Rest : Cardinality(Before(g)) <= Cardinality(Before(h))
  <2> DEFINE Ranks == {Cardinality(Before(h)) : h \in Rest}
  <2>1. Ranks \subseteq Nat /\ Ranks # {}
    BY <1>6, BeforeIs
  <2>2. PICK x \in Ranks : \A y \in Ranks : x <= y
    BY <2>1, Least
  <2>3. PICK g \in Rest : x = Cardinality(Before(g))
    BY <2>2
  <2>4. \A h \in Rest : Cardinality(Before(h)) \in Ranks
    OBVIOUS
  <2>5. QED
    BY <2>2, <2>3, <2>4
<1>8. Cardinality(Before(g)) >= n - 1 /\ Cardinality(Before(g)) \in Nat /\ g \in Groups
  BY <1>5, <1>7, BeforeIs DEF Favoured
<1>9. Before(g) = Favoured(n - 1)
  <2>1. ASSUME NEW h \in Before(g) PROVE h \in Favoured(n - 1)
    <3>1. h \in Groups /\ Cardinality(Before(h)) < Cardinality(Before(g))
      BY <1>8, <2>1, BeforeIs
    <3>2. Cardinality(Before(h)) \in Nat
      BY <3>1, BeforeIs
    <3>3. h \notin Rest
      BY <1>7, <1>8, <3>1, <3>2
    <3>4. QED
      BY <3>1, <3>3
  <2>2. ASSUME NEW h \in Favoured(n - 1) PROVE h \in Before(g)
    <3>1. /\ h \in Groups /\ Cardinality(Before(h)) < n - 1
          /\ Cardinality(Before(h)) \in Nat
      BY <2>2, BeforeIs DEF Favoured
    <3>2. h # g /\ ~(Cardinality(Before(g)) < Cardinality(Before(h)))
      BY <1>5, <1>8, <3>1
    <3>3. QED
      BY <1>8, <3>1, <3>2, BeforeIs
  <2>3. QED
    BY <2>1, <2>2
<1>10. Cardinality(Before(g)) = n - 1
  BY <1>5, <1>9
<1>11. Favoured(n) = Favoured(n - 1) \union {g}
  <2>1. ASSUME NEW h \in Groups, Cardinality(Before(h)) < n, h \notin Favoured(n - 1)
        PROVE  h = g
    <3>1. Cardinality(Before(h)) = n - 1
      BY <1>5, <2>1, BeforeIs DEF Favoured
    <3>2. QED
      BY <1>8, <1>10, <2>1, <3>1, BeforeIs
  <2>2. \A h \in Favoured(n - 1) : h \in Favoured(n)
    BY <1>5, BeforeIs DEF Favoured
  <2>3. g \in Favoured(n)
    BY <1>5, <1>8, <1>10 DEF Favoured
  <2>4. QED
    BY <2>1, <2>2, <2>3 DEF Favoured
<1>12. Cardinality(Favoured(n)) = n
  <2>1. g \notin Favoured(n - 1) /\ IsFiniteSet(Favoured(n - 1))
    BY <1>1, <1>5, <1>7
  <2>2. Cardinality(Favoured(n - 1) \union {g}) = Cardinality(Favoured(n - 1)) + 1
    BY <2>1, FS_AddElement
  <2>3. QED
    BY <1>5, <1>11, <2>2
<1>13. QED
  BY <1>3, <1>12

-----------------------------------------------------------------------------
\* What the groups that the first i pairs name are given, and how much is left.

Named(i) == {g \in Groups : First(g) <= i}
Seen(i) == {j \in Pairs : First(problem[j]) <= i}
Given(i) == {c \in Names : c[1] = "eval-worker" /\ c[2] \in Named(i) /\ c[3] <= Share(c[2])}

\* k clusters of one group.
Row(g, k) == {<<"eval-worker", g, j>> : j \in 1 .. k}

LEMMA RowIs ==
  ASSUME NEW g, NEW k \in Nat
  PROVE  IsFiniteSet(Row(g, k)) /\ Cardinality(Row(g, k)) = k
<1> DEFINE f == [j \in 1 .. k |-> <<"eval-worker", g, j>>]
<1>1. f \in Bijection(1 .. k, Row(g, k))
  BY DEF Row, Bijection, Injection, Surjection, IsInjective
<1>2. ExistsBijection(1 .. k, Row(g, k))
  BY <1>1 DEF ExistsBijection
<1>3. IsFiniteSet(1 .. k) /\ Cardinality(1 .. k) = k
  BY FS_Interval
<1>4. QED
  BY <1>2, <1>3, FS_Bijection

LEMMA ShareIs ==
  ASSUME Chosen, NEW g \in Groups
  PROVE  /\ First(g) \in Pairs /\ First(g) - 1 \in 0 .. NPairs
         /\ Share(g) \in 0 .. clusters
         /\ Remaining[First(g)] = Remaining[First(g) - 1] - Share(g)
         /\ Remaining[First(g)] = 0 \/ Share(g) = Proportion(g)
<1>1. First(g) \in Pairs /\ First(g) - 1 \in 0 .. NPairs /\ problem[First(g)] = g
  BY GroupsAre DEF Pairs
<1>2. Remaining[First(g) - 1] \in 0 .. clusters /\ clusters \in Nat
  BY <1>1, RemainingIs DEF Chosen
<1>3. Remaining[First(g)] = After(Remaining, First(g))
  BY <1>1, RemainingIs DEF Pairs
<1>4. Proportion(g) \in Nat
  BY ProportionIs
<1> DEFINE q == Remaining[First(g) - 1]
<1>5. Remaining[First(g)] = q - AtMost(Proportion(g), q) /\ Share(g) = AtMost(Proportion(g), q)
  BY <1>1, <1>3 DEF After, Share, Pairs
<1> HIDE DEF q
<1>6. q \in 0 .. clusters
  BY <1>2 DEF q
<1>7. QED
  BY <1>1, <1>2, <1>4, <1>5, <1>6 DEF AtMost, q

\* Arithmetic: a part that is not cut short is too low by less than one.
LEMMA OneMore ==
  ASSUME NEW n \in Nat \ {0}, NEW c \in Nat, NEW r \in Nat, NEW s \in Nat, NEW m \in Nat,
         NEW z \in Nat, NEW p \in Nat, p <= r,
         r = 0 \/ n * r + c * s <= n * c + n * m,
         c * z <= n * p + n
  PROVE  r - p = 0 \/ n * (r - p) + c * (s + z) <= n * c + n * (m + 1)
<1>1. n * (r - p) = n * r - n * p
  OBVIOUS
<1>2. c * (s + z) = c * s + c * z
  OBVIOUS
<1>3. n * (m + 1) = n * m + n
  OBVIOUS
<1>4. /\ n * r \in Int /\ n * p \in Int /\ c * s \in Int /\ c * z \in Int
      /\ n * m \in Int /\ n * c \in Int
  OBVIOUS
<1>5. QED
  BY <1>1, <1>2, <1>3, <1>4

\* The loop over the groups: as many are given as have gone, and what is left is
\* no more than the groups' parts have lost by rounding.
SharedOut(i) ==
  /\ IsFiniteSet(Given(i)) /\ Cardinality(Given(i)) = clusters - Remaining[i]
  /\ \/ Remaining[i] = 0
     \/ NPairs * Remaining[i] + clusters * Cardinality(Seen(i))
          <= NPairs * clusters + NPairs * Cardinality(Named(i))

\* A pair that is the first of no group changes nothing.
LEMMA PassOver ==
  ASSUME Chosen, NEW i \in 1 .. NPairs, First(problem[i]) # i, SharedOut(i - 1)
  PROVE  SharedOut(i)
<1>1. Remaining[i] = Remaining[i - 1]
  BY RemainingIs DEF After
<1>2. \A g \in Groups : First(g) # i /\ First(g) \in Nat
  BY GroupsAre DEF Pairs
<1>3. Named(i) = Named(i - 1)
  BY <1>2 DEF Named
<1>4. Seen(i) = Seen(i - 1)
  BY <1>2, GroupsAre DEF Seen
<1>5. Given(i) = Given(i - 1)
  BY <1>3 DEF Given
<1>6. QED
  BY <1>1, <1>3, <1>4, <1>5 DEF SharedOut

LEMMA GiveShare ==
  ASSUME Chosen, NEW i \in 1 .. NPairs, First(problem[i]) = i, SharedOut(i - 1)
  PROVE  SharedOut(i)
<1> DEFINE g == problem[i]
<1>1. g \in Groups /\ First(g) = i /\ i \in Pairs
  BY GroupsAre DEF Pairs
<1> HIDE DEF g
<1>2. /\ Share(g) \in 0 .. clusters /\ clusters \in 1 .. MaxClusters
      /\ Remaining[i] = Remaining[i - 1] - Share(g)
      /\ Remaining[i] = 0 \/ Share(g) = Proportion(g)
      /\ Remaining[i - 1] \in 0 .. clusters /\ Remaining[i] \in 0 .. clusters
  BY <1>1, ShareIs, RemainingIs DEF Chosen
<1>3. \A h \in Groups : First(h) \in Nat /\ (First(h) = i => h = g)
  BY <1>1, GroupsAre DEF Pairs
<1>4. Named(i) = Named(i - 1) \union {g} /\ g \notin Named(i - 1)
  BY <1>1, <1>3 DEF Named
<1>5. Seen(i) = Seen(i - 1) \union Members(g) /\ Seen(i - 1) \intersect Members(g) = {}
  <2>1. \A j \in Pairs : /\ First(problem[j]) \in Nat
                         /\ First(problem[j]) = i <=> problem[j] = g
    BY <1>1, <1>3, GroupsAre
  <2>2. QED
    BY <2>1 DEF Seen, Members
<1>6. Given(i) = Given(i - 1) \union Row(g, Share(g))
  <2>1. Row(g, Share(g)) \subseteq Given(i)
    BY <1>1, <1>2, GroupsAre DEF Row, Given, Named, Names
  <2>2. \A c \in Given(i) : c[2] = g => c \in Row(g, Share(g))
    BY <1>2 DEF Row, Given, Names
  <2>3. QED
    BY <1>4, <2>1, <2>2 DEF Given
<1>7. Given(i - 1) \intersect Row(g, Share(g)) = {}
  BY <1>4 DEF Given, Row
<1>8. IsFiniteSet(Given(i)) /\ Cardinality(Given(i)) = clusters - Remaining[i]
  <2>1. IsFiniteSet(Row(g, Share(g))) /\ Cardinality(Row(g, Share(g))) = Share(g)
    BY <1>2, RowIs
  <2>2. IsFiniteSet(Given(i - 1)) /\ Cardinality(Given(i - 1)) = clusters - Remaining[i - 1]
    BY DEF SharedOut
  <2>3. /\ IsFiniteSet(Given(i))
        /\ Cardinality(Given(i)) = Cardinality(Given(i - 1)) + Cardinality(Row(g, Share(g)))
                                     - Cardinality({})
    BY <1>6, <1>7, <2>1, <2>2, FS_Union
  <2>4. QED
    BY <1>2, <2>1, <2>2, <2>3, FS_EmptySet
<1>9. /\ Cardinality(Named(i - 1)) \in Nat
      /\ Cardinality(Named(i)) = Cardinality(Named(i - 1)) + 1
  <2>1. IsFiniteSet(Named(i - 1)) /\ Cardinality(Named(i - 1)) \in Nat
    BY BeforeIs, FS_Subset, FS_CardinalityType DEF Named
  <2>2. QED
    BY <1>4, <2>1, FS_AddElement
<1>10. /\ Cardinality(Seen(i - 1)) \in Nat
       /\ Cardinality(Seen(i)) = Cardinality(Seen(i - 1)) + Size(g)
  <2>1. IsFiniteSet(Pairs)
    BY FS_Interval DEF Pairs
  <2>2. IsFiniteSet(Seen(i - 1)) /\ Cardinality(Seen(i - 1)) \in Nat
    BY <2>1, FS_Subset, FS_CardinalityType DEF Seen
  <2>3. IsFiniteSet(Members(g)) /\ Size(g) \in Nat
    BY <1>1, SizeIs
  <2>4. Cardinality(Seen(i)) = Cardinality(Seen(i - 1)) + Cardinality(Members(g))
                                 - Cardinality({})
    BY <1>5, <2>2, <2>3, FS_Union
  <2>5. QED
    BY <2>2, <2>3, <2>4, FS_EmptySet DEF Size
<1>11. \/ Remaining[i] = 0
       \/ NPairs * Remaining[i] + clusters * Cardinality(Seen(i))
            <= NPairs * clusters + NPairs * Cardinality(Named(i))
  <2>1. SUFFICES ASSUME Remaining[i] # 0
        PROVE  NPairs * Remaining[i] + clusters * Cardinality(Seen(i))
                 <= NPairs * clusters + NPairs * Cardinality(Named(i))
    OBVIOUS
  <2>2. Share(g) = Proportion(g)
    BY <1>2, <2>1
  <2>3. clusters * Size(g) <= NPairs * Share(g) + NPairs /\ Size(g) \in Nat
    BY <1>1, <2>2, ProportionIs, SizeIs
  <2>4. \/ Remaining[i - 1] = 0
        \/ NPairs * Remaining[i - 1] + clusters * Cardinality(Seen(i - 1))
             <= NPairs * clusters + NPairs * Cardinality(Named(i - 1))
    BY DEF SharedOut
  <2>5. Share(g) \in Nat /\ Share(g) <= Remaining[i - 1] /\ Remaining[i - 1] \in Nat
    BY <1>2
  <2>6. clusters \in Nat
    BY <1>2
  <2>7. \/ Remaining[i - 1] - Share(g) = 0
        \/ NPairs * (Remaining[i - 1] - Share(g)) + clusters * (Cardinality(Seen(i - 1)) + Size(g))
             <= NPairs * clusters + NPairs * (Cardinality(Named(i - 1)) + 1)
    BY <1>9, <1>10, <2>3, <2>4, <2>5, <2>6, OneMore
  <2>8. QED
    BY <1>2, <1>9, <1>10, <2>1, <2>7
<1>12. QED
  BY <1>8, <1>11 DEF SharedOut

LEMMA LoopShares ==
  ASSUME Chosen
  PROVE  SharedOut(NPairs)
<1> DEFINE Bad == {i \in 0 .. NPairs : ~SharedOut(i)}
<1>1. SUFFICES ASSUME Bad # {} PROVE FALSE
  OBVIOUS
<1>2. PICK i \in Bad : \A j \in Bad : i <= j
  <2>1. Bad \subseteq Nat
    OBVIOUS
  <2>2. QED
    BY <1>1, <2>1, Least
<1>3. SharedOut(0)
  <2>1. Named(0) = {} /\ Seen(0) = {}
    BY GroupsAre DEF Named, Seen, Pairs
  <2>2. Given(0) = {}
    BY <2>1 DEF Given
  <2>3. Remaining[0] = clusters /\ clusters \in Nat
    BY RemainingIs DEF After, Chosen
  <2>4. Cardinality({}) = 0 /\ IsFiniteSet({})
    BY FS_EmptySet
  <2>5. NPairs * clusters + clusters * 0 <= NPairs * clusters + NPairs * 0
    BY <2>3
  <2>6. /\ Cardinality(Seen(0)) = 0 /\ Cardinality(Named(0)) = 0
        /\ IsFiniteSet(Given(0)) /\ Cardinality(Given(0)) = clusters - Remaining[0]
    BY <2>1, <2>2, <2>3, <2>4
  <2>7. QED
    BY <2>3, <2>5, <2>6 DEF SharedOut
<1>4. i \in 1 .. NPairs /\ SharedOut(i - 1)
  <2>1. i # 0
    BY <1>2, <1>3
  <2>2. i - 1 \in 0 .. NPairs /\ i - 1 \notin Bad
    BY <1>2, <2>1
  <2>3. QED
    BY <1>2, <2>1, <2>2
<1>5. QED
  BY <1>2, <1>4, PassOver, GiveShare

\* All the clusters that were asked for are given out.
LEMMA GivesAll ==
  ASSUME Chosen
  PROVE  Cardinality(Planned) = clusters
<1> DEFINE r == Remaining[NPairs]
           Extra == {<<"eval-worker", g, Share(g) + 1>> : g \in Favoured(r)}
<1>1. /\ r \in 0 .. clusters /\ clusters \in 1 .. MaxClusters
      /\ IsFiniteSet(Given(NPairs)) /\ Cardinality(Given(NPairs)) = clusters - r
  BY RemainingIs, LoopShares DEF SharedOut, Chosen
<1>2. Named(NPairs) = Groups /\ Seen(NPairs) = Pairs
  BY GroupsAre DEF Named, Seen, Pairs
<1>3. r \in 0 .. Cardinality(Groups)
  <2>1. Cardinality(Pairs) = NPairs
    BY FS_Interval DEF Pairs
  <2>2. r = 0 \/ NPairs * r + clusters * NPairs <= NPairs * clusters + NPairs * Cardinality(Groups)
    BY <1>2, <2>1, LoopShares DEF SharedOut
  <2>3. Cardinality(Groups) \in Nat
    BY BeforeIs
  <2>4. r \in Nat /\ clusters \in Nat
    BY <1>1
  <2> HIDE DEF r
  <2>5. r = 0 \/ NPairs * r <= NPairs * Cardinality(Groups)
    BY <2>2, <2>3, <2>4
  <2>6. QED
    BY <2>3, <2>4, <2>5
<1>4. IsFiniteSet(Favoured(r)) /\ Cardinality(Favoured(r)) = r
  BY <1>3, FavouredIs
<1>5. \A g \in Groups : Share(g) \in 0 .. clusters - r
  <2>1. ASSUME NEW g \in Groups PROVE Share(g) \in 0 .. clusters - r
    <3>1. Share(g) \in 0 .. clusters
      BY <2>1, ShareIs
    <3>2. Row(g, Share(g)) \subseteq Given(NPairs)
      BY <1>1, <1>2, <2>1, <3>1, GroupsAre DEF Row, Given, Names
    <3>3. Cardinality(Row(g, Share(g))) = Share(g)
      BY <3>1, RowIs
    <3>4. Share(g) <= clusters - r
      BY <1>1, <3>2, <3>3, FS_Subset
    <3>5. QED
      BY <3>1, <3>4
  <2>2. QED
    BY <2>1
<1>6. Planned = Given(NPairs) \union Extra
  <2>1. \A g \in Groups :
          /\ g \in Favoured(r) => Count(g) = Share(g) + 1
          /\ g \notin Favoured(r) => Count(g) = Share(g) + 0
    BY DEF Count, Favoured
  <2>2. \A g \in Groups : Share(g) \in Nat
    BY <1>5
  <2>3. \A g \in Favoured(r) : g \in Groups /\ Share(g) + 1 \in 1 .. MaxClusters
    <3>1. r = 0 => Favoured(r) = {}
      BY BeforeIs DEF Favoured
    <3>2. QED
      BY <1>1, <1>5, <3>1 DEF Favoured
  <2>4. Given(NPairs) \subseteq Planned
    BY <1>2, <2>1, <2>2 DEF Given, Planned, Names
  <2>5. Extra \subseteq Planned
    BY <2>1, <2>3, GroupsAre DEF Planned, Names
  <2>6. ASSUME NEW c \in Planned PROVE c \in Given(NPairs) \union Extra
    <3>1. PICK g \in Groups, k \in 1 .. MaxClusters : c = <<"eval-worker", g, k>> /\ k <= Count(g)
      BY <2>6 DEF Planned, Names
    <3>2. CASE k <= Share(g)
      BY <1>2, <2>6, <3>1, <3>2 DEF Given, Planned
    <3>3. CASE ~(k <= Share(g))
      <4>1. g \in Favoured(r) /\ k = Share(g) + 1
        BY <2>1, <2>2, <3>1, <3>3
      <4>2. QED
        BY <3>1, <4>1
    <3>4. QED
      BY <3>2, <3>3
  <2>7. QED
    BY <2>4, <2>5, <2>6
<1>7. Given(NPairs) \intersect Extra = {}
  BY <1>5 DEF Given, Favoured
<1>8. IsFiniteSet(Extra) /\ Cardinality(Extra) = r
  <2> DEFINE f == [g \in Favoured(r) |-> <<"eval-worker", g, Share(g) + 1>>]
  <2>1. f \in Bijection(Favoured(r), Extra)
    BY DEF Bijection, Injection, Surjection, IsInjective
  <2>2. ExistsBijection(Favoured(r), Extra)
    BY <2>1 DEF ExistsBijection
  <2>3. QED
    BY <1>4, <2>2, FS_Bijection
<1>9. Cardinality(Planned) = Cardinality(Given(NPairs)) + Cardinality(Extra) - Cardinality({})
  BY <1>1, <1>6, <1>7, <1>8, FS_Union
<1>10. QED
  BY <1>1, <1>8, <1>9, FS_EmptySet

-----------------------------------------------------------------------------
(* The inductive invariant.                                                *)

OfItsOwn(c) == c \in {"eval"} \X Problems \X Pairs

Idle(w) == pc[w] \in {"idle", "ended", "dead"}
OnCluster == {"launch", "run", "fetch", "finally"}

Inputs ==
  /\ problem \in [Pairs -> Problems] /\ clusters \in 1 .. MaxClusters
  /\ main \in {"start", "run", "drain", "exit", "ended"}
  /\ next \in 1 .. NPairs + 1

\* The pools hold clusters of their own groups, each once.
InPools ==
  /\ pools = [g \in DOMAIN pools |-> pools[g]]
  /\ \A g \in DOMAIN pools : pools[g] \in Seq(Names)
  /\ poolNames \subseteq Names
  /\ \A c \in poolNames : c[1] = "eval-worker" /\ c[2] \in DOMAIN pools
  /\ \A g \in DOMAIN pools : \A i \in 1 .. Len(pools[g]) :
       pools[g][i] \in poolNames /\ pools[g][i][2] = g
  /\ \A g \in DOMAIN pools : \A i, j \in 1 .. Len(pools[g]) :
       pools[g][i] = pools[g][j] => i = j

\* A worker is on no cluster, on one of its pair's pool, or on its pair's own.
OnOne ==
  /\ pc \in [Workers -> {"idle", "borrow", "own", "ended", "dead"} \union OnCluster]
  /\ pair \in [Workers -> 0 .. NPairs]
  /\ on \in [Workers -> Names \union {NoName}]
  /\ \A w \in Workers :
       /\ pair[w] = 0 => Idle(w)
       /\ pc[w] \in {"idle", "ended"} => pair[w] = 0
       /\ pc[w] \in OnCluster <=> on[w] # NoName
       /\ pair[w] < next
       /\ pc[w] = "borrow" => problem[pair[w]] \in DOMAIN pools
       /\ on[w] # NoName =>
            \/ on[w] \in poolNames /\ on[w][2] = problem[pair[w]]
            \/ OfItsOwn(on[w])

Scores ==
  /\ up \subseteq Names
  /\ left \in [Names -> 0 .. NPairs]
  /\ DOMAIN recorded \subseteq 1 .. next - 1
  /\ \A i \in DOMAIN recorded : recorded[i] \in 0 .. NPairs

\* No cluster of a pool is lent twice, nor lent and in the pool, nor lost.
Lent ==
  /\ \A v, w \in Workers : on[v] = on[w] /\ on[w] \in poolNames => v = w
  /\ \A w \in Workers : \A g \in DOMAIN pools : \A i \in 1 .. Len(pools[g]) :
       pools[g][i] # on[w]
  /\ \A c \in poolNames :
       \/ \E i \in 1 .. Len(pools[c[2]]) : pools[c[2]][i] = c
       \/ \E w \in Workers : on[w] = c

\* Somebody knows of every cluster that runs, or knows that he does not.
Known ==
  /\ main \in {"start", "ended"} => \A w \in Workers : Idle(w)
  /\ main = "start" => poolNames = {} /\ up = {}
  /\ main = "exit" => cutShort
  /\ ~keep /\ ~mishap /\ ~cutShort => up \subseteq poolNames \union {on[w] : w \in Workers}
  /\ main = "ended" /\ ~keep /\ ~mishap /\ ~cutShort => up = {}

IInv == Inputs /\ InPools /\ OnOne /\ Scores /\ Lent /\ Known

-----------------------------------------------------------------------------
(* Lemmas about the names, and about the sequences of a pool.              *)

LEMMA NamesAre ==
  /\ NoName \notin Names
  /\ \A c \in Names : c[1] \in {"eval-worker", "eval"} /\ c[2] \in Problems
  /\ \A c : OfItsOwn(c) => c \in Names /\ c[1] = "eval"
BY DEF Names, NoName, OfItsOwn

\* The clusters of a group that were created are each there once.
HoldsAll(q, g, created) ==
  /\ q \in Seq(Names)
  /\ \A i \in 1 .. Len(q) : q[i] \in created /\ q[i][2] = g
  /\ \A i, j \in 1 .. Len(q) : q[i] = q[j] => i = j
  /\ \A c \in created : c[2] = g => \E i \in 1 .. Len(q) : q[i] = c

LEMMA OrderedHoldsAll ==
  ASSUME NEW created, created \subseteq Planned, NEW g, NEW q, InOrder(q, g, created)
  PROVE  HoldsAll(q, g, created)
<1> DEFINE S == {c \in created : c[2] = g}
           T == {<<"eval-worker", g, k>> : k \in 1 .. MaxClusters}
           f == [k \in 1 .. MaxClusters |-> <<"eval-worker", g, k>>]
<1>1. Planned \subseteq Names
  BY DEF Planned
<1>2. IsFiniteSet(S) /\ Cardinality(S) \in Nat
  <2>1. f \in Surjection(1 .. MaxClusters, T)
    BY DEF Surjection
  <2>2. IsFiniteSet(1 .. MaxClusters)
    BY FS_Interval
  <2>3. IsFiniteSet(T)
    BY <2>1, <2>2, FS_Surjection
  <2>4. S \subseteq T
    BY DEF Planned, Names
  <2>5. QED
    BY <2>3, <2>4, FS_Subset, FS_CardinalityType
<1> DEFINE D == 1 .. Cardinality(S)
<1>3. q \in [D -> S] /\ \A i, j \in D : i # j => q[i] # q[j]
  BY DEF InOrder, SetToSeqs
<1>4. q \in Seq(S) /\ Len(q) = Cardinality(S)
  BY <1>2, <1>3
<1>5. q \in Injection(D, S)
  BY <1>3 DEF Injection, IsInjective
<1>6. Cardinality(D) = Cardinality(S)
  BY <1>2, FS_Interval
<1>7. q \in Surjection(D, S)
  BY <1>2, <1>5, <1>6, FS_Injection
<1>8. \A c \in S : \E i \in D : q[i] = c
  BY <1>7 DEF Surjection
<1>9. QED
  BY <1>1, <1>3, <1>4, <1>8 DEF HoldsAll

LEMMA HeadAndTail ==
  ASSUME NEW S, NEW q \in Seq(S), q # <<>>
  PROVE  /\ Tail(q) \in Seq(S) /\ Head(q) = q[1] /\ 1 \in 1 .. Len(q)
         /\ \A i \in 1 .. Len(Tail(q)) : i + 1 \in 1 .. Len(q) /\ Tail(q)[i] = q[i + 1]
         /\ \A i \in 1 .. Len(q) :
              i = 1 \/ (i - 1 \in 1 .. Len(Tail(q)) /\ Tail(q)[i - 1] = q[i])
OBVIOUS

LEMMA AppendIs ==
  ASSUME NEW S, NEW q \in Seq(S), NEW x \in S
  PROVE  /\ Append(q, x) \in Seq(S) /\ Len(q) \in Nat
         /\ Len(Append(q, x)) = Len(q) + 1
         /\ \A i \in 1 .. Len(q) : Append(q, x)[i] = q[i]
         /\ Append(q, x)[Len(q) + 1] = x
OBVIOUS

-----------------------------------------------------------------------------

LEMMA Initially == Init => IInv
<1> SUFFICES ASSUME Init PROVE IInv
  OBVIOUS
<1>1. Inputs
  BY DEF Init, Inputs
<1>2. InPools
  BY DEF Init, InPools
<1>3. OnOne
  BY DEF Init, OnOne, Idle, OnCluster
<1>4. Scores
  BY DEF Init, Scores
<1>5. Lent
  BY DEF Init, Lent
<1>6. Known
  BY DEF Init, Known, Idle
<1>7. QED
  BY <1>1, <1>2, <1>3, <1>4, <1>5, <1>6 DEF IInv

\* A step that neither lends nor takes back.
LEMMA Unmoved ==
  ASSUME IInv, UNCHANGED <<pools, poolNames, on>>
  PROVE  InPools' /\ Lent'
BY DEF IInv, InPools, Lent

LEMMA TakeKeeps ==
  ASSUME IInv, NEW w \in Workers, Take(w)
  PROVE  IInv'
<1> USE NamesAre DEF IInv, Idle, OnCluster
<1>1. Inputs'
  BY DEF Take, Goto, inputs, cloudVars, Inputs, Pairs
<1>2. InPools' /\ Lent'
  BY Unmoved DEF Take, Goto, inputs, cloudVars
<1>3. OnOne'
  <2>1. /\ pc[w] = "idle" /\ next \in Pairs
        /\ pair' = [pair EXCEPT ![w] = next] /\ next' = next + 1
        /\ UNCHANGED <<problem, on, pools, poolNames>>
    BY DEF Take, inputs, Inputs, Pairs
  <2>2. CASE pc' = [pc EXCEPT ![w] = "dead"]
    BY <2>1, <2>2 DEF OnOne, Pairs, Inputs
  <2>3. CASE pc' = [pc EXCEPT ![w] = IF problem[next] \in DOMAIN pools THEN "borrow" ELSE "own"]
    BY <2>1, <2>3 DEF OnOne, Pairs, Inputs
  <2>4. QED
    BY <2>2, <2>3 DEF Take, Goto
<1>4. Scores'
  BY DEF Take, Goto, inputs, cloudVars, Inputs, OnOne, Scores, Pairs
<1>5. Known'
  BY DEF Take, Goto, inputs, cloudVars, Inputs, OnOne, Known, Pairs
<1>6. QED
  BY <1>1, <1>2, <1>3, <1>4, <1>5

LEMMA BorrowKeeps ==
  ASSUME IInv, NEW w \in Workers, Borrow(w)
  PROVE  IInv'
<1> USE NamesAre DEF IInv, Idle, OnCluster
<1> DEFINE g == problem[pair[w]]
           c == Head(pools[g])
<1>1. /\ g \in DOMAIN pools /\ pools[g] \in Seq(Names) /\ pools[g] # <<>>
      /\ on[w] = NoName /\ pc[w] = "borrow" /\ Len(pools[g]) \in Nat
      /\ \A i, j \in 1 .. Len(pools[g]) : pools[g][i] = pools[g][j] => i = j
  <2>1. /\ g \in DOMAIN pools /\ pools[g] # <<>> /\ on[w] = NoName /\ pc[w] = "borrow"
    BY DEF Borrow, OnOne
  <2>2. /\ pools[g] \in Seq(Names)
        /\ \A i, j \in 1 .. Len(pools[g]) : pools[g][i] = pools[g][j] => i = j
    BY <2>1 DEF InPools
  <2>3. QED
    BY <2>1, <2>2
<1>2. /\ c = pools[g][1] /\ 1 \in 1 .. Len(pools[g])
      /\ Tail(pools[g]) \in Seq(Names)
      /\ \A i \in 1 .. Len(Tail(pools[g])) :
           i + 1 \in 1 .. Len(pools[g]) /\ Tail(pools[g])[i] = pools[g][i + 1]
      /\ \A i \in 1 .. Len(pools[g]) :
           i = 1 \/ (i - 1 \in 1 .. Len(Tail(pools[g])) /\ Tail(pools[g])[i - 1] = pools[g][i])
  BY <1>1, HeadAndTail
<1>3. c \in poolNames /\ c[2] = g /\ c \in Names /\ c # NoName
  BY <1>1, <1>2 DEF InPools
<1>4. /\ on' = [on EXCEPT ![w] = c] /\ pc' = [pc EXCEPT ![w] = "launch"]
      /\ pools' = [pools EXCEPT ![g] = Tail(pools[g])]
      /\ UNCHANGED <<problem, clusters, keep, main, next, poolNames, up, left, pair,
                     recorded, shared, mishap, cutShort>>
  BY DEF Borrow, Goto, inputs, cloudVars
<1>5. /\ DOMAIN pools' = DOMAIN pools /\ pools' = [h \in DOMAIN pools' |-> pools'[h]]
      /\ pools'[g] = Tail(pools[g])
      /\ \A h \in DOMAIN pools : h # g => pools'[h] = pools[h]
  <2>1. pools' = [h \in DOMAIN pools |-> IF h = g THEN Tail(pools[g]) ELSE pools[h]]
    BY <1>4
  <2>2. QED
    BY <1>1, <2>1
<1> HIDE DEF g, c
<1>6. /\ on' \in [Workers -> Names \union {NoName}] /\ on'[w] = c
      /\ \A v \in Workers : v # w => on'[v] = on[v]
  BY <1>3, <1>4 DEF OnOne
<1>7. Inputs'
  BY <1>4 DEF Inputs
<1>8. InPools'
  <2>1. ASSUME NEW h \in DOMAIN pools' PROVE pools'[h] \in Seq(Names)
    <3>1. CASE h = g
      BY <1>2, <1>5, <3>1
    <3>2. CASE h # g
      BY <1>2, <1>5, <3>2 DEF InPools
    <3>3. QED
      BY <3>1, <3>2
  <2>2. ASSUME NEW h \in DOMAIN pools', NEW i \in 1 .. Len(pools'[h])
        PROVE  pools'[h][i] \in poolNames /\ pools'[h][i][2] = h
    <3>1. CASE h = g
      <4>1. i + 1 \in 1 .. Len(pools[g]) /\ pools'[h][i] = pools[g][i + 1]
        BY <1>2, <1>5, <3>1
      <4>2. QED
        BY <1>1, <3>1, <4>1 DEF InPools
    <3>2. CASE h # g
      BY <1>5, <3>2 DEF InPools
    <3>3. QED
      BY <3>1, <3>2
  <2>3. ASSUME NEW h \in DOMAIN pools', NEW i \in 1 .. Len(pools'[h]),
               NEW j \in 1 .. Len(pools'[h]), pools'[h][i] = pools'[h][j]
        PROVE  i = j
    <3>1. CASE h = g
      <4>1. /\ i + 1 \in 1 .. Len(pools[g]) /\ pools'[h][i] = pools[g][i + 1] /\ i \in Nat
            /\ j + 1 \in 1 .. Len(pools[g]) /\ pools'[h][j] = pools[g][j + 1] /\ j \in Nat
        BY <1>2, <1>5, <3>1
      <4>2. i + 1 = j + 1
        BY <1>1, <2>3, <4>1
      <4>3. QED
        BY <4>1, <4>2
    <3>2. CASE h # g
      BY <1>5, <2>3, <3>2 DEF InPools
    <3>3. QED
      BY <3>1, <3>2
  <2>4. QED
    BY <1>4, <1>5, <2>1, <2>2, <2>3 DEF InPools
<1>9. OnOne'
  <2>1. pair[w] \in 0 .. NPairs /\ problem[pair[w]] = g
    BY DEF OnOne, g
  <2>2. /\ pc'[w] = "launch" /\ \A v \in Workers : v # w => pc'[v] = pc[v]
        /\ pc' \in [Workers -> {"idle", "borrow", "own", "ended", "dead"} \union OnCluster]
    BY <1>4 DEF OnOne
  <2>3. QED
    BY <1>1, <1>3, <1>4, <1>5, <1>6, <2>1, <2>2 DEF OnOne
<1>10. Scores'
  BY <1>4 DEF Scores
<1>11. Lent'
  <2>1. \A u, v \in Workers : on'[u] = on'[v] /\ on'[v] \in poolNames => u = v
    <3>1. \A v \in Workers : on[v] # c
      BY <1>1, <1>2 DEF Lent
    <3>2. QED
      BY <1>6, <3>1 DEF Lent
  <2>2. ASSUME NEW v \in Workers, NEW h \in DOMAIN pools', NEW i \in 1 .. Len(pools'[h])
        PROVE  pools'[h][i] # on'[v]
    <3>1. CASE v = w /\ h = g
      <4>1. i + 1 \in 1 .. Len(pools[g]) /\ pools'[h][i] = pools[g][i + 1] /\ i \in Nat
        BY <1>2, <1>5, <3>1
      <4>2. i + 1 # 1
        BY <4>1
      <4>3. QED
        BY <1>1, <1>2, <1>6, <3>1, <4>1, <4>2
    <3>2. CASE v = w /\ h # g
      BY <1>3, <1>5, <1>6, <3>2 DEF InPools
    <3>3. CASE v # w /\ h = g
      BY <1>1, <1>2, <1>5, <1>6, <3>3 DEF Lent
    <3>4. CASE v # w /\ h # g
      BY <1>5, <1>6, <3>4 DEF Lent
    <3>5. QED
      BY <3>1, <3>2, <3>3, <3>4
  <2>3. ASSUME NEW d \in poolNames
        PROVE  \/ \E i \in 1 .. Len(pools'[d[2]]) : pools'[d[2]][i] = d
               \/ \E v \in Workers : on'[v] = d
    <3>1. CASE d = c
      BY <1>6, <3>1
    <3>2. CASE \E v \in Workers : on[v] = d
      <4>1. PICK v \in Workers : on[v] = d
        BY <3>2
      <4>2. v # w
        BY <1>1, <4>1 DEF InPools
      <4>3. QED
        BY <1>6, <4>1, <4>2
    <3>3. CASE d # c /\ \E i \in 1 .. Len(pools[d[2]]) : pools[d[2]][i] = d
      <4>1. PICK i \in 1 .. Len(pools[d[2]]) : pools[d[2]][i] = d
        BY <3>3
      <4>2. CASE d[2] = g
        <5>1. i # 1 /\ i \in 1 .. Len(pools[g])
          BY <1>2, <3>3, <4>1, <4>2
        <5>2. i - 1 \in 1 .. Len(pools'[g]) /\ pools'[g][i - 1] = d
          BY <1>2, <1>5, <4>1, <4>2, <5>1
        <5>3. QED
          BY <4>2, <5>2
      <4>3. CASE d[2] # g
        BY <1>5, <4>1, <4>3 DEF InPools
      <4>4. QED
        BY <4>2, <4>3
    <3>4. QED
      BY <3>1, <3>2, <3>3 DEF Lent
  <2>4. poolNames' = poolNames
    BY <1>4
  <2>5. QED
    BY <2>1, <2>2, <2>3, <2>4 DEF Lent
<1>12. Known'
  <2>1. {on[v] : v \in Workers} \subseteq {on'[v] : v \in Workers} \union {NoName}
    BY <1>1, <1>6
  <2>2. ~Idle(w) /\ main \notin {"start", "ended"}
    BY <1>1 DEF Known
  <2>3. QED
    BY <1>4, <2>1, <2>2 DEF Known, Scores
<1>13. QED
  BY <1>7, <1>8, <1>9, <1>10, <1>11, <1>12

LEMMA BorrowTimesOutKeeps ==
  ASSUME IInv, NEW w \in Workers, BorrowTimesOut(w)
  PROVE  IInv'
<1> USE NamesAre DEF IInv, Idle, OnCluster
<1>1. Inputs'
  BY DEF BorrowTimesOut, Goto, inputs, cloudVars, Inputs, Pairs
<1>2. InPools' /\ Lent'
  BY Unmoved DEF BorrowTimesOut, Goto, inputs, cloudVars
<1>3. OnOne'
  BY DEF BorrowTimesOut, Goto, inputs, cloudVars, Inputs, InPools, OnOne, Pairs
<1>4. Scores'
  BY DEF BorrowTimesOut, Goto, inputs, cloudVars, Inputs, OnOne, Scores, Pairs
<1>5. Known'
  BY DEF BorrowTimesOut, Goto, inputs, cloudVars, Inputs, OnOne, Known, Pairs
<1>6. QED
  BY <1>1, <1>2, <1>3, <1>4, <1>5

LEMMA OwnKeeps ==
  ASSUME IInv, NEW w \in Workers, Own(w)
  PROVE  IInv'
<1> USE NamesAre DEF IInv, Idle, OnCluster
<1>1. /\ UNCHANGED <<problem, clusters, keep, main, next, pools, poolNames, up, left, pair,
                     recorded, mishap, cutShort>>
      /\ pc[w] = "own" /\ pc' = [pc EXCEPT ![w] = "launch"]
  BY DEF Own, Goto, inputs, cloudVars
<1>2. on[w] = NoName /\ pair[w] \in Pairs /\ problem[pair[w]] \in Problems
  <2>1. on[w] = NoName /\ pair[w] \in 0 .. NPairs /\ pair[w] # 0
    BY <1>1 DEF OnOne
  <2>2. pair[w] \in Pairs
    BY <2>1 DEF Pairs
  <2>3. QED
    BY <2>1, <2>2 DEF Inputs
<1>3. PICK name : name \in Names /\ name[1] = "eval" /\ on' = [on EXCEPT ![w] = name]
  <2>1. PICK name \in {c \in up \union {on[v] : v \in Workers} :
                         c[1] = "eval" /\ c[2] = problem[pair[w]]}
                      \union {<<"eval", problem[pair[w]], pair[w]>>} :
          on' = [on EXCEPT ![w] = name]
    BY DEF Own
  <2>2. CASE name = <<"eval", problem[pair[w]], pair[w]>>
    BY <1>2, <2>1, <2>2 DEF Names
  <2>3. CASE name # <<"eval", problem[pair[w]], pair[w]>>
    <3>1. /\ name \in up \union {on[v] : v \in Workers}
          /\ name[1] = "eval"
      BY <2>1, <2>3
    <3>2. name \in Names \union {NoName}
      BY <3>1 DEF OnOne, Scores
    <3>3. NoName[1] # "eval"
      BY DEF NoName
    <3>4. QED
      BY <2>1, <3>1, <3>2, <3>3
  <2>4. QED
    BY <2>2, <2>3
<1>4. OfItsOwn(name) /\ name # NoName /\ name \notin poolNames
  BY <1>3 DEF OfItsOwn, Names, InPools
<1>5. /\ on' \in [Workers -> Names \union {NoName}] /\ on'[w] = name
      /\ \A v \in Workers : v # w => on'[v] = on[v]
  BY <1>3 DEF OnOne
<1>6. Inputs' /\ Scores'
  BY <1>1 DEF Inputs, Scores
<1>7. InPools'
  BY <1>1 DEF InPools
<1>8. OnOne'
  <2>1. /\ pc' \in [Workers -> {"idle", "borrow", "own", "ended", "dead"} \union OnCluster]
        /\ pc'[w] = "launch" /\ \A v \in Workers : v # w => pc'[v] = pc[v]
    BY <1>1 DEF OnOne
  <2>2. pair[w] # 0
    BY <1>1 DEF OnOne
  <2>3. QED
    BY <1>1, <1>4, <1>5, <2>1, <2>2 DEF OnOne
<1>9. Lent'
  <2>1. \A d \in poolNames : d # NoName
    BY DEF InPools
  <2>2. \A u, v \in Workers : on'[u] = on'[v] /\ on'[v] \in poolNames => u = v
    BY <1>4, <1>5 DEF Lent
  <2>3. \A v \in Workers : \A h \in DOMAIN pools : \A i \in 1 .. Len(pools[h]) :
           pools[h][i] # on'[v]
    BY <1>4, <1>5 DEF Lent, InPools
  <2>4. ASSUME NEW d \in poolNames, NEW v \in Workers, on[v] = d
        PROVE  on'[v] = d
    BY <1>2, <1>5, <2>1, <2>4
  <2>5. QED
    BY <1>1, <2>2, <2>3, <2>4 DEF Lent
<1>10. Known'
  <2>1. {on[v] : v \in Workers} \subseteq {on'[v] : v \in Workers} \union {NoName}
    BY <1>2, <1>5
  <2>2. main \notin {"start", "ended"}
    BY <1>1 DEF Known
  <2>3. QED
    BY <1>1, <2>1, <2>2 DEF Known, Scores
<1>11. QED
  BY <1>6, <1>7, <1>8, <1>9, <1>10

LEMMA LaunchKeeps ==
  ASSUME IInv, NEW w \in Workers, Launch(w)
  PROVE  IInv'
<1> USE NamesAre DEF IInv, Idle, OnCluster
<1>1. Inputs'
  BY DEF Launch, Goto, inputs, cloudVars, Inputs, Pairs
<1>2. InPools' /\ Lent'
  BY Unmoved DEF Launch, Goto, inputs, cloudVars
<1>3. OnOne'
  BY DEF Launch, Goto, inputs, cloudVars, Inputs, InPools, OnOne, Pairs
<1>4. Scores'
  BY DEF Launch, Goto, inputs, cloudVars, Inputs, OnOne, Scores, Pairs
<1>5. Known'
  BY DEF Launch, Goto, inputs, cloudVars, Inputs, OnOne, Known, Pairs
<1>6. QED
  BY <1>1, <1>2, <1>3, <1>4, <1>5

LEMMA LaunchFailsKeeps ==
  ASSUME IInv, NEW w \in Workers, LaunchFails(w)
  PROVE  IInv'
<1> USE NamesAre DEF IInv, Idle, OnCluster
<1>1. Inputs'
  BY DEF LaunchFails, Fails, Goto, inputs, cloudVars, Inputs, Pairs
<1>2. InPools' /\ Lent'
  BY Unmoved DEF LaunchFails, Fails, Goto, inputs, cloudVars
<1>3. OnOne'
  BY DEF LaunchFails, Fails, Goto, inputs, cloudVars, Inputs, InPools, OnOne, Pairs
<1>4. Scores'
  <2>1. pair[w] \in 1 .. next - 1 /\ on[w] \in Names /\ next \in Nat
    BY DEF LaunchFails, Inputs, OnOne
  <2>2. up' \subseteq Names /\ left' \in [Names -> 0 .. NPairs] /\ next' = next
    BY <2>1 DEF LaunchFails, Scores
  <2>3. /\ DOMAIN recorded' = DOMAIN recorded \union {pair[w]}
        /\ \A i \in DOMAIN recorded' : recorded'[i] \in 0 .. NPairs
    BY DEF LaunchFails, Fails, Scores
  <2>4. QED
    BY <2>1, <2>2, <2>3 DEF Scores
<1>5. Known'
  BY DEF LaunchFails, Fails, Goto, inputs, cloudVars, Inputs, OnOne, Known, Pairs
<1>6. QED
  BY <1>1, <1>2, <1>3, <1>4, <1>5

LEMMA RunKeeps ==
  ASSUME IInv, NEW w \in Workers, Run(w)
  PROVE  IInv'
<1> USE NamesAre DEF IInv, Idle, OnCluster
<1>1. Inputs'
  BY DEF Run, Goto, inputs, cloudVars, Inputs, Pairs
<1>2. InPools' /\ Lent'
  BY Unmoved DEF Run, Goto, inputs, cloudVars
<1>3. OnOne'
  BY DEF Run, Goto, inputs, cloudVars, Inputs, InPools, OnOne, Pairs
<1>4. Scores'
  BY DEF Run, Goto, inputs, cloudVars, Inputs, OnOne, Scores, Pairs
<1>5. Known'
  BY DEF Run, Goto, inputs, cloudVars, Inputs, OnOne, Known, Pairs
<1>6. QED
  BY <1>1, <1>2, <1>3, <1>4, <1>5

LEMMA FetchKeeps ==
  ASSUME IInv, NEW w \in Workers, Fetch(w)
  PROVE  IInv'
<1> USE NamesAre DEF IInv, Idle, OnCluster
<1>1. Inputs'
  BY DEF Fetch, Goto, inputs, cloudVars, Inputs, Pairs
<1>2. InPools' /\ Lent'
  BY Unmoved DEF Fetch, Goto, inputs, cloudVars
<1>3. OnOne'
  BY DEF Fetch, Goto, inputs, cloudVars, Inputs, InPools, OnOne, Pairs
<1>4. Scores'
  <2>1. /\ pair[w] \in 1 .. next - 1 /\ left[on[w]] \in 0 .. NPairs
        /\ UNCHANGED <<next, up, left>>
        /\ recorded' = [i \in DOMAIN recorded \union {pair[w]} |->
                          IF i = pair[w] THEN left[on[w]] ELSE recorded[i]]
    BY DEF Fetch, inputs, cloudVars, Inputs, OnOne, Scores
  <2>2. QED
    BY <2>1 DEF Scores
<1>5. Known'
  BY DEF Fetch, Goto, inputs, cloudVars, Inputs, OnOne, Known, Pairs
<1>6. QED
  BY <1>1, <1>2, <1>3, <1>4, <1>5

LEMMA FetchFailsKeeps ==
  ASSUME IInv, NEW w \in Workers, FetchFails(w)
  PROVE  IInv'
<1> USE NamesAre DEF IInv, Idle, OnCluster
<1>1. Inputs'
  BY DEF FetchFails, Fails, Goto, inputs, cloudVars, Inputs, Pairs
<1>2. InPools' /\ Lent'
  BY Unmoved DEF FetchFails, Fails, Goto, inputs, cloudVars
<1>3. OnOne'
  BY DEF FetchFails, Fails, Goto, inputs, cloudVars, Inputs, InPools, OnOne, Pairs
<1>4. Scores'
  <2>1. /\ pair[w] \in 1 .. next - 1 /\ 0 \in 0 .. NPairs
        /\ UNCHANGED <<next, up, left>>
        /\ recorded' = [i \in DOMAIN recorded \union {pair[w]} |->
                          IF i = pair[w] THEN 0 ELSE recorded[i]]
    BY DEF FetchFails, Fails, inputs, cloudVars, Inputs, OnOne, Scores
  <2>2. QED
    BY <2>1 DEF Scores
<1>5. Known'
  BY DEF FetchFails, Fails, Goto, inputs, cloudVars, Inputs, OnOne, Known, Pairs
<1>6. QED
  BY <1>1, <1>2, <1>3, <1>4, <1>5

LEMMA GiveBackKeeps ==
  ASSUME IInv, NEW w \in Workers, GiveBack(w)
  PROVE  IInv'
<1> USE NamesAre DEF IInv, Idle, OnCluster
<1> DEFINE g == problem[pair[w]]
           c == on[w]
<1>1. /\ c \in poolNames /\ c \in Names /\ c[2] = g /\ g \in DOMAIN pools
      /\ pools[g] \in Seq(Names) /\ c # NoName /\ pc[w] = "finally"
  BY DEF GiveBack, OnOne, InPools
<1>2. /\ Append(pools[g], c) \in Seq(Names) /\ Len(pools[g]) \in Nat
      /\ Len(Append(pools[g], c)) = Len(pools[g]) + 1
      /\ \A i \in 1 .. Len(pools[g]) : Append(pools[g], c)[i] = pools[g][i]
      /\ Append(pools[g], c)[Len(pools[g]) + 1] = c
  BY <1>1, AppendIs
<1>3. /\ on' = [on EXCEPT ![w] = NoName] /\ pair' = [pair EXCEPT ![w] = 0]
      /\ \E there \in {"idle", "dead"} : pc' = [pc EXCEPT ![w] = there]
      /\ pools' = [pools EXCEPT ![g] = Append(pools[g], c)]
      /\ UNCHANGED <<problem, clusters, keep, main, next, poolNames, up, left, recorded,
                     shared, mishap, cutShort>>
  BY DEF GiveBack, Release, Goto, inputs, cloudVars
<1>4. /\ DOMAIN pools' = DOMAIN pools /\ pools' = [h \in DOMAIN pools' |-> pools'[h]]
      /\ pools'[g] = Append(pools[g], c)
      /\ \A h \in DOMAIN pools : h # g => pools'[h] = pools[h]
  <2>1. pools' = [h \in DOMAIN pools |-> IF h = g THEN Append(pools[g], c) ELSE pools[h]]
    BY <1>3
  <2>2. QED
    BY <1>1, <2>1
<1>5. /\ on' \in [Workers -> Names \union {NoName}] /\ on'[w] = NoName
      /\ \A v \in Workers : v # w => on'[v] = on[v]
  BY <1>3 DEF OnOne
<1>6. \A i \in 1 .. Len(pools'[g]) :
        \/ i \in 1 .. Len(pools[g]) /\ pools'[g][i] = pools[g][i]
        \/ i = Len(pools[g]) + 1 /\ pools'[g][i] = c
  BY <1>2, <1>4
<1>7. \A h \in DOMAIN pools : \A i \in 1 .. Len(pools[h]) : pools[h][i] # c
  BY <1>1 DEF Lent
<1>8. Inputs'
  BY <1>3 DEF Inputs
<1>9. OnOne'
  BY <1>3, <1>4, <1>5 DEF OnOne, Inputs
<1> HIDE DEF g, c
<1>10. InPools'
  <2>1. ASSUME NEW h \in DOMAIN pools' PROVE pools'[h] \in Seq(Names)
    <3>1. CASE h = g
      BY <1>2, <1>4, <3>1
    <3>2. CASE h # g
      BY <1>2, <1>4, <3>2 DEF InPools
    <3>3. QED
      BY <3>1, <3>2
  <2>2. ASSUME NEW h \in DOMAIN pools', NEW i \in 1 .. Len(pools'[h])
        PROVE  pools'[h][i] \in poolNames /\ pools'[h][i][2] = h
    <3>1. CASE h = g
      BY <1>1, <1>6, <3>1 DEF InPools
    <3>2. CASE h # g
      BY <1>4, <3>2 DEF InPools
    <3>3. QED
      BY <3>1, <3>2
  <2>3. ASSUME NEW h \in DOMAIN pools', NEW i \in 1 .. Len(pools'[h]),
               NEW j \in 1 .. Len(pools'[h]), pools'[h][i] = pools'[h][j]
        PROVE  i = j
    <3>1. CASE h = g
      BY <1>1, <1>6, <1>7, <2>3, <3>1 DEF InPools
    <3>2. CASE h # g
      BY <1>4, <2>3, <3>2 DEF InPools
    <3>3. QED
      BY <3>1, <3>2
  <2>4. QED
    BY <1>3, <1>4, <2>1, <2>2, <2>3 DEF InPools
<1>11. Scores'
  BY <1>3 DEF Scores
<1>12. Lent'
  <2>1. \A u, v \in Workers : on'[u] = on'[v] /\ on'[v] \in poolNames => u = v
    BY <1>5 DEF Lent, InPools
  <2>2. ASSUME NEW v \in Workers, NEW h \in DOMAIN pools', NEW i \in 1 .. Len(pools'[h])
        PROVE  pools'[h][i] # on'[v]
    <3>1. CASE v = w
      BY <1>5, <1>10, <3>1 DEF InPools
    <3>2. CASE v # w /\ h = g
      <4>1. on[v] # c
        BY <1>1, <3>2 DEF Lent, c
      <4>2. QED
        BY <1>1, <1>5, <1>6, <3>2, <4>1 DEF Lent
    <3>3. CASE v # w /\ h # g
      BY <1>4, <1>5, <3>3 DEF Lent
    <3>4. QED
      BY <3>1, <3>2, <3>3
  <2>3. ASSUME NEW d \in poolNames
        PROVE  \/ \E i \in 1 .. Len(pools'[d[2]]) : pools'[d[2]][i] = d
               \/ \E v \in Workers : on'[v] = d
    <3>1. CASE d = c
      <4>1. Len(pools[g]) + 1 \in 1 .. Len(pools'[g])
        BY <1>2, <1>4
      <4>2. QED
        BY <1>1, <1>2, <1>4, <3>1, <4>1
    <3>2. CASE d # c /\ \E v \in Workers : on[v] = d
      BY <1>5, <3>2 DEF c
    <3>3. CASE \E i \in 1 .. Len(pools[d[2]]) : pools[d[2]][i] = d
      <4>1. PICK i \in 1 .. Len(pools[d[2]]) : pools[d[2]][i] = d
        BY <3>3
      <4>2. CASE d[2] = g
        BY <1>2, <1>4, <4>1, <4>2
      <4>3. CASE d[2] # g
        BY <1>4, <4>1, <4>3 DEF InPools
      <4>4. QED
        BY <4>2, <4>3
    <3>4. QED
      BY <3>1, <3>2, <3>3 DEF Lent
  <2>4. QED
    BY <1>3, <2>1, <2>2, <2>3 DEF Lent
<1>13. Known'
  <2>1. {on[v] : v \in Workers} \subseteq {on'[v] : v \in Workers} \union {c}
    BY <1>5 DEF c
  <2>2. main \notin {"start", "ended"}
    BY <1>1 DEF Known
  <2>3. QED
    BY <1>1, <1>3, <2>1, <2>2 DEF Known
<1>14. QED
  BY <1>8, <1>9, <1>10, <1>11, <1>12, <1>13

LEMMA DownOwnKeeps ==
  ASSUME IInv, NEW w \in Workers, DownOwn(w)
  PROVE  IInv'
<1> USE NamesAre DEF IInv, Idle, OnCluster
<1>1. Inputs'
  BY DEF DownOwn, Release, Goto, inputs, cloudVars, Inputs, Pairs
<1>2. InPools'
  BY DEF DownOwn, Release, Goto, inputs, cloudVars, Inputs, InPools, OnOne
<1>3. OnOne'
  BY DEF DownOwn, Release, Goto, inputs, cloudVars, Inputs, InPools, OnOne, Pairs
<1>4. Scores'
  BY DEF DownOwn, Release, Goto, inputs, cloudVars, Inputs, OnOne, Scores
<1>5. Lent'
  <2>1. /\ on' = [on EXCEPT ![w] = NoName] /\ UNCHANGED <<pools, poolNames>>
        /\ on[w][1] = "eval"
    BY DEF DownOwn, Release
  <2>2. /\ on'[w] = NoName /\ NoName \notin poolNames /\ on[w] \notin poolNames
        /\ \A v \in Workers : v # w => on'[v] = on[v]
    BY <2>1 DEF OnOne, InPools
  <2>3. \A u, v \in Workers : on'[u] = on'[v] /\ on'[v] \in poolNames => u = v
    BY <2>2 DEF Lent
  <2>4. \A v \in Workers : \A h \in DOMAIN pools : \A i \in 1 .. Len(pools[h]) :
           pools[h][i] # on'[v]
    BY <2>2 DEF Lent, InPools
  <2>5. \A d \in poolNames, v \in Workers : on[v] = d => on'[v] = d
    BY <2>2
  <2>6. QED
    BY <2>1, <2>3, <2>4, <2>5 DEF Lent
<1>6. Known'
  BY DEF DownOwn, Release, Goto, inputs, cloudVars, Inputs, InPools, OnOne, Known
<1>7. QED
  BY <1>1, <1>2, <1>3, <1>4, <1>5, <1>6

LEMMA NoMoreWorkKeeps ==
  ASSUME IInv, NEW w \in Workers, NoMoreWork(w)
  PROVE  IInv'
<1> USE NamesAre DEF IInv, Idle, OnCluster
<1>1. Inputs'
  BY DEF NoMoreWork, Goto, inputs, cloudVars, Inputs, Pairs
<1>2. InPools' /\ Lent'
  BY Unmoved DEF NoMoreWork, Goto, inputs, cloudVars
<1>3. OnOne'
  BY DEF NoMoreWork, Goto, inputs, cloudVars, Inputs, InPools, OnOne, Pairs
<1>4. Scores'
  BY DEF NoMoreWork, Goto, inputs, cloudVars, Inputs, OnOne, Scores, Pairs
<1>5. Known'
  BY DEF NoMoreWork, Goto, inputs, cloudVars, Inputs, OnOne, Known, Pairs
<1>6. QED
  BY <1>1, <1>2, <1>3, <1>4, <1>5

LEMMA CreateKeeps ==
  ASSUME IInv, CreatePools
  PROVE  IInv'
<1> USE NamesAre DEF IInv, Idle, OnCluster
<1>1. PICK ok \in SUBSET Planned, zombies \in SUBSET Planned :
        /\ up' = ok \union zombies /\ mishap' = (zombies # {}) /\ poolNames' = ok
        /\ pools' \in [{c[2] : c \in Planned} -> SetToAllKPermutations(ok)]
        /\ \A g \in DOMAIN pools' : InOrder(pools'[g], g, ok)
        /\ main' = IF ok = {} THEN "ended" ELSE "run"
  BY DEF CreatePools
<1>2. /\ main = "start" /\ \A w \in Workers : Idle(w) /\ on[w] = NoName
      /\ UNCHANGED <<problem, clusters, keep, next, left, pc, pair, on, recorded, shared,
                     cutShort>>
  BY DEF CreatePools, Known, OnOne, inputs
<1>3. /\ Planned \subseteq Names
      /\ \A c \in Planned : c[1] = "eval-worker"
  BY DEF Planned
<1>4. /\ DOMAIN pools' = {c[2] : c \in Planned}
      /\ pools' = [g \in DOMAIN pools' |-> pools'[g]]
  BY <1>1
<1>5. \A g \in DOMAIN pools' : HoldsAll(pools'[g], g, ok)
  BY <1>1, OrderedHoldsAll
<1>6. \A c \in ok : c \in Names /\ c # NoName /\ c[1] = "eval-worker" /\ c[2] \in DOMAIN pools'
  BY <1>3, <1>4
<1>7. Inputs' /\ Scores'
  BY <1>1, <1>2, <1>3 DEF Inputs, Scores
<1>8. InPools'
  BY <1>1, <1>4, <1>5, <1>6 DEF InPools, HoldsAll
<1>9. OnOne'
  BY <1>2 DEF OnOne
<1>10. Lent'
  <2>1. \A u, v \in Workers : on'[u] = on'[v] /\ on'[v] \in ok => u = v
    BY <1>2, <1>6
  <2>2. \A v \in Workers, g \in DOMAIN pools' : \A i \in 1 .. Len(pools'[g]) :
           pools'[g][i] # on'[v]
    BY <1>2, <1>5, <1>6 DEF HoldsAll
  <2>3. \A c \in ok : \E i \in 1 .. Len(pools'[c[2]]) : pools'[c[2]][i] = c
    BY <1>5, <1>6 DEF HoldsAll
  <2>4. QED
    BY <1>1, <2>1, <2>2, <2>3 DEF Lent
<1>11. Known'
  BY <1>1, <1>2 DEF Known
<1>12. QED
  BY <1>7, <1>8, <1>9, <1>10, <1>11

\* The steps of the main thread that leave the pools and the workers alone.
LEMMA MainKeeps ==
  ASSUME IInv, UNCHANGED <<problem, next, pools, poolNames, left, pc, pair, on, recorded>>
  PROVE  InPools' /\ OnOne' /\ Lent'
BY Unmoved DEF IInv, OnOne, Idle

LEMMA NoPoolsKeeps ==
  ASSUME IInv, NoPools
  PROVE  IInv'
<1>1. InPools' /\ OnOne' /\ Lent'
  BY MainKeeps DEF NoPools, inputs, cloudVars
<1>2. Inputs' /\ Scores'
  BY DEF IInv, NoPools, Inputs, Scores, inputs, cloudVars
<1>3. Known'
  BY DEF IInv, NoPools, Known, inputs, cloudVars
<1>4. QED
  BY <1>1, <1>2, <1>3 DEF IInv

LEMMA JoinKeeps ==
  ASSUME IInv, Join
  PROVE  IInv'
<1>1. InPools' /\ OnOne' /\ Lent'
  BY MainKeeps DEF Join, Cleanup, inputs
<1>2. Inputs' /\ Scores'
  BY DEF IInv, Join, Cleanup, Inputs, Scores, inputs
<1>3. \A w \in Workers : pc[w] \in {"ended", "dead"} /\ on[w] = NoName
  BY DEF IInv, Join, Ended, OnOne, OnCluster
<1>4. PICK stay \in SUBSET (poolNames \intersect up) :
        /\ up' = IF keep THEN up ELSE up \ (poolNames \ stay)
        /\ mishap' = (mishap \/ (~keep /\ stay # {}))
  BY DEF Join, Cleanup
<1>5. ~keep /\ ~mishap' /\ ~cutShort => up' = {}
  <2>1. ~keep /\ ~mishap' /\ ~cutShort => up \subseteq poolNames \union {NoName}
    BY <1>3, <1>4 DEF IInv, Known
  <2>2. NoName \notin up
    BY NamesAre DEF IInv, Scores
  <2>3. QED
    BY <1>4, <2>1, <2>2
<1>6. Known'
  BY <1>3, <1>5 DEF IInv, Join, Known, Idle, inputs
<1>7. QED
  BY <1>1, <1>2, <1>6 DEF IInv

LEMMA InterruptKeeps ==
  ASSUME IInv, Interrupt
  PROVE  IInv'
<1>1. InPools' /\ OnOne' /\ Lent'
  BY MainKeeps DEF Interrupt, Cleanup, cloudVars, inputs
<1>2. Planned \subseteq Names
  BY DEF Planned
<1>3. Inputs' /\ Scores'
  BY <1>2 DEF IInv, Interrupt, Cleanup, Inputs, Scores, inputs, cloudVars
<1>4. Known'
  BY DEF IInv, Interrupt, Known, Idle, inputs, cloudVars
<1>5. QED
  BY <1>1, <1>3, <1>4 DEF IInv

LEMMA ExitKeeps ==
  ASSUME IInv, Exit
  PROVE  IInv'
<1>1. InPools' /\ OnOne' /\ Lent'
  BY MainKeeps DEF Exit, inputs, cloudVars
<1>2. Inputs' /\ Scores'
  BY DEF IInv, Exit, Inputs, Scores, inputs, cloudVars
<1>3. Known'
  BY DEF IInv, Exit, Ended, Known, Idle, inputs, cloudVars
<1>4. QED
  BY <1>1, <1>2, <1>3 DEF IInv

LEMMA Stutters == IInv /\ UNCHANGED vars => IInv'
<1> SUFFICES ASSUME IInv, UNCHANGED vars PROVE IInv'
  OBVIOUS
<1>1. InPools' /\ OnOne' /\ Lent'
  BY MainKeeps DEF vars, inputs, cloudVars
<1>2. QED
  BY <1>1 DEF IInv, vars, inputs, cloudVars, Inputs, Scores, Known, Idle

LEMMA Inductive == IInv /\ [Next]_vars => IInv'
<1> SUFFICES ASSUME IInv, [Next]_vars PROVE IInv'
  OBVIOUS
<1>1. ASSUME NEW w \in Workers, WorkerStep(w) PROVE IInv'
  BY <1>1, TakeKeeps, BorrowKeeps, BorrowTimesOutKeeps, OwnKeeps, LaunchKeeps,
     LaunchFailsKeeps, RunKeeps, FetchKeeps, FetchFailsKeeps, GiveBackKeeps, DownOwnKeeps,
     NoMoreWorkKeeps
  DEF WorkerStep
<1>2. CASE MainStep
  BY <1>2, CreateKeeps, NoPoolsKeeps, JoinKeeps, ExitKeeps DEF MainStep
<1>3. CASE Interrupt
  BY <1>3, InterruptKeeps
<1>4. CASE UNCHANGED vars
  BY <1>4, Stutters
<1>5. QED
  BY <1>1, <1>2, <1>3, <1>4 DEF Next

-----------------------------------------------------------------------------
(* The theorems.                                                           *)

\* Every variable has its type: a pair is taken before its score is recorded, a
\* worker has a pair and a cluster when it needs them, and a cluster is only in
\* the pool of its own group (_evaluate_with_workers).
THEOREM TypeCorrect == Spec => []TypeOK
<1>1. ASSUME IInv PROVE TypeOK
  <2>1. \A g \in DOMAIN pools : DOMAIN pools[g] = 1 .. Len(pools[g])
    BY <1>1 DEF IInv, InPools
  <2>2. \A g \in DOMAIN pools : \A i \in DOMAIN pools[g] :
           pools[g][i] \in poolNames /\ pools[g][i][2] = g
    BY <1>1, <2>1 DEF IInv, InPools
  <2>3. ASSUME NEW w \in Workers
        PROVE  /\ pc[w] \in {"idle", "ended"} => pair[w] = 0
               /\ pair[w] = 0 => pc[w] \in {"idle", "ended", "dead"}
               /\ pc[w] \in {"launch", "run", "fetch", "finally"} <=> on[w] # NoName
               /\ pair[w] \in 0 .. next - 1
    BY <1>1 DEF IInv, Inputs, OnOne, Idle, OnCluster
  <2>4. QED
    BY <1>1, <2>2, <2>3 DEF IInv, Inputs, InPools, Scores, TypeOK
<1>2. QED
  BY <1>1, Initially, Inductive, PTL DEF Spec

\* Every cluster that was asked for goes to a group, and no more than were asked
\* for: whatever the sizes of the groups, and although the parts are floats.
THEOREM AllAreSharedHolds == Spec => []AllAreShared
<1>1. IInv => AllAreShared
  BY GivesAll DEF IInv, Inputs, Chosen, AllAreShared
<1>2. QED
  BY <1>1, Initially, Inductive, PTL DEF Spec

\* A cluster of a pool is in its pool once or lent to one worker, however many
\* there are and whatever fails: no two runs share one and none is lost.
THEOREM LentToOneHolds == Spec => []LentToOne
<1>1. ASSUME IInv, NEW c \in poolNames
      PROVE  Cardinality({i \in DOMAIN pools[c[2]] : pools[c[2]][i] = c})
               + Cardinality({w \in Workers : on[w] = c}) = 1
  <2> DEFINE I == {i \in DOMAIN pools[c[2]] : pools[c[2]][i] = c}
             W == {w \in Workers : on[w] = c}
  <2>1. c[2] \in DOMAIN pools /\ DOMAIN pools[c[2]] = 1 .. Len(pools[c[2]])
    BY <1>1 DEF IInv, InPools
  <2>2. CASE \E i \in 1 .. Len(pools[c[2]]) : pools[c[2]][i] = c
    <3>1. PICK i \in 1 .. Len(pools[c[2]]) : pools[c[2]][i] = c
      BY <2>2
    <3>2. I = {i}
      BY <1>1, <2>1, <3>1 DEF IInv, InPools
    <3>3. W = {}
      BY <1>1, <2>1, <3>1 DEF IInv, Lent
    <3>4. Cardinality(I) = 1
      BY <3>2, FS_Singleton
    <3>5. Cardinality(W) = 0
      BY <3>3, FS_EmptySet
    <3>6. QED
      BY <3>4, <3>5
  <2>3. CASE \E w \in Workers : on[w] = c
    <3>1. PICK w \in Workers : on[w] = c
      BY <2>3
    <3>2. W = {w}
      BY <1>1, <3>1 DEF IInv, Lent
    <3>3. I = {}
      BY <1>1, <2>1, <3>1 DEF IInv, Lent
    <3>4. Cardinality(W) = 1
      BY <3>2, FS_Singleton
    <3>5. Cardinality(I) = 0
      BY <3>3, FS_EmptySet
    <3>6. QED
      BY <3>4, <3>5
  <2>4. QED
    BY <1>1, <2>2, <2>3 DEF IInv, Lent
<1>2. IInv => LentToOne
  BY <1>1 DEF LentToOne
<1>3. QED
  BY <1>2, Initially, Inductive, PTL DEF Spec

\* When the batch is over no cluster is left, whatever failed and whichever
\* clusters were shared, unless a failed launch or down left it, an interrupt
\* cut the batch short, or it was asked for (--keep-clusters).
THEOREM NothingLeftUpHolds == Spec => []NothingLeftUp
<1>1. IInv => NothingLeftUp
  BY DEF IInv, Known, NothingLeftUp
<1>2. QED
  BY <1>1, Initially, Inductive, PTL DEF Spec
=============================================================================
