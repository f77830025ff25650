------------------------------ MODULE Induction ------------------------------
(***************************************************************************)
(* Induction and recursion over the naturals, in the form the proofs of    *)
(* this project cite them: about sets and functions instead of predicates  *)
(* and operators, which the provers cannot instantiate.  All of it rests   *)
(* on the least-element principle of module WellFoundedInduction.          *)
(***************************************************************************)
EXTENDS Integers, FiniteSets, FiniteSetTheorems, WellFoundedInduction, TLAPS

Before == {p \in Nat \X Nat : p[1] < p[2]}

\* A non-empty set of naturals has a least element.
LEMMA LeastElement ==
    ASSUME NEW T \in SUBSET Nat, T # {}
    PROVE  \E m \in T : \A n \in T : m <= n
<1>1. IsWellFoundedOn(Before, Nat)
  BY NatLessThanWellFounded DEF Before, OpToRel
<1>2. PICK m \in T : \A n \in T : <<n, m>> \notin Before
  BY <1>1, WFMin, Zenon
<1>3. ASSUME NEW n \in T PROVE m <= n
  <2>1. m \in Nat /\ n \in Nat
    OBVIOUS
  <2>2. <<n, m>> \in Nat \X Nat /\ <<n, m>> \notin Before
    BY <1>2, <2>1
  <2>3. QED BY <2>1, <2>2 DEF Before
<1>4. QED BY <1>3

\* A set that has 0 and with every number the next one has all of 0..N.
LEMMA InductionUpTo ==
    ASSUME NEW N \in Nat, NEW S,
           0 \in S, \A n \in 0..(N - 1) : n \in S => n + 1 \in S
    PROVE  0..N \subseteq S
<1> SUFFICES ASSUME ~(0..N \subseteq S) PROVE FALSE
  OBVIOUS
<1> DEFINE T == {n \in 0..N : n \notin S}
<1>1. T \in SUBSET Nat /\ T # {}
  OBVIOUS
<1>2. PICK m \in T : \A n \in T : m <= n
  <2> HIDE DEF T
  <2>1. QED BY <1>1, LeastElement
<1>3. m \in 1..N /\ m \notin S
  OBVIOUS
<1>4. m - 1 \in 0..(N - 1) /\ m - 1 \in S
  BY <1>2, <1>3
<1>5. (m - 1) + 1 \in S
  BY <1>4
<1>6. QED BY <1>3, <1>5

LEMMA NatSetInduction ==
    ASSUME NEW S, 0 \in S, \A n \in Nat : n \in S => n + 1 \in S
    PROVE  Nat \subseteq S
<1>1. ASSUME NEW N \in Nat PROVE N \in S
  <2>1. 0..N \subseteq S
    BY InductionUpTo
  <2>2. QED BY <2>1
<1>2. QED BY <1>1

\* A function over 0..N is defined by its first value and a step F.
Recurs(f, N, d, F) == f = [i \in 0..N |-> IF i = 0 THEN d ELSE F[<<f[i - 1], i>>]]

LEMMA RecursionUpTo ==
    ASSUME NEW N \in Nat, NEW D, NEW d \in D, NEW F \in [D \X Nat -> D]
    PROVE  \E f \in [0..N -> D] : Recurs(f, N, d, F)
<1> DEFINE S == {n \in Nat : \E f \in [0..n -> D] : Recurs(f, n, d, F)}
<1>1. 0 \in S
  <2> DEFINE f == [i \in 0..0 |-> d]
  <2>1. f \in [0..0 -> D] /\ Recurs(f, 0, d, F)
    BY DEF Recurs
  <2>2. QED BY <2>1
<1>2. ASSUME NEW n \in Nat, n \in S PROVE n + 1 \in S
  <2>1. PICK f \in [0..n -> D] : Recurs(f, n, d, F)
    BY <1>2
  <2> DEFINE x == F[<<f[n], n + 1>>]
             g == [i \in 0..(n + 1) |-> IF i = n + 1 THEN x ELSE f[i]]
  <2>2. x \in D
    OBVIOUS
  <2>3. g \in [0..(n + 1) -> D]
    BY <2>2
  <2>4. ASSUME NEW i \in 0..(n + 1)
        PROVE  g[i] = IF i = 0 THEN d ELSE F[<<g[i - 1], i>>]
    <3>1. CASE i = n + 1
      <4>1. g[i - 1] = f[n] /\ i # 0 /\ g[i] = x
        BY <3>1
      <4>2. QED BY <4>1, <3>1
    <3>2. CASE i = 0
      BY <3>2, <2>1 DEF Recurs
    <3>3. CASE i \in 1..n
      <4>1. g[i - 1] = f[i - 1] /\ g[i] = f[i] /\ i # 0 /\ i \in 0..n
        BY <3>3
      <4>2. f[i] = F[<<f[i - 1], i>>]
        BY <4>1, <2>1 DEF Recurs
      <4>3. QED BY <4>1, <4>2
    <3>4. QED BY <3>1, <3>2, <3>3
  <2>5. Recurs(g, n + 1, d, F)
    <3> HIDE DEF x
    <3>1. g = [i \in 0..(n + 1) |-> g[i]]
      OBVIOUS
    <3> HIDE DEF g
    <3>2. QED BY <3>1, <2>4 DEF Recurs
  <2>6. QED
    <3> HIDE DEF g
    <3>1. QED BY <2>3, <2>5
<1>3. Nat \subseteq S
  <2> HIDE DEF S
  <2>1. QED BY <1>1, <1>2, NatSetInduction
<1>4. QED BY <1>3

LEMMA RecursionSteps ==
    ASSUME NEW N \in Nat, NEW D, NEW d, NEW F, NEW f \in [0..N -> D], Recurs(f, N, d, F)
    PROVE  /\ f[0] = d /\ f[N] \in D
           /\ \A i \in 1..N : f[i] = F[<<f[i - 1], i>>] /\ f[i - 1] \in D
BY DEF Recurs

-----------------------------------------------------------------------------
(* Folds over finite sets: the recursion of MapThenFoldSet, with the step   *)
(* and the choice of the next element as functions.                         *)

IsFold(f, A, d, F, pick) ==
    f = [s \in SUBSET A |-> IF s = {} THEN d ELSE F[<<f[s \ {pick[s]}], pick[s]>>]]

\* An element taken out leaves one less.
LEMMA OneLess ==
    ASSUME NEW s, IsFiniteSet(s), NEW x \in s
    PROVE  /\ Cardinality(s) \in Nat \ {0} /\ IsFiniteSet(s \ {x})
           /\ Cardinality(s \ {x}) = Cardinality(s) - 1
<1>1. Cardinality(s) \in Nat /\ s # {}
  BY FS_CardinalityType
<1>2. Cardinality(s) # 0
  BY <1>1, FS_EmptySet
<1>3. /\ IsFiniteSet(s \ {x})
      /\ Cardinality(s \ {x}) = Cardinality(s) - 1
  BY FS_RemoveElement
<1>4. QED BY <1>1, <1>2, <1>3

\* Induction over the subsets of a finite set, an element at a time.
LEMMA SubsetInduction ==
    ASSUME NEW A, IsFiniteSet(A), NEW S, {} \in S,
           \A s \in SUBSET A : s # {} /\ (\A x \in s : s \ {x} \in S) => s \in S
    PROVE  SUBSET A \subseteq S
<1> DEFINE N == Cardinality(A)
           T == {i \in 0..N : \A s \in SUBSET A : Cardinality(s) = i => s \in S}
<1>1. N \in Nat
  BY FS_CardinalityType
<1>2. \A s \in SUBSET A : IsFiniteSet(s) /\ Cardinality(s) \in 0..N
  BY FS_Subset, FS_CardinalityType
<1> HIDE DEF N
<1>3. 0 \in T
  BY <1>1, <1>2, FS_EmptySet
<1>4. ASSUME NEW i \in 0..(N - 1), i \in T PROVE i + 1 \in T
  <2>1. ASSUME NEW s \in SUBSET A, Cardinality(s) = i + 1 PROVE s \in S
    <3>1. \A x \in s : s \ {x} \in SUBSET A /\ Cardinality(s \ {x}) = i
      BY <1>1, <1>2, <2>1, OneLess
    <3>2. IsFiniteSet(s) /\ Cardinality(s) # 0
      BY <1>1, <1>2, <2>1
    <3>3. s # {}
      BY <3>2, FS_EmptySet
    <3>4. QED BY <1>4, <3>1, <3>3
  <2>2. QED BY <1>1, <2>1
<1>5. 0..N \subseteq T
  <2> HIDE DEF T
  <2>1. QED BY <1>1, <1>3, <1>4, InductionUpTo
<1>6. QED BY <1>2, <1>5

\* There is such a function: the limit of approximations, each right for sets
\* of one more element.
LEMMA FoldsExist ==
    ASSUME NEW A, IsFiniteSet(A), NEW D, NEW d \in D, NEW F \in [D \X A -> D],
           NEW pick, \A s \in SUBSET A : s # {} => pick[s] \in s
    PROVE  \E f \in [SUBSET A -> D] : IsFold(f, A, d, F, pick)
<1> DEFINE N == Cardinality(A)
           E == [SUBSET A -> D]
           Better(g) == [s \in SUBSET A |-> IF s = {} THEN d ELSE F[<<g[s \ {pick[s]}], pick[s]>>]]
           H == [p \in E \X Nat |-> Better(p[1])]
           zero == [s \in SUBSET A |-> d]
<1>1. N \in Nat
  BY FS_CardinalityType
<1>2. ASSUME NEW g \in E PROVE Better(g) \in E
  <2>1. ASSUME NEW s \in SUBSET A, s # {} PROVE F[<<g[s \ {pick[s]}], pick[s]>>] \in D
    <3>1. pick[s] \in A /\ g[s \ {pick[s]}] \in D
      BY <2>1
    <3>2. QED BY <3>1
  <2>2. QED BY <2>1
<1>3. zero \in E
  OBVIOUS
<1> HIDE DEF Better, zero, N
<1>4. H \in [E \X Nat -> E]
  BY <1>2
<1>5. PICK G \in [0..N -> E] : Recurs(G, N, zero, H)
  <2> HIDE DEF H, E
  <2>1. QED BY <1>1, <1>3, <1>4, RecursionUpTo
<1>6. /\ G[0] = zero /\ G[N] \in E
      /\ \A i \in 1..N : G[i] = Better(G[i - 1])
  <2> HIDE DEF H, E
  <2>1. /\ G[0] = zero /\ G[N] \in E
        /\ \A i \in 1..N : G[i] = H[<<G[i - 1], i>>] /\ G[i - 1] \in E
    BY <1>1, <1>5, RecursionSteps
  <2>2. \A g \in E, i \in Nat : H[<<g, i>>] = Better(g)
    BY DEF H
  <2>3. \A i \in 1..N : i \in Nat
    BY <1>1
  <2>4. QED BY <2>1, <2>2, <2>3
<1>7. \A s \in SUBSET A : IsFiniteSet(s) /\ Cardinality(s) \in 0..N
  BY FS_Subset, FS_CardinalityType DEF N
<1> DEFINE Settled(i) == \A s \in SUBSET A : Cardinality(s) <= i => Better(G[i])[s] = G[i][s]
           S == {i \in 0..N : Settled(i)}
<1>8. 0 \in S
  <2>1. ASSUME NEW s \in SUBSET A, Cardinality(s) <= 0 PROVE Better(G[0])[s] = G[0][s]
    <3>1. s = {}
      BY <1>7, <2>1, FS_EmptySet
    <3>2. QED BY <3>1, <1>6 DEF Better, zero
  <2>2. QED BY <1>1, <2>1
<1>9. ASSUME NEW i \in 0..(N - 1), i \in S PROVE i + 1 \in S
  <2>1. i + 1 \in 1..N /\ (i + 1) - 1 = i /\ Settled(i)
    BY <1>1, <1>9
  <2>2. G[i + 1] = Better(G[i])
    BY <1>6, <2>1
  <2>3. ASSUME NEW s \in SUBSET A, Cardinality(s) <= i + 1
        PROVE  Better(G[i + 1])[s] = G[i + 1][s]
    <3>1. CASE s = {}
      BY <2>2, <3>1 DEF Better
    <3>2. CASE s # {}
      <4>1. pick[s] \in s
        BY <3>2
      <4>2. Cardinality(s \ {pick[s]}) <= i
        <5>1. /\ IsFiniteSet(s) /\ Cardinality(s) \in Int
              /\ Cardinality(s \ {pick[s]}) = Cardinality(s) - 1
          BY <1>1, <1>7, <4>1, OneLess
        <5>2. QED BY <2>3, <5>1
      <4>3. Better(G[i])[s \ {pick[s]}] = G[i][s \ {pick[s]}]
        BY <2>1, <4>2
      <4>4. /\ Better(G[i + 1])[s] = F[<<G[i + 1][s \ {pick[s]}], pick[s]>>]
            /\ Better(G[i])[s] = F[<<G[i][s \ {pick[s]}], pick[s]>>]
        BY <3>2 DEF Better
      <4>5. G[i + 1][s \ {pick[s]}] = G[i][s \ {pick[s]}]
        BY <2>2, <4>3
      <4>6. Better(G[i + 1])[s] = Better(G[i])[s]
        BY <4>4, <4>5
      <4>7. QED BY <2>2, <4>6
    <3>3. QED BY <3>1, <3>2
  <2>4. QED BY <2>1, <2>3
<1>10. Settled(N)
  <2>1. 0..N \subseteq S
    <3> HIDE DEF S
    <3>1. QED BY <1>1, <1>8, <1>9, InductionUpTo
  <2>2. QED BY <1>1, <2>1
<1>11. G[N] \in E
  BY <1>6
<1>12. G[N] = Better(G[N])
  <2>1. \A s \in SUBSET A : Better(G[N])[s] = G[N][s]
    BY <1>1, <1>7, <1>10
  <2>2. G[N] = [s \in SUBSET A |-> G[N][s]]
    BY <1>11
  <2>3. Better(G[N]) = [s \in SUBSET A |-> Better(G[N])[s]]
    BY DEF Better
  <2>4. QED BY <2>1, <2>2, <2>3
<1>13. QED BY <1>11, <1>12 DEF Better, IsFold

-----------------------------------------------------------------------------
(* Folds over sequences: the next element is the last one.                   *)

Greatest(s) == CHOOSE x \in s : \A y \in s : x >= y

\* The lemma that the elements of a fold over 1..N are taken from the end.
LEMMA InitialSegments ==
    ASSUME NEW N \in Nat
    PROVE  /\ IsFiniteSet(1..N)
           /\ \A s \in SUBSET (1..N) : s # {} => Greatest(s) \in s
           /\ \A i \in 1..N : /\ 1..i \in SUBSET (1..N) /\ 1..i # {}
                              /\ Greatest(1..i) = i /\ (1..i) \ {i} = 1..(i - 1)
<1>1. IsFiniteSet(1..N)
  BY FS_Interval
<1>2. ASSUME NEW s \in SUBSET (1..N), s # {} PROVE Greatest(s) \in s
  <2> DEFINE T == {N - x : x \in s}
  <2>1. T \in SUBSET Nat /\ T # {}
    <3>1. \A x \in s : x \in 1..N
      OBVIOUS
    <3>2. \A x \in s : N - x \in Nat
      BY <3>1
    <3>3. QED BY <1>2, <3>2
  <2>2. PICK m \in T : \A n \in T : m <= n
    <3> HIDE DEF T
    <3>1. QED BY <2>1, LeastElement
  <2>3. PICK x \in s : m = N - x
    OBVIOUS
  <2>4. ASSUME NEW y \in s PROVE x >= y
    <3>1. N - y \in T /\ x \in Int /\ y \in Int
      OBVIOUS
    <3>2. QED BY <2>2, <2>3, <3>1
  <2>5. QED BY <2>4 DEF Greatest
<1>3. ASSUME NEW i \in 1..N
      PROVE  /\ 1..i \in SUBSET (1..N) /\ 1..i # {}
             /\ Greatest(1..i) = i /\ (1..i) \ {i} = 1..(i - 1)
  <2>1. i \in 1..i /\ \A y \in 1..i : i >= y
    OBVIOUS
  <2>2. ASSUME NEW x \in 1..i, \A y \in 1..i : x >= y PROVE x = i
    BY <2>1, <2>2
  <2>3. Greatest(1..i) = i
    BY <2>1, <2>2 DEF Greatest
  <2>4. 1..i \in SUBSET (1..N) /\ (1..i) \ {i} = 1..(i - 1)
    OBVIOUS
  <2>5. QED BY <2>1, <2>3, <2>4
<1>4. QED BY <1>1, <1>2, <1>3

IsSeqFold(f, A, d, F) ==
    f = [s \in SUBSET A |-> IF s = {} THEN d ELSE F[<<f[s \ {Greatest(s)}], Greatest(s)>>]]

\* The recursion of FoldLeft over a sequence with the domain A has a solution, if
\* the step is a function into D.
LEMMA SeqFoldsExist ==
    ASSUME NEW N \in Nat, NEW A, A = 1..N, NEW D, NEW d \in D, NEW F \in [D \X A -> D]
    PROVE  \E f \in [SUBSET A -> D] : IsSeqFold(f, A, d, F)
<1> DEFINE pick == [s \in SUBSET A |-> Greatest(s)]
<1>1. IsFiniteSet(A) /\ \A s \in SUBSET A : s # {} => pick[s] \in s
  BY InitialSegments
<1>2. PICK f \in [SUBSET A -> D] : IsFold(f, A, d, F, pick)
  <2> HIDE DEF pick
  <2>1. QED BY <1>1, FoldsExist
<1>3. \A s \in SUBSET A : pick[s] = Greatest(s)
  OBVIOUS
<1>4. QED
  <2> HIDE DEF pick
  <2>1. QED BY <1>2, <1>3 DEF IsFold, IsSeqFold

\* What such a solution gives for 1..0, 1..1, up to 1..N are the results after
\* each element.
ClimbsTo(g, N, A, D, d, F, r) ==
    /\ N \in Nat /\ A = 1..N /\ d \in D /\ F \in [D \X A -> D]
    /\ g[{}] = d /\ g[A] = r
    /\ \A i \in 1..N : g[1..(i - 1)] \in D => g[1..i] = F[<<g[1..(i - 1)], i>>]

Reaches(h, N, D, d, F, r) ==
    /\ h \in [0..N -> D] /\ h[0] = d /\ h[N] = r
    /\ \A i \in 1..N : h[i] = F[<<h[i - 1], i>>] /\ h[i - 1] \in D

LEMMA SeqFoldSteps ==
    ASSUME NEW g, NEW N, NEW A, NEW D, NEW d, NEW F, NEW r, ClimbsTo(g, N, A, D, d, F, r)
    PROVE  \E h : Reaches(h, N, D, d, F, r)
<1>0. N \in Nat /\ A = 1..N /\ d \in D /\ F \in [D \X A -> D]
  BY DEF ClimbsTo
<1> DEFINE S == {i \in 0..N : g[1..i] \in D}
           h == [i \in 0..N |-> g[1..i]]
<1>1. 0 \in S
  <2>1. 1..0 = {}
    OBVIOUS
  <2>2. QED BY <1>0, <2>1 DEF ClimbsTo
<1>2. ASSUME NEW i \in 0..(N - 1), i \in S PROVE i + 1 \in S
  <2>1. i + 1 \in 1..N /\ (i + 1) - 1 = i
    BY <1>0
  <2>2. g[1..(i + 1)] = F[<<g[1..i], i + 1>>]
    BY <1>2, <2>1 DEF ClimbsTo
  <2>3. F[<<g[1..i], i + 1>>] \in D
    BY <1>0, <1>2, <2>1
  <2>4. QED BY <2>1, <2>2, <2>3
<1>3. \A i \in 0..N : g[1..i] \in D
  <2>1. 0..N \subseteq S
    <3> HIDE DEF S
    <3>1. QED BY <1>0, <1>1, <1>2, InductionUpTo
  <2>2. QED BY <2>1
<1>4. h \in [0..N -> D]
  BY <1>3
<1>5. h[0] = d /\ h[N] = r
  <2>1. 1..0 = {} /\ 0 \in 0..N /\ N \in 0..N
    BY <1>0
  <2>2. QED BY <2>1 DEF ClimbsTo
<1>6. ASSUME NEW i \in 1..N PROVE h[i] = F[<<h[i - 1], i>>]
  <2>1. i \in 0..N /\ i - 1 \in 0..N
    BY <1>0
  <2>2. g[1..i] = F[<<g[1..(i - 1)], i>>]
    BY <1>3, <2>1 DEF ClimbsTo
  <2>3. QED BY <2>1, <2>2
<1>7. \A i \in 1..N : h[i - 1] \in D
  <2>1. \A i \in 1..N : i - 1 \in 0..N
    BY <1>0
  <2>2. QED BY <1>4, <2>1
<1>8. QED
  <2> HIDE DEF h
  <2>1. QED BY <1>4, <1>5, <1>6, <1>7 DEF Reaches

\* What the recursion of FoldLeft gives, if it does as F in a set D that it
\* does not leave.
FoldsAs(g, N, A, D, d, F) ==
    /\ N \in Nat /\ A = 1..N /\ d \in D /\ F \in [D \X A -> D]
    /\ g[{}] = d
    /\ \A s \in SUBSET A : s # {} /\ g[s \ {Greatest(s)}] \in D
           => g[s] = F[<<g[s \ {Greatest(s)}], Greatest(s)>>]

LEMMA FoldReaches ==
    ASSUME NEW g, NEW N, NEW A, NEW D, NEW d, NEW F, FoldsAs(g, N, A, D, d, F)
    PROVE  g[A] \in D /\ \E h : Reaches(h, N, D, d, F, g[A])
<1>0. /\ N \in Nat /\ A = 1..N /\ d \in D /\ F \in [D \X A -> D]
      /\ g[{}] = d
      /\ \A s \in SUBSET A : s # {} /\ g[s \ {Greatest(s)}] \in D
             => g[s] = F[<<g[s \ {Greatest(s)}], Greatest(s)>>]
  BY DEF FoldsAs
<1>1. ASSUME NEW i \in 1..N, g[1..(i - 1)] \in D
      PROVE  g[1..i] = F[<<g[1..(i - 1)], i>>]
  <2>1. /\ 1..i \in SUBSET A /\ 1..i # {}
        /\ Greatest(1..i) = i /\ (1..i) \ {i} = 1..(i - 1)
    BY <1>0, InitialSegments
  <2>2. QED BY <1>0, <1>1, <2>1
<1>2. ClimbsTo(g, N, A, D, d, F, g[A])
  BY <1>0, <1>1 DEF ClimbsTo
<1>3. PICK h : Reaches(h, N, D, d, F, g[A])
  BY <1>2, SeqFoldSteps
<1>4. g[A] \in D
  BY <1>0, <1>3 DEF Reaches
<1>5. QED BY <1>3, <1>4

-----------------------------------------------------------------------------
(* Sums over finite sets: the fold of MapThenSumSet.                         *)

Some(s) == CHOOSE x \in s : TRUE

\* f gives for every subset of A the sum of the weights w of its elements.
Sums(f, A, w) ==
    f = [s \in SUBSET A |-> IF s = {} THEN 0 ELSE w[Some(s)] + f[s \ {Some(s)}]]

SumOf(w, A) == (CHOOSE f : Sums(f, A, w))[A]

\* There is such a function.
LEMMA SumsExist ==
    ASSUME NEW A, IsFiniteSet(A), NEW w, \A a \in A : w[a] \in Int
    PROVE  \E f \in [SUBSET A -> Int] : Sums(f, A, w)
<1> DEFINE F == [p \in Int \X A |-> w[p[2]] + p[1]]
           pick == [s \in SUBSET A |-> Some(s)]
<1>1. F \in [Int \X A -> Int]
  OBVIOUS
<1>2. \A s \in SUBSET A : s # {} => pick[s] \in s
  BY DEF Some
<1>3. PICK f \in [SUBSET A -> Int] : IsFold(f, A, 0, F, pick)
  <2> HIDE DEF F, pick
  <2>1. 0 \in Int
    OBVIOUS
  <2>2. QED BY <1>1, <1>2, <2>1, FoldsExist
<1>4. ASSUME NEW s \in SUBSET A, s # {}
      PROVE  F[<<f[s \ {pick[s]}], pick[s]>>] = w[Some(s)] + f[s \ {Some(s)}]
  <2>1. pick[s] = Some(s) /\ Some(s) \in A
    BY <1>2, <1>4
  <2>2. f[s \ {Some(s)}] \in Int
    OBVIOUS
  <2>3. QED BY <2>1, <2>2
<1>5. f = [s \in SUBSET A |-> IF s = {} THEN 0 ELSE w[Some(s)] + f[s \ {Some(s)}]]
  <2> HIDE DEF F, pick
  <2>1. QED BY <1>3, <1>4 DEF IsFold
<1>6. QED BY <1>5 DEF Sums

\* Any such function gives integers.
LEMMA SumsType ==
    ASSUME NEW A, IsFiniteSet(A), NEW w, \A a \in A : w[a] \in Int, NEW f, Sums(f, A, w)
    PROVE  f \in [SUBSET A -> Int]
<1> DEFINE S == {s \in SUBSET A : f[s] \in Int}
<1>1. {} \in S
  BY DEF Sums
<1>2. ASSUME NEW s \in SUBSET A, s # {}, \A x \in s : s \ {x} \in S PROVE s \in S
  <2>1. Some(s) \in s
    BY <1>2 DEF Some
  <2>2. f[s] = w[Some(s)] + f[s \ {Some(s)}]
    BY <1>2 DEF Sums
  <2>3. s \ {Some(s)} \in S /\ w[Some(s)] \in Int
    BY <1>2, <2>1
  <2>4. f[s \ {Some(s)}] \in Int
    BY <2>3
  <2>5. f[s] \in Int
    BY <2>2, <2>3, <2>4
  <2>6. QED BY <2>5
<1>3. SUBSET A \subseteq S
  <2> HIDE DEF S
  <2>1. QED BY <1>1, <1>2, SubsetInduction
<1>4. QED BY <1>3 DEF Sums

\* The order in which elements are taken does not matter.
LEMMA SumsAnyOrder ==
    ASSUME NEW A, IsFiniteSet(A), NEW w, \A a \in A : w[a] \in Int, NEW f, Sums(f, A, w)
    PROVE  \A s \in SUBSET A : \A x \in s : f[s] = w[x] + f[s \ {x}]
<1> DEFINE S == {s \in SUBSET A : \A x \in s : f[s] = w[x] + f[s \ {x}]}
<1>1. {} \in S
  OBVIOUS
<1>2. f \in [SUBSET A -> Int]
  BY SumsType
<1>3. ASSUME NEW s \in SUBSET A, s # {}, \A x \in s : s \ {x} \in S PROVE s \in S
  <2> DEFINE c == Some(s)
  <2>1. c \in s
    BY <1>3 DEF Some
  <2>2. f[s] = w[c] + f[s \ {c}]
    BY <1>3 DEF Sums
  <2> HIDE DEF c
  <2>3. ASSUME NEW x \in s PROVE f[s] = w[x] + f[s \ {x}]
    <3>1. CASE x = c
      BY <2>2, <3>1
    <3>2. CASE x # c
      <4>1. x \in s \ {c} /\ c \in s \ {x} /\ (s \ {c}) \ {x} = (s \ {x}) \ {c}
        BY <2>1, <3>2
      <4>2. f[s \ {c}] = w[x] + f[(s \ {c}) \ {x}]
        BY <1>3, <2>1, <4>1
      <4>3. f[s \ {x}] = w[c] + f[(s \ {c}) \ {x}]
        BY <1>3, <4>1
      <4>4. w[c] \in Int /\ w[x] \in Int /\ f[(s \ {c}) \ {x}] \in Int
        BY <1>2, <2>1
      <4>5. QED BY <2>2, <4>2, <4>3, <4>4
    <3>3. QED BY <3>1, <3>2
  <2>4. QED BY <2>3
<1>4. SUBSET A \subseteq S
  <2> HIDE DEF S
  <2>1. QED BY <1>1, <1>3, SubsetInduction
<1>5. QED BY <1>4

\* Only the weights of the elements matter.
LEMMA SumsAgree ==
    ASSUME NEW A, IsFiniteSet(A), NEW B, A \subseteq B, NEW w, NEW v, \A a \in A : v[a] = w[a],
           NEW f, Sums(f, A, w), NEW g, Sums(g, B, v)
    PROVE  \A s \in SUBSET A : g[s] = f[s]
<1> DEFINE S == {s \in SUBSET A : g[s] = f[s]}
<1>1. {} \in S
  BY DEF Sums
<1>2. ASSUME NEW s \in SUBSET A, s # {}, \A x \in s : s \ {x} \in S PROVE s \in S
  <2>1. Some(s) \in s
    BY <1>2 DEF Some
  <2>2. f[s] = w[Some(s)] + f[s \ {Some(s)}] /\ g[s] = v[Some(s)] + g[s \ {Some(s)}]
    BY <1>2 DEF Sums
  <2>3. g[s \ {Some(s)}] = f[s \ {Some(s)}] /\ v[Some(s)] = w[Some(s)]
    BY <1>2, <2>1
  <2>4. QED BY <2>2, <2>3
<1>3. SUBSET A \subseteq S
  <2> HIDE DEF S
  <2>1. QED BY <1>1, <1>2, SubsetInduction
<1>4. QED BY <1>3

LEMMA SumOfDef ==
    ASSUME NEW A, IsFiniteSet(A), NEW w, \A a \in A : w[a] \in Int
    PROVE  \E f \in [SUBSET A -> Int] : Sums(f, A, w) /\ SumOf(w, A) = f[A]
<1> DEFINE f == CHOOSE h : Sums(h, A, w)
<1>1. \E h : Sums(h, A, w)
  BY SumsExist
<1>2. Sums(f, A, w)
  BY <1>1
<1>3. f[A] = SumOf(w, A)
  BY DEF SumOf
<1> HIDE DEF f
<1>4. f \in [SUBSET A -> Int]
  BY <1>2, SumsType
<1>5. QED BY <1>2, <1>3, <1>4

LEMMA SumOfNone == ASSUME NEW w PROVE SumOf(w, {}) = 0
<1>1. PICK f : Sums(f, {}, w) /\ SumOf(w, {}) = f[{}]
  BY FS_EmptySet, SumOfDef
<1>2. QED BY <1>1 DEF Sums

\* One element more.
LEMMA SumOfOneMore ==
    ASSUME NEW A, IsFiniteSet(A), NEW x, x \notin A, NEW w, w[x] \in Int, \A a \in A : w[a] \in Int
    PROVE  SumOf(w, A \cup {x}) = SumOf(w, A) + w[x] /\ SumOf(w, A) \in Int
<1> DEFINE B == A \cup {x}
<1>1. IsFiniteSet(B) /\ (\A b \in B : w[b] \in Int) /\ A \in SUBSET B /\ B \ {x} = A
  BY FS_AddElement
<1>2. x \in B
  OBVIOUS
<1> HIDE DEF B
<1>3. PICK g \in [SUBSET B -> Int] : Sums(g, B, w) /\ SumOf(w, B) = g[B]
  BY <1>1, SumOfDef
<1>4. PICK f \in [SUBSET A -> Int] : Sums(f, A, w) /\ SumOf(w, A) = f[A]
  BY SumOfDef
<1>5. g[B] = w[x] + g[A]
  BY <1>1, <1>2, <1>3, SumsAnyOrder
<1>6. \A s \in SUBSET A : g[s] = f[s]
  BY <1>1, <1>3, <1>4, SumsAgree
<1>7. g[A] = f[A] /\ f[A] \in Int
  BY <1>4, <1>6
<1>8. QED BY <1>3, <1>4, <1>5, <1>7 DEF B

LEMMA SumOfSame ==
    ASSUME NEW A, IsFiniteSet(A), NEW w, NEW v, \A a \in A : w[a] \in Int /\ v[a] = w[a]
    PROVE  SumOf(v, A) = SumOf(w, A)
<1>1. PICK f \in [SUBSET A -> Int] : Sums(f, A, w) /\ SumOf(w, A) = f[A]
  BY SumOfDef
<1>2. \A a \in A : v[a] \in Int
  OBVIOUS
<1>3. PICK g \in [SUBSET A -> Int] : Sums(g, A, v) /\ SumOf(v, A) = g[A]
  BY <1>2, SumOfDef
<1>4. \A s \in SUBSET A : g[s] = f[s]
  BY <1>1, <1>3, SumsAgree
<1>5. QED BY <1>1, <1>3, <1>4
==============================================================================
