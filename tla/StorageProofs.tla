--------------------------- MODULE StorageProofs ---------------------------
(***************************************************************************)
(* Theorems about Storage: however commands follow each other, the nodes   *)
(* are a tree below the root, entries can be told apart, and the path that *)
(* is shown leads back.  The module goes from sequences of children to     *)
(* trees of nodes, then to the operations on them, each of which is shown  *)
(* to keep a tree sound, and at last to the commands.                      *)
(***************************************************************************)
EXTENDS Storage, Induction, SequenceTheorems, TLAPS

-----------------------------------------------------------------------------
(* Sequences of children.                                                    *)

Once(c) == \A i, j \in 1..Len(c) : c[i] = c[j] => i = j

\* The least index of a set of indices, which SelectInSeq chooses.
LEMMA MinIs ==
    ASSUME NEW k \in Nat, NEW I \in SUBSET (1..k), I # {}
    PROVE  Min(I) \in I /\ \A j \in I : Min(I) <= j
<1>1. I \in SUBSET Nat
  OBVIOUS
<1>2. \E m \in I : \A j \in I : m <= j
  BY <1>1, LeastElement
<1>3. QED BY <1>2, Zenon DEF Min

LEMMA MembersIs ==
    ASSUME NEW S, NEW c \in Seq(S)
    PROVE  /\ ToSet(c) \subseteq S
           /\ \A x : x \in ToSet(c) <=> \E i \in 1..Len(c) : x = c[i]
BY DEF ToSet

\* A new first child.
LEMMA FirstChild ==
    ASSUME NEW S, NEW c \in Seq(S), Once(c), NEW n \in S, n \notin ToSet(c)
    PROVE  /\ <<n>> \o c \in Seq(S) /\ Once(<<n>> \o c)
           /\ ToSet(<<n>> \o c) = {n} \cup ToSet(c)
<1> DEFINE q == <<n>> \o c
<1>1. /\ q \in Seq(S) /\ Len(q) = Len(c) + 1 /\ Len(c) \in Nat
      /\ q[1] = n /\ \A i \in 2..(Len(c) + 1) : q[i] = c[i - 1]
  OBVIOUS
<1>2. \A i \in 1..Len(c) : c[i] # n
  BY DEF ToSet
<1> HIDE DEF q
<1>3. ASSUME NEW i \in 1..Len(q), NEW j \in 1..Len(q), q[i] = q[j] PROVE i = j
  <2>1. CASE i = 1 /\ j # 1
    <3>1. q[j] = c[j - 1] /\ j - 1 \in 1..Len(c)
      BY <1>1, <2>1
    <3>2. QED BY <1>1, <1>2, <1>3, <2>1, <3>1
  <2>2. CASE i # 1 /\ j = 1
    <3>1. q[i] = c[i - 1] /\ i - 1 \in 1..Len(c)
      BY <1>1, <2>2
    <3>2. QED BY <1>1, <1>2, <1>3, <2>2, <3>1
  <2>3. CASE i # 1 /\ j # 1
    <3>1. /\ q[i] = c[i - 1] /\ i - 1 \in 1..Len(c)
          /\ q[j] = c[j - 1] /\ j - 1 \in 1..Len(c)
      BY <1>1, <2>3
    <3>2. i - 1 = j - 1
      BY <1>3, <3>1 DEF Once
    <3>3. QED BY <1>1, <3>2
  <2>4. QED BY <2>1, <2>2, <2>3
<1>4. Once(q)
  BY <1>3 DEF Once
<1>5. ToSet(q) = {n} \cup ToSet(c)
  <2>1. ASSUME NEW x \in ToSet(q) PROVE x \in {n} \cup ToSet(c)
    <3>1. PICK i \in 1..Len(q) : x = q[i]
      BY <1>1, MembersIs
    <3>2. CASE i = 1
      BY <1>1, <3>1, <3>2
    <3>3. CASE i # 1
      <4>1. x = c[i - 1] /\ i - 1 \in 1..Len(c)
        BY <1>1, <3>1, <3>3
      <4>2. QED BY <4>1, MembersIs
    <3>4. QED BY <3>2, <3>3
  <2>2. n \in ToSet(q)
    BY <1>1, MembersIs
  <2>3. ASSUME NEW x \in ToSet(c) PROVE x \in ToSet(q)
    <3>1. PICK i \in 1..Len(c) : x = c[i]
      BY MembersIs
    <3>2. q[i + 1] = x /\ i + 1 \in 1..Len(q)
      BY <1>1, <3>1
    <3>3. QED BY <1>1, <3>2, MembersIs
  <2>4. QED BY <2>1, <2>2, <2>3
<1>6. QED BY <1>1, <1>4, <1>5 DEF q

\* A child taken out.
LEMMA ChildOut ==
    ASSUME NEW S, NEW c \in Seq(S), Once(c), NEW n
    PROVE  /\ RemoveFirst(c, n) \in Seq(S) /\ Once(RemoveFirst(c, n))
           /\ ToSet(RemoveFirst(c, n)) = ToSet(c) \ {n}
<1> DEFINE I == {i \in 1..Len(c) : c[i] = n}
           k == SelectInSeq(c, LAMBDA v : v = n)
           q == RemoveAt(c, k)
<1>1. CASE I = {}
  <2>1. RemoveFirst(c, n) = c
    BY <1>1 DEF RemoveFirst
  <2>2. n \notin ToSet(c)
    BY <1>1 DEF ToSet
  <2>3. QED BY <2>1, <2>2
<1>2. CASE I # {}
  <2>1. RemoveFirst(c, n) = q
    BY <1>2 DEF RemoveFirst
  <2>2. k = Min(I)
    BY <1>2 DEF SelectInSeq
  <2>3. k \in 1..Len(c) /\ c[k] = n /\ Len(c) \in Nat
    <3>1. Len(c) \in Nat /\ I \in SUBSET (1..Len(c))
      OBVIOUS
    <3> HIDE DEF I
    <3>2. Min(I) \in I
      BY <1>2, <3>1, MinIs
    <3>3. QED BY <2>2, <3>1, <3>2 DEF I
  <2> HIDE DEF k, I
  <2>4. /\ q \in Seq(S) /\ Len(q) = Len(c) - 1
        /\ \A i \in 1..(Len(c) - 1) : q[i] = IF i < k THEN c[i] ELSE c[i + 1]
    <3> DEFINE a == SubSeq(c, 1, k - 1)
               b == SubSeq(c, k + 1, Len(c))
    <3>1. /\ a \in Seq(S) /\ Len(a) = k - 1 /\ \A i \in 1..(k - 1) : a[i] = c[i]
      BY <2>3
    <3>2. /\ b \in Seq(S) /\ Len(b) = Len(c) - k
          /\ \A i \in 1..(Len(c) - k) : b[i] = c[k + i]
      BY <2>3
    <3>3. q = a \o b
      BY DEF RemoveAt
    <3> HIDE DEF a, b, q
    <3>4. a \o b \in Seq(S) /\ Len(a \o b) = Len(c) - 1
      <4>1. a \o b \in Seq(S) /\ Len(a \o b) = Len(a) + Len(b)
        BY <3>1, <3>2
      <4>2. QED BY <2>3, <3>1, <3>2, <4>1
    <3>5. ASSUME NEW i \in 1..(Len(c) - 1) PROVE q[i] = IF i < k THEN c[i] ELSE c[i + 1]
      <4>1. CASE i < k
        <5>1. i \in 1..(k - 1)
          BY <2>3, <4>1
        <5>2. (a \o b)[i] = a[i]
          BY <2>3, <3>1, <3>2, <5>1
        <5>3. QED BY <3>1, <3>3, <4>1, <5>1, <5>2
      <4>2. CASE ~(i < k)
        <5>1. i - (k - 1) \in 1..(Len(c) - k) /\ k + (i - (k - 1)) = i + 1
          BY <2>3, <4>2
        <5>2. (a \o b)[i] = b[i - (k - 1)]
          BY <2>3, <3>1, <3>2, <4>2, <5>1
        <5>3. b[i - (k - 1)] = c[i + 1]
          BY <3>2, <5>1
        <5>4. QED BY <3>3, <4>2, <5>2, <5>3
      <4>3. QED BY <4>1, <4>2
    <3>6. QED BY <3>3, <3>4, <3>5
  <2> HIDE DEF q
  <2>5. ASSUME NEW i \in 1..Len(q)
        PROVE  \E j \in 1..Len(c) : j # k /\ q[i] = c[j] /\ j = IF i < k THEN i ELSE i + 1
    BY <2>3, <2>4
  <2>6. ASSUME NEW i \in 1..Len(q), NEW j \in 1..Len(q), q[i] = q[j] PROVE i = j
    <3>1. PICK x \in 1..Len(c) : q[i] = c[x] /\ x = IF i < k THEN i ELSE i + 1
      BY <2>5
    <3>2. PICK y \in 1..Len(c) : q[j] = c[y] /\ y = IF j < k THEN j ELSE j + 1
      BY <2>5
    <3>3. x = y
      BY <2>6, <3>1, <3>2 DEF Once
    <3>4. QED BY <2>3, <2>4, <3>1, <3>2, <3>3
  <2>7. ToSet(q) = ToSet(c) \ {n}
    <3>1. ASSUME NEW x \in ToSet(q) PROVE x \in ToSet(c) \ {n}
      <4>1. PICK i \in 1..Len(q) : x = q[i]
        BY <2>4, <3>1, MembersIs
      <4>2. PICK j \in 1..Len(c) : j # k /\ q[i] = c[j]
        BY <2>5
      <4>3. c[j] # n
        BY <2>3, <4>2 DEF Once
      <4>4. QED BY <4>1, <4>2, <4>3, MembersIs
    <3>2. ASSUME NEW x \in ToSet(c) \ {n} PROVE x \in ToSet(q)
      <4>1. PICK j \in 1..Len(c) : x = c[j]
        BY <3>2, MembersIs
      <4>2. j # k
        BY <2>3, <3>2, <4>1
      <4> DEFINE i == IF j < k THEN j ELSE j - 1
      <4>3. i \in 1..Len(q) /\ (i < k => i = j) /\ (~(i < k) => i + 1 = j)
        BY <2>3, <2>4, <4>2
      <4>4. q[i] = c[j]
        <5> HIDE DEF i
        <5>1. QED BY <2>4, <4>3
      <4>5. QED BY <2>4, <4>1, <4>3, <4>4, MembersIs
    <3>3. QED BY <3>1, <3>2
  <2>8. QED BY <2>1, <2>4, <2>6, <2>7 DEF Once
<1>3. QED BY <1>1, <1>2

-----------------------------------------------------------------------------
(* Trees of nodes.                                                           *)

Node == [type : {"dir", "file"}, name : Words \cup {NoName}, parent : Slots \cup {Null},
         children : Seq(Slots), text : Texts \cup {NoText}, cap : Nat]

Trees == [Slots -> Node \cup {Free}]

Kids(t, d) == ToSet(t[d].children)
Caps(t) == {n \in Live(t) : t[n].cap > 0}

\* A child knows its parent, which is a directory and lists it once.
Linked(t) ==
    \A d \in Live(t) :
        /\ Once(t[d].children)
        /\ \A n \in Kids(t, d) : n \in Live(t) /\ t[n].parent = d /\ t[d].type = "dir"

\* Whatever is allocated can be reached: the nodes are the least set that has
\* the root and with a node its children.
Closed(t, S) == \A m \in S : Kids(t, m) \subseteq S

Rooted(t) == \A S \in SUBSET Live(t) : Root \in S /\ Closed(t, S) => S = Live(t)

TextsFit(t) == \A n \in Live(t) : t[n].text # NoText => Size[t[n].text] < t[n].cap

\* The heap has room for what is allocated.
Fits(t) == Cardinality(Live(t)) + Cardinality(Caps(t)) <= Blocks

NamesApart(t) ==
    \A m, n \in Live(t) :
        m # n /\ t[m].parent = t[n].parent /\ t[m].name = t[n].name
            => \E w \in Words : Stored[w] # w /\ Stored[w] = t[n].name

RootIsDir(t) == Root \in Live(t) /\ t[Root].parent = Null /\ t[Root].type = "dir"

Sound(t) ==
    /\ t \in Trees /\ RootIsDir(t)
    /\ Linked(t) /\ Rooted(t)
    /\ TextsFit(t) /\ Fits(t) /\ NamesApart(t)

\* What an operation does to the nodes there were before it.
Grows(t, u) == \A m \in Live(t) : m \in Live(u) /\ u[m].type = t[m].type
Shrinks(t, u) == \A m \in Live(u) : m \in Live(t) /\ u[m].type = t[m].type
NewDirs(t, u) == \A m \in Live(u) \ Live(t) : u[m].type = "dir"

LEMMA SlotsAre ==
    /\ Slots \subseteq Nat /\ Null \notin Slots /\ Root \in Slots /\ Blocks \in Nat
    /\ IsFiniteSet(Slots) /\ Cardinality(Slots) = Blocks
<1>1. Blocks \in Nat \ {0}
  BY RamFsAssumption
<1>2. IsFiniteSet(Slots) /\ Cardinality(Slots) = Blocks
  BY <1>1, FS_Interval DEF Slots
<1>3. QED BY <1>1, <1>2 DEF Slots, Null, Root

LEMMA LiveNode ==
    ASSUME NEW t \in Trees, NEW n \in Live(t)
    PROVE  /\ n \in Slots /\ n # Null /\ t[n] \in Node
           /\ t[n].type \in {"dir", "file"} /\ t[n].name \in Words \cup {NoName}
           /\ t[n].parent \in Slots \cup {Null} /\ t[n].children \in Seq(Slots)
           /\ t[n].text \in Texts \cup {NoText} /\ t[n].cap \in Nat
           /\ Kids(t, n) \subseteq Slots
<1>1. n \in Slots /\ n # Null /\ t[n] \in Node
  BY SlotsAre DEF Live, Trees
<1>2. /\ t[n].type \in {"dir", "file"} /\ t[n].name \in Words \cup {NoName}
      /\ t[n].parent \in Slots \cup {Null} /\ t[n].children \in Seq(Slots)
      /\ t[n].text \in Texts \cup {NoText} /\ t[n].cap \in Nat
  BY <1>1 DEF Node
<1>3. Kids(t, n) \subseteq Slots
  BY <1>2, MembersIs DEF Kids
<1>4. QED BY <1>1, <1>2, <1>3

LEMMA NodeIsLive ==
    ASSUME NEW t, NEW n \in Slots, t[n] \in Node
    PROVE  n \in Live(t)
<1>1. t[n].type \in {"dir", "file"}
  BY DEF Node
<1>2. Free.type = "free"
  BY DEF Free
<1>3. QED BY <1>1, <1>2 DEF Live

LEMMA KidIs ==
    ASSUME NEW t, Sound(t), NEW d \in Live(t), NEW n \in Kids(t, d)
    PROVE  /\ n \in Live(t) /\ t[n].parent = d /\ t[d].type = "dir"
           /\ n # Root /\ d \in Slots
<1>1. n \in Live(t) /\ t[n].parent = d /\ t[d].type = "dir"
  BY DEF Sound, Linked
<1>2. d \in Slots
  BY DEF Live
<1>3. QED BY <1>1, <1>2, SlotsAre DEF Sound, RootIsDir

\* Every node but the root hangs from another.
LEMMA Hung ==
    ASSUME NEW t, Sound(t), NEW n \in Live(t), n # Root
    PROVE  /\ t[n].parent \in Live(t) /\ n \in Kids(t, t[n].parent)
           /\ t[t[n].parent].type = "dir"
<1> DEFINE S == Live(t) \ {n}
<1>1. S \in SUBSET Live(t) /\ Root \in S /\ S # Live(t)
  BY DEF Sound, RootIsDir
<1>2. ~Closed(t, S)
  <2> HIDE DEF S
  <2>1. QED BY <1>1 DEF Sound, Rooted
<1>3. PICK m \in S : ~(Kids(t, m) \subseteq S)
  BY <1>2 DEF Closed
<1>4. PICK k \in Kids(t, m) : k \notin S
  BY <1>3
<1>5. k \in Live(t) /\ t[k].parent = m /\ t[m].type = "dir"
  BY <1>3, <1>4, KidIs
<1>6. QED BY <1>4, <1>5

-----------------------------------------------------------------------------
(* The subtree of a node is the least set that has it and with a node its    *)
(* children.                                                                 *)

LEMMA GenerationIs ==
    ASSUME NEW t, Sound(t), NEW X \in SUBSET Live(t)
    PROVE  /\ WithChildren(t, X) \in SUBSET Live(t) /\ X \subseteq WithChildren(t, X)
           /\ \A S : X \subseteq S /\ Closed(t, S) => WithChildren(t, X) \subseteq S
           /\ WithChildren(t, X) = X => Closed(t, X)
<1>1. \A x : x \in WithChildren(t, X) <=> x \in X \/ \E m \in X : x \in Kids(t, m)
  BY DEF WithChildren, Kids
<1>2. \A m \in X : Kids(t, m) \subseteq Live(t)
  BY KidIs
<1>3. QED BY <1>1, <1>2 DEF Closed

LEMMA Generations ==
    ASSUME NEW t, Sound(t), NEW n \in Live(t)
    PROVE  \E made : /\ Subtree(t, n) = made[Blocks] /\ made[0] = {n}
                     /\ \A k \in 1..Blocks : made[k] = WithChildren(t, made[k - 1])
                     /\ \A k \in 0..Blocks : made[k] \in SUBSET Live(t)
<1> DEFINE N == Blocks
           D == SUBSET Live(t)
           F == [p \in D \X Nat |-> WithChildren(t, p[1])]
           Eq(f) == f = [k \in 0..N |-> IF k = 0 THEN {n} ELSE WithChildren(t, f[k - 1])]
           made == CHOOSE f : Eq(f)
<1>1. N \in Nat
  BY SlotsAre
<1>2. Subtree(t, n) = made[Blocks]
  BY Zenon DEF Subtree
<1>3. \A X \in D : WithChildren(t, X) \in D
  BY GenerationIs
<1>4. F \in [D \X Nat -> D] /\ \A X \in D, k \in Nat : F[<<X, k>>] = WithChildren(t, X)
  BY <1>3
<1>5. {n} \in D
  OBVIOUS
<1> HIDE DEF F, N, D
<1>6. PICK h \in [0..N -> D] : Recurs(h, N, {n}, F)
  BY <1>1, <1>4, <1>5, RecursionUpTo
<1>7. h[0] = {n} /\ \A k \in 1..N : h[k] = F[<<h[k - 1], k>>] /\ h[k - 1] \in D
  BY <1>1, <1>5, <1>6, RecursionSteps
<1>8. ASSUME NEW k \in 1..N PROVE h[k] = WithChildren(t, h[k - 1])
  <2>1. k \in Nat /\ h[k - 1] \in D /\ h[k] = F[<<h[k - 1], k>>]
    BY <1>1, <1>7
  <2>2. QED BY <1>4, <2>1
<1>9. Eq(h)
  <2>1. \A k \in 0..N : h[k] = IF k = 0 THEN {n} ELSE WithChildren(t, h[k - 1])
    BY <1>1, <1>7, <1>8
  <2>2. h = [k \in 0..N |-> h[k]]
    OBVIOUS
  <2>3. QED BY <2>1, <2>2
<1>10. Eq(made)
  <2> HIDE DEF Eq
  <2>1. QED BY <1>9
<1>11. /\ made[0] = {n}
       /\ \A k \in 1..N : made[k] = WithChildren(t, made[k - 1])
  <2>1. \A k \in 0..N : made[k] = IF k = 0 THEN {n} ELSE WithChildren(t, made[k - 1])
    <3> HIDE DEF made
    <3>1. QED BY <1>10
  <2> HIDE DEF Eq, made
  <2>2. QED BY <1>1, <2>1
<1> HIDE DEF Eq, made
<1> DEFINE S == {k \in 0..N : made[k] \in D}
<1>12. 0 \in S
  <2>1. made[0] \in D
    BY <1>5, <1>11, Zenon
  <2>2. 0 \in 0..N
    BY <1>1
  <2>3. QED BY <2>1, <2>2
<1>13. ASSUME NEW k \in 0..(N - 1), k \in S PROVE k + 1 \in S
  <2>1. k + 1 \in 1..N /\ k + 1 \in 0..N /\ (k + 1) - 1 = k
    BY <1>1
  <2>2. made[k + 1] = WithChildren(t, made[k])
    BY <1>11, <2>1
  <2>3. QED BY <1>3, <1>13, <2>1, <2>2
<1>14. \A k \in 0..N : made[k] \in D
  <2>1. 0..N \subseteq S
    <3> HIDE DEF S
    <3>1. QED BY <1>1, <1>12, <1>13, InductionUpTo
  <2>2. QED BY <2>1
<1>15. QED BY <1>2, <1>11, <1>14 DEF N, D

\* The set of the nodes below n, n with them.
Below(t, n, G) ==
    /\ G \in SUBSET Live(t) /\ n \in G /\ Closed(t, G)
    /\ \A S : n \in S /\ Closed(t, S) => G \subseteq S

LEMMA LiveIsFinite ==
    ASSUME NEW t, NEW X \in SUBSET Live(t)
    PROVE  IsFiniteSet(X) /\ Cardinality(X) \in Nat /\ Cardinality(X) <= Blocks
<1>1. X \in SUBSET Slots
  BY DEF Live
<1>2. QED BY <1>1, SlotsAre, FS_Subset, FS_CardinalityType

LEMMA SubtreeIs ==
    ASSUME NEW t, Sound(t), NEW n \in Live(t)
    PROVE  Below(t, n, Subtree(t, n))
<1>1. PICK made : /\ Subtree(t, n) = made[Blocks] /\ made[0] = {n}
                  /\ \A k \in 1..Blocks : made[k] = WithChildren(t, made[k - 1])
                  /\ \A k \in 0..Blocks : made[k] \in SUBSET Live(t)
  BY Generations
<1>2. Blocks \in Nat
  BY SlotsAre
<1>3. ASSUME NEW k \in 0..(Blocks - 1)
      PROVE  /\ k + 1 \in 0..Blocks /\ made[k + 1] = WithChildren(t, made[k]) /\ made[k] \in SUBSET Live(t)
             /\ made[k + 1] \in SUBSET Live(t)
  <2>1. k + 1 \in 1..Blocks /\ k + 1 \in 0..Blocks /\ k \in 0..Blocks /\ (k + 1) - 1 = k
    BY <1>2
  <2>2. QED BY <1>1, <2>1
<1> DEFINE Size1(k) == Cardinality(made[k])
           T == {k \in 0..Blocks : n \in made[k]}
           U == {k \in 0..Blocks : \A S : n \in S /\ Closed(t, S) => made[k] \subseteq S}
           V == {k \in 0..Blocks : Closed(t, made[k]) \/ Size1(k) > k}
<1>4. n \in made[Blocks]
  <2>1. 0 \in T
    BY <1>1, <1>2
  <2>2. ASSUME NEW k \in 0..(Blocks - 1), k \in T PROVE k + 1 \in T
    <3>1. made[k] \subseteq made[k + 1]
      BY <1>3, GenerationIs
    <3>2. QED BY <1>3, <2>2, <3>1
  <2>3. 0..Blocks \subseteq T
    <3> HIDE DEF T
    <3>1. QED BY <1>2, <2>1, <2>2, InductionUpTo
  <2>4. QED BY <1>2, <2>3
<1>5. \A S : n \in S /\ Closed(t, S) => made[Blocks] \subseteq S
  <2>1. 0 \in U
    BY <1>1, <1>2
  <2>2. ASSUME NEW k \in 0..(Blocks - 1), k \in U PROVE k + 1 \in U
    <3>1. ASSUME NEW S, n \in S, Closed(t, S) PROVE made[k + 1] \subseteq S
      <4>1. made[k] \subseteq S
        BY <2>2, <3>1
      <4>2. WithChildren(t, made[k]) \subseteq S
        BY <1>3, <3>1, <4>1, GenerationIs
      <4>3. QED BY <1>3, <4>2
    <3>2. QED BY <1>3, <3>1
  <2>3. 0..Blocks \subseteq U
    <3> HIDE DEF U
    <3>1. QED BY <1>2, <2>1, <2>2, InductionUpTo
  <2>4. QED BY <1>2, <2>3
<1>6. Closed(t, made[Blocks])
  <2>1. 0 \in V
    <3>1. Size1(0) = 1
      BY <1>1, FS_Singleton
    <3>2. QED BY <1>2, <3>1
  <2>2. ASSUME NEW k \in 0..(Blocks - 1), k \in V PROVE k + 1 \in V
    <3>1. CASE Closed(t, made[k])
      <4>1. WithChildren(t, made[k]) \subseteq made[k] /\ made[k] \subseteq WithChildren(t, made[k])
        BY <1>3, <3>1, GenerationIs
      <4>2. made[k + 1] = made[k]
        BY <1>3, <4>1
      <4>3. QED BY <1>3, <3>1, <4>2
    <3>2. CASE ~Closed(t, made[k])
      <4>1. made[k] \subseteq made[k + 1] /\ made[k + 1] # made[k]
        BY <1>3, <3>2, GenerationIs
      <4>2. IsFiniteSet(made[k + 1]) /\ Size1(k + 1) \in Nat /\ Size1(k) \in Nat
        BY <1>3, LiveIsFinite
      <4>3. Size1(k) <= Size1(k + 1) /\ Size1(k) # Size1(k + 1)
        BY <4>1, <4>2, FS_Subset
      <4>4. Size1(k) > k
        BY <2>2, <3>2
      <4>5. Size1(k + 1) > k + 1
        <5> HIDE DEF Size1
        <5>1. QED BY <1>2, <4>2, <4>3, <4>4
      <4>6. QED BY <1>3, <4>5
    <3>3. QED BY <3>1, <3>2
  <2>3. 0..Blocks \subseteq V
    <3> HIDE DEF V
    <3>1. QED BY <1>2, <2>1, <2>2, InductionUpTo
  <2>4. Blocks \in 0..Blocks /\ made[Blocks] \in SUBSET Live(t)
    BY <1>1, <1>2
  <2>5. Size1(Blocks) \in Nat /\ Size1(Blocks) <= Blocks
    BY <2>4, LiveIsFinite
  <2>6. ~(Size1(Blocks) > Blocks)
    <3> HIDE DEF Size1
    <3>1. QED BY <1>2, <2>5
  <2>7. QED BY <2>3, <2>4, <2>6
<1>7. Blocks \in 0..Blocks
  BY <1>2
<1>8. QED BY <1>1, <1>4, <1>5, <1>6, <1>7 DEF Below

\* Only n itself hangs from outside of its subtree.
LEMMA BelowIs ==
    ASSUME NEW t, Sound(t), NEW n \in Live(t), n # Root, NEW G, Below(t, n, G)
    PROVE  /\ Root \notin G /\ t[n].parent \notin G
           /\ \A k \in G \ {n} : t[k].parent \in G
<1>1. Null \notin Live(t) /\ t[Root].parent = Null /\ Root \in Live(t)
  BY SlotsAre DEF Sound, RootIsDir, Live
<1>2. ASSUME NEW k \in G \ {n} PROVE t[k].parent \in G
  <2> DEFINE S == G \ {k}
  <2>1. n \in S /\ ~(G \subseteq S)
    BY <1>2 DEF Below
  <2>2. ~Closed(t, S)
    <3> HIDE DEF S
    <3>1. QED BY <2>1 DEF Below
  <2>3. PICK m \in S : ~(Kids(t, m) \subseteq S)
    BY <2>2 DEF Closed
  <2>4. PICK x \in Kids(t, m) : x \notin S
    BY <2>3
  <2>5. x \in G /\ m \in G
    BY <2>3, <2>4 DEF Below, Closed
  <2>6. x = k
    BY <2>4, <2>5
  <2>7. m \in Live(t)
    BY <2>5 DEF Below
  <2>8. t[k].parent = m
    BY <2>4, <2>6, <2>7, KidIs
  <2>9. QED BY <2>5, <2>8
<1>3. Root \notin G
  <2>1. G \subseteq Live(t)
    BY DEF Below
  <2>2. QED BY <1>1, <1>2, <2>1
<1>4. ASSUME t[n].parent \in G PROVE FALSE
  <2> DEFINE S == Live(t) \ G
  <2>1. S \in SUBSET Live(t) /\ Root \in S /\ S # Live(t)
    BY <1>1, <1>3 DEF Below
  <2>2. ASSUME NEW m \in S, NEW k \in Kids(t, m) PROVE k \in S
    <3>1. k \in Live(t) /\ t[k].parent = m
      BY <2>2, KidIs
    <3>2. k \notin G
      BY <1>2, <1>4, <2>2, <3>1
    <3>3. QED BY <3>1, <3>2
  <2>3. Closed(t, S)
    <3> HIDE DEF S
    <3>1. QED BY <2>2 DEF Closed
  <2>4. QED
    <3> HIDE DEF S
    <3>1. QED BY <2>1, <2>3 DEF Sound, Rooted
<1>5. QED BY <1>2, <1>3, <1>4

-----------------------------------------------------------------------------
(* A node with other children, or another text.                             *)

Same(r, s) == r.type = s.type /\ r.name = s.name /\ r.parent = s.parent

LEMMA OtherChildren ==
    ASSUME NEW r \in Node, NEW c \in Seq(Slots), NEW s, s = [r EXCEPT !.children = c]
    PROVE  /\ s \in Node /\ Same(r, s) /\ s.children = c
           /\ s.text = r.text /\ s.cap = r.cap
BY DEF Node, Same

LEMMA OtherText ==
    ASSUME NEW r \in Node, NEW x \in Texts \cup {NoText}, NEW k \in Nat,
           NEW s, s = Holding(r, x, k)
    PROVE  /\ s \in Node /\ Same(r, s) /\ s.children = r.children
           /\ s.text = x /\ s.cap = k
BY DEF Node, Same, Holding

LEMMA NoChildren == Once(<<>>) /\ ToSet(<<>>) = {} /\ <<>> \in Seq(Slots)
BY DEF Once, ToSet

LEMMA NewNodeIs ==
    ASSUME NEW type \in {"dir", "file"}, NEW name \in Words \cup {NoName}, NEW p \in Slots \cup {Null},
           NEW s, s = NewNode(name, type, p)
    PROVE  /\ s \in Node /\ s.type = type /\ s.name = name /\ s.parent = p
           /\ s.children = <<>> /\ s.text = NoText /\ s.cap = 0
BY NoChildren DEF Node, NewNode

\* Card(Live) and Card(Caps) as numbers.
LEMMA CapsAre ==
    ASSUME NEW t
    PROVE  /\ IsFiniteSet(Live(t)) /\ Cardinality(Live(t)) \in Nat
           /\ IsFiniteSet(Caps(t)) /\ Cardinality(Caps(t)) \in Nat
<1>1. Live(t) \in SUBSET Live(t) /\ Caps(t) \in SUBSET Live(t)
  BY DEF Caps
<1>2. QED BY <1>1, LiveIsFinite

\* At boot there is the root.
LEMMA EmptyIsSound == Sound(EmptyTree) /\ \A m \in Live(EmptyTree) : EmptyTree[m].type = "dir"
<1> DEFINE t == EmptyTree
           r == NewNode(NoName, "dir", Null)
<1>1. /\ r \in Node /\ r.type = "dir" /\ r.name = NoName /\ r.parent = Null
      /\ r.children = <<>> /\ r.text = NoText /\ r.cap = 0
  BY NewNodeIs
<1>2. Root \in Slots /\ t[Root] = r /\ \A n \in Slots : n # Root => t[n] = Free
  BY SlotsAre DEF EmptyTree
<1> HIDE DEF r
<1>3. t \in Trees
  BY <1>1, <1>2 DEF EmptyTree, Trees, r
<1> HIDE DEF t
<1>4. Live(t) = {Root}
  <2>1. Root \in Live(t)
    BY <1>1, <1>2, NodeIsLive
  <2>2. QED BY <1>2, <2>1 DEF Live
<1>5. Kids(t, Root) = {} /\ Once(t[Root].children)
  BY <1>1, <1>2, NoChildren DEF Kids
<1>6. Linked(t) /\ Rooted(t) /\ RootIsDir(t)
  BY <1>1, <1>2, <1>4, <1>5 DEF Linked, Rooted, RootIsDir
<1>7. TextsFit(t) /\ NamesApart(t)
  BY <1>1, <1>2, <1>4 DEF TextsFit, NamesApart
<1>8. Fits(t)
  <2>1. Caps(t) = {}
    BY <1>1, <1>2, <1>4 DEF Caps
  <2>2. Cardinality(Live(t)) = 1 /\ Cardinality(Caps(t)) = 0
    BY <1>4, <2>1, FS_Singleton, FS_EmptySet
  <2>3. Blocks \in Nat \ {0}
    BY RamFsAssumption
  <2>4. QED BY <2>2, <2>3 DEF Fits
<1>9. QED BY <1>1, <1>2, <1>3, <1>4, <1>6, <1>7, <1>8 DEF Sound, t

-----------------------------------------------------------------------------
(* fs_create.                                                                *)

LEMMA FindChildIs ==
    ASSUME NEW t, Sound(t), NEW d \in Live(t), NEW w
    PROVE  \/ FindChild(t, d, w) = Null /\ \A k \in Kids(t, d) : t[k].name # w
           \/ FindChild(t, d, w) \in Kids(t, d) /\ t[FindChild(t, d, w)].name = w
<1> DEFINE c == t[d].children
           I == {i \in 1..Len(c) : t[c[i]].name = w}
           k == SelectInSeq(c, LAMBDA n : t[n].name = w)
<1>1. c \in Seq(Slots)
  BY LiveNode DEF Sound
<1>2. Len(c) \in Nat /\ \A x : x \in Kids(t, d) <=> \E i \in 1..Len(c) : x = c[i]
  BY <1>1, MembersIs DEF Kids
<1>3. FindChild(t, d, w) = IF k = 0 THEN Null ELSE c[k]
  BY DEF FindChild
<1>4. k = IF I # {} THEN Min(I) ELSE 0
  BY DEF SelectInSeq
<1>5. I \in SUBSET (1..Len(c))
  OBVIOUS
<1> HIDE DEF k
<1>6. CASE I = {}
  <2>1. \A x \in Kids(t, d) : t[x].name # w
    BY <1>2, <1>6
  <2>2. QED BY <1>3, <1>4, <1>6, <2>1
<1>7. CASE I # {}
  <2>1. Min(I) \in I
    <3> HIDE DEF I
    <3>1. QED BY <1>2, <1>5, <1>7, MinIs
  <2>2. k \in 1..Len(c) /\ t[c[k]].name = w
    BY <1>4, <1>7, <2>1
  <2>3. k # 0
    BY <1>2, <2>2
  <2>4. QED BY <1>2, <1>3, <2>2, <2>3
<1>8. QED BY <1>6, <1>7

\* A child that was added: what WithChild gives, and what it is given.
Added(t, u, d, n, name, type) ==
    /\ Sound(t) /\ d \in Live(t) /\ t[d].type = "dir"
    /\ n \in Slots /\ n \notin Live(t)
    /\ name \in Words /\ type \in {"dir", "file"}
    /\ u = WithChild(t, d, n, NewNode(name, type, d))

LEMMA AddedIs ==
    ASSUME NEW t, NEW u, NEW d, NEW n, NEW name, NEW type, Added(t, u, d, n, name, type)
    PROVE  /\ u \in Trees /\ Live(u) = Live(t) \cup {n}
           /\ u[n].type = type /\ u[n].name = name /\ u[n].parent = d
           /\ u[n].text = NoText /\ u[n].cap = 0
           /\ \A m \in Live(t) : Same(t[m], u[m]) /\ u[m].text = t[m].text /\ u[m].cap = t[m].cap
           /\ \A m \in Live(u) : Once(u[m].children)
           /\ Kids(u, n) = {} /\ Kids(u, d) = {n} \cup Kids(t, d)
           /\ \A m \in Live(t) : m # d => Kids(u, m) = Kids(t, m)
<1>0. /\ Sound(t) /\ d \in Live(t) /\ n \in Slots /\ n \notin Live(t) /\ d # n
      /\ t \in Trees /\ name \in Words /\ type \in {"dir", "file"}
      /\ u = WithChild(t, d, n, NewNode(name, type, d))
  BY DEF Added, Sound
<1>1. /\ d \in Slots /\ t[d] \in Node /\ t[d].children \in Seq(Slots) /\ Once(t[d].children)
      /\ n \notin ToSet(t[d].children)
  <2>1. n \notin Kids(t, d)
    BY <1>0, KidIs
  <2>2. QED BY <1>0, <2>1, LiveNode DEF Sound, Linked, Kids
<1> DEFINE c == <<n>> \o t[d].children
           r == NewNode(name, type, d)
           s == [t[d] EXCEPT !.children = c]
<1>2. c \in Seq(Slots) /\ Once(c) /\ ToSet(c) = {n} \cup ToSet(t[d].children)
  BY <1>0, <1>1, FirstChild
<1>3. /\ r \in Node /\ r.type = type /\ r.name = name /\ r.parent = d
      /\ r.children = <<>> /\ r.text = NoText /\ r.cap = 0
  BY <1>0, <1>1, NewNodeIs
<1>4. u = [m \in Slots |-> IF m = n THEN r ELSE IF m = d THEN s ELSE t[m]]
  BY <1>0 DEF WithChild
<1> HIDE DEF c, r
<1>5. /\ s \in Node /\ Same(t[d], s) /\ s.children = c
      /\ s.text = t[d].text /\ s.cap = t[d].cap
  BY <1>1, <1>2, OtherChildren
<1> HIDE DEF s
<1>6. /\ u[n] = r /\ u[d] = s
      /\ \A m \in Slots : m # n /\ m # d => u[m] = t[m]
  BY <1>0, <1>1, <1>4
<1>7. u \in Trees
  BY <1>0, <1>3, <1>4, <1>5 DEF Trees
<1>8. Live(u) = Live(t) \cup {n}
  <2>1. n \in Live(u) /\ d \in Live(u)
    BY <1>0, <1>1, <1>3, <1>5, <1>6, NodeIsLive
  <2>2. \A m \in Slots : m # n /\ m # d => (m \in Live(u) <=> m \in Live(t))
    BY <1>6 DEF Live
  <2>3. Live(u) \subseteq Slots /\ Live(t) \subseteq Slots
    BY DEF Live
  <2>4. QED BY <1>0, <2>1, <2>2, <2>3
<1>9. \A m \in Live(t) : m # n /\ m \in Slots /\ (m # d => u[m] = t[m])
  BY <1>0, <1>6 DEF Live
<1>10. \A m \in Live(t) : Same(t[m], u[m]) /\ u[m].text = t[m].text /\ u[m].cap = t[m].cap
  BY <1>5, <1>6, <1>9 DEF Same
<1>11. \A m \in Live(u) : Once(u[m].children)
  BY <1>0, <1>2, <1>3, <1>5, <1>6, <1>8, <1>9, NoChildren DEF Sound, Linked
<1>12. /\ Kids(u, n) = {} /\ Kids(u, d) = {n} \cup Kids(t, d)
       /\ \A m \in Live(t) : m # d => Kids(u, m) = Kids(t, m)
  BY <1>2, <1>3, <1>5, <1>6, <1>9, NoChildren DEF Kids
<1>13. QED BY <1>3, <1>6, <1>7, <1>8, <1>10, <1>11, <1>12

\* It keeps the tree sound, if the heap had room and the name is new.
LEMMA AddedIsSound ==
    ASSUME NEW t, NEW u, NEW d, NEW n, NEW name, NEW type, Added(t, u, d, n, name, type),
           Cardinality(Live(t)) + Cardinality(Caps(t)) < Blocks,
           \A k \in Kids(t, d) : t[k].name = name => \E w \in Words : Stored[w] # w /\ Stored[w] = name
    PROVE  Sound(u) /\ Grows(t, u) /\ u[n].type = type /\ Live(u) = Live(t) \cup {n}
<1>0. /\ Sound(t) /\ d \in Live(t) /\ n \in Slots /\ n \notin Live(t) /\ d # n
      /\ t[d].type = "dir"
  BY DEF Added
<1>1. /\ u \in Trees /\ Live(u) = Live(t) \cup {n}
      /\ u[n].type = type /\ u[n].name = name /\ u[n].parent = d
      /\ u[n].text = NoText /\ u[n].cap = 0
  BY AddedIs
<1>2. /\ \A m \in Live(t) : Same(t[m], u[m]) /\ u[m].text = t[m].text /\ u[m].cap = t[m].cap
      /\ \A m \in Live(u) : Once(u[m].children)
  BY AddedIs
<1>3. /\ Kids(u, n) = {} /\ Kids(u, d) = {n} \cup Kids(t, d)
      /\ \A m \in Live(t) : m # d => Kids(u, m) = Kids(t, m)
  BY AddedIs
<1>4. RootIsDir(u)
  BY <1>0, <1>1, <1>2 DEF Sound, RootIsDir, Same
<1>5. Linked(u)
  <2>1. ASSUME NEW m \in Live(u), NEW k \in Kids(u, m)
        PROVE  k \in Live(u) /\ u[k].parent = m /\ u[m].type = "dir"
    <3>1. m \in Live(t)
      BY <1>1, <1>3, <2>1
    <3>2. CASE k = n
      <4>1. m = d
        BY <1>0, <1>3, <2>1, <3>1, <3>2, KidIs
      <4>2. QED BY <1>0, <1>1, <1>2, <3>2, <4>1 DEF Same
    <3>3. CASE k # n
      <4>1. k \in Kids(t, m)
        BY <1>3, <2>1, <3>1, <3>3
      <4>2. k \in Live(t) /\ t[k].parent = m /\ t[m].type = "dir"
        BY <1>0, <3>1, <4>1, KidIs
      <4>3. QED BY <1>1, <1>2, <3>1, <4>2 DEF Same
    <3>4. QED BY <3>2, <3>3
  <2>2. QED BY <1>2, <2>1 DEF Linked
<1>6. Rooted(u)
  <2>1. ASSUME NEW S \in SUBSET Live(u), Root \in S, Closed(u, S) PROVE S = Live(u)
    <3> DEFINE R == S \ {n}
    <3>1. R \in SUBSET Live(t) /\ Root \in R
      BY <1>0, <1>1, <2>1 DEF Sound, RootIsDir
    <3>2. ASSUME NEW m \in R, NEW k \in Kids(t, m) PROVE k \in R
      <4>1. m \in Live(t) /\ m \in S
        BY <3>1, <3>2
      <4>2. k \in Kids(u, m)
        BY <1>3, <3>2, <4>1
      <4>3. k \in S
        BY <2>1, <4>1, <4>2 DEF Closed
      <4>4. k \in Live(t)
        BY <1>0, <3>2, <4>1, KidIs
      <4>5. QED BY <1>0, <4>3, <4>4
    <3>3. Closed(t, R)
      <4> HIDE DEF R
      <4>1. QED BY <3>2 DEF Closed
    <3>4. R = Live(t)
      <4> HIDE DEF R
      <4>1. QED BY <1>0, <3>1, <3>3 DEF Sound, Rooted
    <3>5. d \in S
      BY <1>0, <3>4
    <3>6. n \in S
      BY <1>3, <2>1, <3>5 DEF Closed
    <3>7. QED BY <1>1, <3>4, <3>6
  <2>2. QED BY <2>1 DEF Rooted
<1>7. TextsFit(u)
  BY <1>0, <1>1, <1>2 DEF Sound, TextsFit
<1>8. Fits(u)
  <2>1. Caps(u) = Caps(t)
    BY <1>0, <1>1, <1>2 DEF Caps
  <2>2. /\ IsFiniteSet(Live(t)) /\ Cardinality(Live(t)) \in Nat
        /\ IsFiniteSet(Caps(t)) /\ Cardinality(Caps(t)) \in Nat
    BY CapsAre
  <2>3. Cardinality(Live(u)) = Cardinality(Live(t)) + 1
    BY <1>0, <1>1, <2>2, FS_AddElement
  <2>4. QED BY <2>1, <2>2, <2>3, SlotsAre DEF Fits
<1>9. NamesApart(u)
  <2>1. ASSUME NEW k \in Live(t), u[k].parent = d, u[k].name = name
        PROVE  \E w \in Words : Stored[w] # w /\ Stored[w] = name
    <3>1. t[k].parent = d /\ t[k].name = name
      BY <1>2, <2>1 DEF Same
    <3>2. k # Root
      BY <1>0, <3>1, SlotsAre DEF Sound, RootIsDir, Live
    <3>3. k \in Kids(t, d)
      BY <1>0, <3>1, <3>2, Hung
    <3>4. QED BY <3>1, <3>3
  <2>2. ASSUME NEW k \in Live(t), NEW m \in Live(t),
               k # m, u[k].parent = u[m].parent, u[k].name = u[m].name
        PROVE  \E w \in Words : Stored[w] # w /\ Stored[w] = u[m].name
    <3>1. t[k].parent = t[m].parent /\ t[k].name = t[m].name /\ u[m].name = t[m].name
      BY <1>2, <2>2 DEF Same
    <3>2. QED BY <1>0, <2>2, <3>1 DEF Sound, NamesApart
  <2>3. QED BY <1>1, <2>1, <2>2 DEF NamesApart
<1>10. Grows(t, u)
  BY <1>1, <1>2 DEF Grows, Same
<1>11. QED BY <1>1, <1>4, <1>5, <1>6, <1>7, <1>8, <1>9, <1>10 DEF Sound

\* There is a free slot unless the heap is full.
LEMMA RoomIsThere ==
    ASSUME NEW t, Sound(t), ~HeapFull(t),
           NEW n, n = CHOOSE m \in Slots \ Live(t) : \A k \in Slots \ Live(t) : m <= k
    PROVE  /\ n \in Slots /\ n \notin Live(t)
           /\ Cardinality(Live(t)) + Cardinality(Caps(t)) < Blocks
<1>1. /\ Cardinality(Live(t)) \in Nat /\ Cardinality(Caps(t)) \in Nat /\ Blocks \in Nat
      /\ IsFiniteSet(Slots) /\ Cardinality(Slots) = Blocks
  BY CapsAre, SlotsAre
<1>2. Cardinality(Live(t)) + Cardinality(Caps(t)) <= Blocks
  BY DEF Sound, Fits
<1>3. Cardinality(Live(t)) + Cardinality(Caps(t)) # Blocks
  BY DEF HeapFull, Caps
<1>4. Cardinality(Live(t)) + Cardinality(Caps(t)) < Blocks
  BY <1>1, <1>2, <1>3
<1>5. Slots \ Live(t) # {}
  <2>1. Live(t) # Slots
    BY <1>1, <1>4
  <2>2. QED BY <2>1 DEF Live
<1>6. Slots \ Live(t) \in SUBSET Nat
  BY SlotsAre
<1>7. \E m \in Slots \ Live(t) : \A k \in Slots \ Live(t) : m <= k
  BY <1>5, <1>6, LeastElement
<1>8. n \in Slots \ Live(t)
  BY <1>7
<1>9. QED BY <1>4, <1>8

\* What an operation may return for the tree t: a sound tree that has the nodes
\* of t, with one of its nodes.
Outcome == [tree : Trees, node : Slots \cup {Null}]

GoodFor(t, r) ==
    /\ r \in Outcome /\ Sound(r.tree) /\ Grows(t, r.tree)
    /\ r.node \in Live(r.tree) \cup {Null}

LEMMA GoodResult ==
    ASSUME NEW t, NEW u, Sound(u), Grows(t, u), NEW n \in Live(u) \cup {Null}
    PROVE  GoodFor(t, Result(u, n)) /\ Result(u, n).tree = u /\ Result(u, n).node = n
<1>1. u \in Trees /\ n \in Slots \cup {Null}
  BY DEF Sound, Live
<1>2. Result(u, n) = [tree |-> u, node |-> n]
  BY DEF Result
<1>3. Result(u, n) \in Outcome /\ Result(u, n).tree = u /\ Result(u, n).node = n
  BY <1>1, <1>2 DEF Outcome
<1>4. QED BY <1>3 DEF GoodFor

LEMMA GrowsNot == \A t : Grows(t, t) /\ NewDirs(t, t)
BY DEF Grows, NewDirs

LEMMA CreateIs ==
    ASSUME NEW t, Sound(t), NEW dir \in Live(t) \cup {Null}, NEW w \in Words,
           NEW type \in {"dir", "file"}
    PROVE  /\ GoodFor(t, Create(t, dir, w, type))
           /\ type = "dir" => NewDirs(t, Create(t, dir, w, type).tree)
<1>1. CASE dir = Null \/ t[dir].type # "dir"
  <2>1. Create(t, dir, w, type) = Result(t, Null)
    BY <1>1 DEF Create
  <2>2. QED BY <2>1, GrowsNot, GoodResult
<1>2. CASE ~(dir = Null \/ t[dir].type # "dir") /\ FindChild(t, dir, w) # Null
  <2>1. Create(t, dir, w, type) = Result(t, FindChild(t, dir, w))
    BY <1>2 DEF Create
  <2>2. dir \in Live(t)
    BY <1>2
  <2>3. FindChild(t, dir, w) \in Live(t)
    BY <1>2, <2>2, FindChildIs, KidIs
  <2>4. QED BY <2>1, <2>3, GrowsNot, GoodResult
<1>3. CASE /\ ~(dir = Null \/ t[dir].type # "dir") /\ FindChild(t, dir, w) = Null
           /\ HeapFull(t)
  <2>1. Create(t, dir, w, type) = Result(t, Null)
    BY <1>3 DEF Create
  <2>2. QED BY <2>1, GrowsNot, GoodResult
<1>4. CASE /\ ~(dir = Null \/ t[dir].type # "dir") /\ FindChild(t, dir, w) = Null
           /\ ~HeapFull(t)
  <2> DEFINE n == CHOOSE m \in Slots \ Live(t) : \A k \in Slots \ Live(t) : m <= k
             u == WithChild(t, dir, n, NewNode(Stored[w], type, dir))
  <2>1. Create(t, dir, w, type) = Result(u, n)
    BY <1>4 DEF Create
  <2>2. /\ n \in Slots /\ n \notin Live(t)
        /\ Cardinality(Live(t)) + Cardinality(Caps(t)) < Blocks
    BY <1>4, RoomIsThere
  <2> HIDE DEF n
  <2>3. Stored[w] \in Words
    BY RamFsAssumption
  <2>4. dir \in Live(t) /\ t[dir].type = "dir"
    BY <1>4
  <2>5. Added(t, u, dir, n, Stored[w], type)
    BY <2>2, <2>3, <2>4 DEF Added
  <2>6. \A k \in Kids(t, dir) : t[k].name # w
    <3>1. \A k \in Kids(t, dir) : k # Null
      BY <2>4, KidIs, SlotsAre DEF Live
    <3>2. QED BY <1>4, <2>4, <3>1, FindChildIs
  <2>7. ASSUME NEW k \in Kids(t, dir), t[k].name = Stored[w]
        PROVE  \E v \in Words : Stored[v] # v /\ Stored[v] = Stored[w]
    BY <2>6, <2>7
  <2> HIDE DEF u
  <2>8. Sound(u) /\ Grows(t, u) /\ u[n].type = type /\ Live(u) = Live(t) \cup {n}
    BY <2>2, <2>5, <2>7, AddedIsSound
  <2>9. type = "dir" => NewDirs(t, u)
    BY <2>8 DEF NewDirs
  <2>10. QED BY <2>1, <2>8, <2>9, GoodResult
<1>5. QED BY <1>1, <1>2, <1>3, <1>4

-----------------------------------------------------------------------------
(* fs_mkdir_p.                                                               *)

LEMMA GrowsOn ==
    ASSUME NEW t, NEW u, NEW v, Grows(t, u), Grows(u, v)
    PROVE  Grows(t, v) /\ (NewDirs(t, u) /\ NewDirs(u, v) => NewDirs(t, v))
BY DEF Grows, NewDirs

\* What the walk of fs_mkdir_p may be at.
Descents(t) == {r \in Outcome : GoodFor(t, r) /\ NewDirs(t, r.tree)}

LEMMA DownIs ==
    ASSUME NEW t, NEW r \in Descents(t), NEW w \in Words
    PROVE  Down(r, w) \in Descents(t)
<1> DEFINE u == r.tree
           x == Stored[w]
<1>1. /\ Sound(u) /\ Grows(t, u) /\ NewDirs(t, u) /\ r.node \in Live(u) \cup {Null}
      /\ x \in Words
  BY RamFsAssumption DEF Descents, GoodFor
<1> HIDE DEF x
<1>2. ASSUME NEW s, GoodFor(u, s), NewDirs(u, s.tree) PROVE s \in Descents(t)
  <2>1. Sound(s.tree) /\ Grows(u, s.tree) /\ s \in Outcome /\ s.node \in Live(s.tree) \cup {Null}
    BY <1>2 DEF GoodFor
  <2>2. Grows(t, s.tree) /\ NewDirs(t, s.tree)
    BY <1>1, <1>2, <2>1, GrowsOn
  <2>3. QED BY <2>1, <2>2 DEF Descents, GoodFor
<1>3. CASE r.node = Null
  BY <1>3 DEF Down
<1>4. CASE r.node # Null /\ FindChild(u, r.node, x) # Null
  <2>1. Down(r, w) = Result(u, FindChild(u, r.node, x))
    BY <1>4 DEF Down, x
  <2>2. FindChild(u, r.node, x) \in Live(u)
    <3>1. r.node \in Live(u)
      BY <1>1, <1>4
    <3>2. FindChild(u, r.node, x) \in Kids(u, r.node)
      BY <1>1, <1>4, <3>1, FindChildIs
    <3>3. QED BY <1>1, <3>1, <3>2, KidIs
  <2>3. /\ GoodFor(u, Result(u, FindChild(u, r.node, x)))
        /\ Result(u, FindChild(u, r.node, x)).tree = u
    BY <1>1, <2>2, GrowsNot, GoodResult
  <2>4. QED BY <1>2, <2>1, <2>3, GrowsNot
<1>5. CASE r.node # Null /\ FindChild(u, r.node, x) = Null
  <2>1. Down(r, w) = Create(u, r.node, x, "dir")
    BY <1>5 DEF Down, x
  <2>2. /\ GoodFor(u, Create(u, r.node, x, "dir"))
        /\ NewDirs(u, Create(u, r.node, x, "dir").tree)
    BY <1>1, CreateIs
  <2>3. QED BY <1>2, <2>1, <2>2
<1>6. QED BY <1>3, <1>4, <1>5

LEMMA MkdirPIs ==
    ASSUME NEW t, Sound(t), NEW path \in Seq(Words)
    PROVE  GoodFor(t, MkdirP(t, path)) /\ NewDirs(t, MkdirP(t, path).tree)
<1> DEFINE N == Len(path)
           A == 1..N
           D == Descents(t)
           d == Result(t, Root)
           F == [p \in D \X A |-> Down(p[1], path[p[2]])]
           Eq(f) == f = [s \in SUBSET A |->
                            IF s = {} THEN d ELSE Down(f[s \ {Greatest(s)}], path[Greatest(s)])]
           iter == CHOOSE f : Eq(f)
<1>1. N \in Nat /\ DOMAIN path = A /\ A = 1..N /\ \A i \in A : path[i] \in Words
  OBVIOUS
<1> HIDE DEF N, A
<1>2. ASSUME NEW x \in D, NEW i \in A PROVE Down(x, path[i]) \in D
  BY <1>1, DownIs
<1>3. F \in [D \X A -> D] /\ \A x \in D, i \in A : F[<<x, i>>] = Down(x, path[i])
  BY <1>2
<1>4. d \in D
  <2>1. Root \in Live(t)
    BY DEF Sound, RootIsDir
  <2>2. GoodFor(t, d) /\ d.tree = t
    BY <2>1, GrowsNot, GoodResult
  <2>3. QED BY <2>2, GrowsNot DEF Descents, GoodFor
<1> HIDE DEF F, D, d
<1>5. \A s \in SUBSET A : s # {} => Greatest(s) \in A
  BY <1>1, InitialSegments
<1>6. Eq(iter)
  <2>1. PICK f \in [SUBSET A -> D] : IsSeqFold(f, A, d, F)
    BY <1>1, <1>3, <1>4, SeqFoldsExist
  <2>2. ASSUME NEW s \in SUBSET A, s # {}
        PROVE  F[<<f[s \ {Greatest(s)}], Greatest(s)>>] = Down(f[s \ {Greatest(s)}], path[Greatest(s)])
    <3>1. f[s \ {Greatest(s)}] \in D
      OBVIOUS
    <3>2. QED BY <1>3, <1>5, <2>2, <3>1
  <2>3. Eq(f)
    BY <2>1, <2>2 DEF IsSeqFold
  <2>4. QED
    <3> HIDE DEF Eq
    <3>1. QED BY <2>3
<1>7. MkdirP(t, path) = iter[A]
  BY <1>1, Zenon DEF MkdirP, FoldLeft, MapThenFoldSet, Max, Greatest, d
<1> HIDE DEF iter
<1>8. iter[{}] = d
  BY <1>6
<1>9. ASSUME NEW s \in SUBSET A, s # {}, iter[s \ {Greatest(s)}] \in D
      PROVE  iter[s] = F[<<iter[s \ {Greatest(s)}], Greatest(s)>>]
  <2>1. iter[s] = Down(iter[s \ {Greatest(s)}], path[Greatest(s)])
    BY <1>6, <1>9
  <2>2. QED BY <1>3, <1>5, <1>9, <2>1
<1> HIDE DEF Eq
<1>10. iter[A] \in D
  <2>1. FoldsAs(iter, N, A, D, d, F)
    BY <1>1, <1>3, <1>4, <1>8, <1>9 DEF FoldsAs
  <2>2. QED BY <2>1, FoldReaches
<1>11. QED BY <1>7, <1>10 DEF D, Descents

-----------------------------------------------------------------------------
(* fs_write and fs_put.                                                      *)

LEMMA WriteIs ==
    ASSUME NEW t, Sound(t), NEW f \in Live(t), NEW x \in Texts
    PROVE  Sound(FsWrite(t, f, x)) /\ Grows(t, FsWrite(t, f, x))
<1>1. CASE t[f].type # "file" \/ (Size[x] >= t[f].cap /\ HeapFull(t))
  <2>1. FsWrite(t, f, x) = t
    BY <1>1 DEF FsWrite
  <2>2. QED BY <2>1, GrowsNot
<1>2. CASE ~(t[f].type # "file" \/ (Size[x] >= t[f].cap /\ HeapFull(t)))
  <2> DEFINE k == IF Size[x] >= t[f].cap THEN Size[x] + 1 ELSE t[f].cap
             s == Holding(t[f], x, k)
             u == [t EXCEPT ![f] = s]
  <2>1. FsWrite(t, f, x) = u
    BY <1>2 DEF FsWrite
  <2>2. /\ t \in Trees /\ f \in Slots /\ t[f] \in Node /\ t[f].cap \in Nat
        /\ Size[x] \in Nat
    BY LiveNode, RamFsAssumption DEF Sound
  <2>3. k \in Nat /\ Size[x] < k /\ k > 0
    BY <2>2
  <2>4. k # t[f].cap => ~HeapFull(t)
    BY <1>2
  <2> HIDE DEF k
  <2>5. /\ s \in Node /\ Same(t[f], s) /\ s.children = t[f].children
        /\ s.text = x /\ s.cap = k
    <3>1. x \in Texts \cup {NoText}
      OBVIOUS
    <3>2. QED BY <2>2, <2>3, <3>1, OtherText
  <2> HIDE DEF s
  <2>6. u \in Trees /\ u[f] = s /\ \A m \in Slots : m # f => u[m] = t[m]
    BY <2>2, <2>5 DEF Trees
  <2> HIDE DEF u
  <2>7. Live(u) = Live(t)
    <3>1. f \in Live(u)
      BY <2>2, <2>5, <2>6, NodeIsLive
    <3>2. QED BY <2>6, <3>1 DEF Live
  <2>8. \A m \in Live(t) : /\ Same(t[m], u[m]) /\ u[m].children = t[m].children
                           /\ Kids(u, m) = Kids(t, m)
                           /\ (m # f => u[m] = t[m])
    BY <2>5, <2>6 DEF Live, Same, Kids
  <2>9. RootIsDir(u)
    BY <2>7, <2>8 DEF Sound, RootIsDir, Same
  <2>10. Linked(u)
    BY <2>7, <2>8 DEF Sound, Linked, Same
  <2>11. Rooted(u)
    <3>1. \A S \in SUBSET Live(t) : Closed(u, S) => Closed(t, S)
      BY <2>8 DEF Closed
    <3>2. QED BY <2>7, <3>1 DEF Sound, Rooted
  <2>12. TextsFit(u)
    BY <2>3, <2>5, <2>6, <2>7, <2>8 DEF Sound, TextsFit
  <2>13. Fits(u)
    <3>1. /\ IsFiniteSet(Live(t)) /\ Cardinality(Live(t)) \in Nat /\ Blocks \in Nat
          /\ IsFiniteSet(Caps(t)) /\ Cardinality(Caps(t)) \in Nat
      BY CapsAre, SlotsAre
    <3>2. Caps(u) = Caps(t) \cup {f}
      BY <2>3, <2>5, <2>6, <2>7, <2>8 DEF Caps
    <3>3. CASE f \in Caps(t)
      <4>1. Caps(u) = Caps(t)
        BY <3>2, <3>3
      <4>2. QED BY <2>7, <4>1 DEF Sound, Fits
    <3>4. CASE f \notin Caps(t)
      <4>1. t[f].cap = 0
        BY <2>2, <3>4 DEF Caps
      <4>2. ~HeapFull(t)
        BY <2>3, <2>4, <4>1
      <4>3. Cardinality(Live(t)) + Cardinality(Caps(t)) # Blocks
        BY <4>2 DEF HeapFull, Caps
      <4>4. Cardinality(Caps(u)) = Cardinality(Caps(t)) + 1
        BY <3>1, <3>2, <3>4, FS_AddElement
      <4>5. QED BY <2>7, <3>1, <4>3, <4>4 DEF Sound, Fits
    <3>5. QED BY <3>3, <3>4
  <2>14. NamesApart(u)
    BY <2>7, <2>8 DEF Sound, NamesApart, Same
  <2>15. Grows(t, u)
    BY <2>7, <2>8 DEF Grows, Same
  <2>16. QED BY <2>1, <2>6, <2>9, <2>10, <2>11, <2>12, <2>13, <2>14, <2>15 DEF Sound
<1>3. QED BY <1>1, <1>2

\* A file that is made and then written.
LEMMA WrittenIs ==
    ASSUME NEW t, NEW r, GoodFor(t, r), r.node # Null, NEW x \in Texts
    PROVE  Sound(FsWrite(r.tree, r.node, x)) /\ Grows(t, FsWrite(r.tree, r.node, x))
<1>1. Sound(r.tree) /\ Grows(t, r.tree) /\ r.node \in Live(r.tree)
  BY DEF GoodFor
<1>2. Sound(FsWrite(r.tree, r.node, x)) /\ Grows(r.tree, FsWrite(r.tree, r.node, x))
  BY <1>1, WriteIs
<1>3. QED BY <1>1, <1>2, GrowsOn

LEMMA PutIs ==
    ASSUME NEW t, Sound(t), NEW path \in Seq(Words) \ {<<>>}, NEW x \in Texts
    PROVE  Sound(FsPut(t, path, x).tree) /\ Grows(t, FsPut(t, path, x).tree)
<1> DEFINE dir == MkdirP(t, Front(path))
           file == Create(dir.tree, dir.node, Last(path), "file")
<1>1. Front(path) \in Seq(Words) /\ Last(path) \in Words
  <2>1. path \in Seq(Words) /\ Len(path) \in Nat /\ Len(path) # 0
    OBVIOUS
  <2>2. Last(path) \in Words
    BY <2>1 DEF Last
  <2>3. Front(path) \in Seq(Words)
    BY <2>1 DEF Front
  <2>4. QED BY <2>2, <2>3
<1>2. GoodFor(t, dir)
  BY <1>1, MkdirPIs
<1> HIDE DEF dir
<1>3. GoodFor(dir.tree, file)
  BY <1>1, <1>2, CreateIs DEF GoodFor
<1> HIDE DEF file
<1>4. GoodFor(t, file)
  <2>1. Grows(t, file.tree)
    BY <1>2, <1>3, GrowsOn DEF GoodFor
  <2>2. QED BY <1>3, <2>1 DEF GoodFor
<1>5. CASE file.node = Null
  <2>1. FsPut(t, path, x) = file
    BY <1>5 DEF FsPut, dir, file
  <2>2. QED BY <1>4, <2>1 DEF GoodFor
<1>6. CASE file.node # Null
  <2> DEFINE u == FsWrite(file.tree, file.node, x)
  <2>1. FsPut(t, path, x) = Result(u, file.node)
    BY <1>6 DEF FsPut, dir, file
  <2>2. FsPut(t, path, x).tree = u
    <3> HIDE DEF u
    <3>1. QED BY <2>1 DEF Result
  <2>3. QED BY <1>4, <1>6, <2>2, WrittenIs
<1>7. QED BY <1>5, <1>6

-----------------------------------------------------------------------------
(* fs_remove.                                                                *)

\* What is left when the nodes of G, which are those below n, are freed.
Pruned(t, u, n, G) ==
    /\ Sound(t) /\ n \in Live(t) /\ n # Root /\ Below(t, n, G)
    /\ u \in Trees /\ Live(u) = Live(t) \ G
    /\ \A m \in Live(u) : /\ Same(t[m], u[m]) /\ u[m].text = t[m].text /\ u[m].cap = t[m].cap
                          /\ Once(u[m].children) /\ Kids(u, m) = Kids(t, m) \ G

\* A node without children, and what is left without it.
Leaf(t, m) == Sound(t) /\ m \in Live(t) /\ m # Root /\ Kids(t, m) = {}

LEMMA UnlinkedIs ==
    ASSUME NEW t, NEW n, Leaf(t, n), NEW u, u = Unlinked(t, n)
    PROVE  /\ Pruned(t, u, n, {n})
           /\ u[t[n].parent].children = RemoveFirst(t[t[n].parent].children, n)
           /\ \A x \in Slots \ {n, t[n].parent} : u[x] = t[x]
<1> DEFINE p == t[n].parent
           c == RemoveFirst(t[p].children, n)
           s == [t[p] EXCEPT !.children = c]
<1>1. t \in Trees /\ n \in Live(t) /\ Sound(t) /\ n # Root /\ Kids(t, n) = {}
  BY DEF Leaf, Sound
<1>2. Below(t, n, {n})
  BY <1>1 DEF Below, Closed
<1>3. p \in Live(t) /\ p # n
  BY <1>1, <1>2, Hung, BelowIs
<1>4. p \in Slots /\ t[p] \in Node /\ t[p].children \in Seq(Slots) /\ Once(t[p].children)
  BY <1>1, <1>3, LiveNode DEF Sound, Linked
<1>5. c \in Seq(Slots) /\ Once(c) /\ ToSet(c) = ToSet(t[p].children) \ {n}
  BY <1>4, ChildOut
<1>6. u = [m \in Slots |-> IF m = n THEN Free ELSE IF m = p THEN s ELSE t[m]]
  BY DEF Unlinked
<1> HIDE DEF c, p
<1>7. /\ s \in Node /\ Same(t[p], s) /\ s.children = c
      /\ s.text = t[p].text /\ s.cap = t[p].cap
  BY <1>4, <1>5, OtherChildren
<1> HIDE DEF s
<1>8. u \in Trees
  BY <1>1, <1>6, <1>7 DEF Trees
<1>9. /\ u[n] = Free /\ u[p] = s
      /\ \A m \in Slots : m # n /\ m # p => u[m] = t[m]
  BY <1>1, <1>3, <1>4, <1>6 DEF Live
<1>10. Live(u) = Live(t) \ {n}
  <2>1. p \in Live(u)
    BY <1>4, <1>7, <1>9, NodeIsLive
  <2>2. QED BY <1>3, <1>9, <2>1 DEF Live
<1>11. ASSUME NEW m \in Live(u)
       PROVE  /\ Same(t[m], u[m]) /\ u[m].text = t[m].text /\ u[m].cap = t[m].cap
              /\ Once(u[m].children) /\ Kids(u, m) = Kids(t, m) \ {n}
  <2>1. m \in Slots /\ m \in Live(t) /\ m # n
    BY <1>10 DEF Live
  <2>2. CASE m = p
    <3>1. Kids(u, m) = Kids(t, m) \ {n}
      BY <1>5, <1>7, <1>9, <2>2 DEF Kids
    <3>2. QED BY <1>5, <1>7, <1>9, <2>2, <3>1
  <2>3. CASE m # p
    <3>1. u[m] = t[m]
      BY <1>9, <2>1, <2>3
    <3>2. n \notin Kids(t, m)
      BY <1>1, <2>1, <2>3, KidIs DEF p
    <3>3. Kids(u, m) = Kids(t, m) \ {n}
      BY <3>1, <3>2 DEF Kids
    <3>4. Once(t[m].children)
      BY <1>1, <2>1 DEF Sound, Linked
    <3>5. QED BY <3>1, <3>3, <3>4 DEF Same
  <2>4. QED BY <2>2, <2>3
<1>12. Pruned(t, u, n, {n})
  BY <1>1, <1>2, <1>8, <1>10, <1>11 DEF Pruned
<1>13. u[p].children = c
  BY <1>7, <1>9
<1>14. QED BY <1>9, <1>12, <1>13 DEF p, c

LEMMA PrunedIsSound ==
    ASSUME NEW t, NEW u, NEW n, NEW G, Pruned(t, u, n, G)
    PROVE  Sound(u) /\ Shrinks(t, u)
<1>1. /\ u \in Trees /\ Live(u) = Live(t) \ G
      /\ \A m \in Live(u) : /\ Same(t[m], u[m]) /\ u[m].text = t[m].text /\ u[m].cap = t[m].cap
                            /\ Once(u[m].children) /\ Kids(u, m) = Kids(t, m) \ G
  BY DEF Pruned
<1>2. /\ Sound(t) /\ n \in Live(t) /\ n # Root /\ Below(t, n, G)
      /\ G \subseteq Live(t) /\ n \in G /\ Closed(t, G)
  BY DEF Pruned, Below
<1>3. Root \notin G
  BY <1>2, BelowIs
<1>4. RootIsDir(u)
  BY <1>1, <1>2, <1>3 DEF Sound, RootIsDir, Same
<1>5. Linked(u)
  <2>1. ASSUME NEW m \in Live(u), NEW k \in Kids(u, m)
        PROVE  k \in Live(u) /\ u[k].parent = m /\ u[m].type = "dir"
    <3>1. m \in Live(t) /\ k \in Kids(t, m) /\ k \notin G
      BY <1>1, <2>1
    <3>2. k \in Live(t) /\ t[k].parent = m /\ t[m].type = "dir"
      BY <1>2, <3>1, KidIs
    <3>3. QED BY <1>1, <3>1, <3>2 DEF Same
  <2>2. QED BY <1>1, <2>1 DEF Linked
<1>6. Rooted(u)
  <2>1. ASSUME NEW S \in SUBSET Live(u), Root \in S, Closed(u, S) PROVE S = Live(u)
    <3> DEFINE R == S \cup G
    <3>1. R \in SUBSET Live(t) /\ Root \in R
      BY <1>1, <1>2, <2>1
    <3>2. ASSUME NEW m \in R, NEW k \in Kids(t, m) PROVE k \in R
      <4>1. CASE m \in G
        BY <1>2, <3>2, <4>1 DEF Closed
      <4>2. CASE m \in S
        <5>1. k \notin G => k \in Kids(u, m)
          BY <1>1, <2>1, <3>2, <4>2
        <5>2. QED BY <2>1, <4>2, <5>1 DEF Closed
      <4>3. QED BY <4>1, <4>2
    <3>3. Closed(t, R)
      <4> HIDE DEF R
      <4>1. QED BY <3>2 DEF Closed
    <3>4. R = Live(t)
      <4> HIDE DEF R
      <4>1. QED BY <1>2, <3>1, <3>3 DEF Sound, Rooted
    <3>5. QED BY <1>1, <2>1, <3>4
  <2>2. QED BY <2>1 DEF Rooted
<1>7. TextsFit(u)
  BY <1>1, <1>2 DEF Sound, TextsFit
<1>8. Fits(u)
  <2>1. Live(u) \in SUBSET Live(t)
    BY <1>1
  <2>2. Caps(u) \in SUBSET Caps(t)
    BY <1>1 DEF Caps
  <2>3. /\ Cardinality(Live(u)) \in Nat /\ Cardinality(Caps(u)) \in Nat
        /\ Cardinality(Live(t)) \in Nat /\ Cardinality(Caps(t)) \in Nat
        /\ IsFiniteSet(Live(t)) /\ IsFiniteSet(Caps(t))
    BY CapsAre
  <2>4. /\ Cardinality(Live(u)) <= Cardinality(Live(t))
        /\ Cardinality(Caps(u)) <= Cardinality(Caps(t))
    BY <2>1, <2>2, <2>3, FS_Subset
  <2>5. Cardinality(Live(t)) + Cardinality(Caps(t)) <= Blocks
    BY <1>2 DEF Sound, Fits
  <2>6. QED BY <2>3, <2>4, <2>5, SlotsAre DEF Fits
<1>9. NamesApart(u)
  BY <1>1, <1>2 DEF Sound, NamesApart, Same
<1>10. Shrinks(t, u)
  BY <1>1 DEF Shrinks, Same
<1>11. QED BY <1>1, <1>4, <1>5, <1>6, <1>7, <1>8, <1>9, <1>10 DEF Sound

\* The head of a list of children, and the one behind it.
LEMMA FirstIs ==
    ASSUME NEW t, NEW d, t[d].children \in Seq(Slots)
    PROVE  /\ FirstOf(t, d) = Null => Kids(t, d) = {}
           /\ FirstOf(t, d) # Null => FirstOf(t, d) \in Kids(t, d)
           /\ FirstOf(t, d) \in Slots \cup {Null}
           /\ \A c : NextOf(t, d, c) \in Slots \cup {Null}
<1> DEFINE kids == t[d].children
<1>1. Len(kids) \in Nat /\ \A i \in 1..Len(kids) : kids[i] \in Slots
  OBVIOUS
<1>2. kids = <<>> => FirstOf(t, d) = Null /\ Kids(t, d) = {}
  BY DEF FirstOf, Kids, ToSet
<1>3. ASSUME kids # <<>> PROVE FirstOf(t, d) = kids[1] /\ kids[1] \in Kids(t, d) /\ kids[1] \in Slots
  <2>1. FirstOf(t, d) = kids[1] /\ 1 \in 1..Len(kids)
    BY <1>1, <1>3 DEF FirstOf
  <2>2. kids[1] \in Kids(t, d)
    BY <2>1, MembersIs DEF Kids
  <2>3. QED BY <1>1, <2>1, <2>2
<1>4. ASSUME NEW c PROVE NextOf(t, d, c) \in Slots \cup {Null}
  <2> DEFINE i == SelectInSeq(kids, LAMBDA k : k = c)
  <2>1. NextOf(t, d, c) = IF i \in 1..(Len(kids) - 1) THEN kids[i + 1] ELSE Null
    BY Zenon DEF NextOf
  <2> HIDE DEF i
  <2>2. CASE i \in 1..(Len(kids) - 1)
    <3>1. i + 1 \in 1..Len(kids)
      BY <1>1, <2>2
    <3>2. QED BY <1>1, <2>1, <2>2, <3>1
  <2>3. QED BY <2>1, <2>2
<1>5. QED BY <1>2, <1>3, <1>4, SlotsAre

\* When the first is taken out, the one behind it is the first.
LEMMA SecondIsFirst ==
    ASSUME NEW c \in Seq(Slots), Once(c), c # <<>>, NEW x, x = c[1]
    PROVE  /\ SelectInSeq(c, LAMBDA v : v = x) = 1
           /\ Len(c) = 1 => RemoveFirst(c, x) = <<>>
           /\ Len(c) > 1 => RemoveFirst(c, x) # <<>> /\ Head(RemoveFirst(c, x)) = c[2]
<1> DEFINE I == {i \in 1..Len(c) : c[i] = x}
           k == SelectInSeq(c, LAMBDA v : v = x)
<1>1. Len(c) \in Nat /\ 1 \in 1..Len(c)
  OBVIOUS
<1>2. \A i \in I : i = 1
  BY <1>1 DEF Once
<1>3. 1 \in I /\ I \in SUBSET (1..Len(c))
  BY <1>1
<1>4. k = Min(I)
  BY <1>3 DEF SelectInSeq
<1>5. k = 1
  <2> HIDE DEF I, k
  <2>1. I # {}
    BY <1>3
  <2>2. Min(I) \in I
    BY <1>1, <1>3, <2>1, MinIs
  <2>3. QED BY <1>2, <1>4, <2>2
<1>6. RemoveFirst(c, x) = RemoveAt(c, k)
  BY <1>3 DEF RemoveFirst
<1> HIDE DEF k
<1>7. RemoveFirst(c, x) = SubSeq(c, 1, 0) \o SubSeq(c, 2, Len(c))
  BY <1>5, <1>6 DEF RemoveAt
<1>8. Len(c) = 1 => RemoveFirst(c, x) = <<>>
  BY <1>1, <1>7
<1>9. ASSUME Len(c) > 1 PROVE RemoveFirst(c, x) # <<>> /\ Head(RemoveFirst(c, x)) = c[2]
  <2> DEFINE b == SubSeq(c, 2, Len(c))
  <2>1. b \in Seq(Slots) /\ Len(b) = Len(c) - 1 /\ b[1] = c[2]
    BY <1>1, <1>9
  <2>2. SubSeq(c, 1, 0) = <<>>
    BY <1>1
  <2> HIDE DEF b
  <2>3. <<>> \o b = b
    BY <2>1
  <2>4. RemoveFirst(c, x) = b
    BY <1>7, <2>2, <2>3 DEF b
  <2>5. QED BY <1>1, <1>9, <2>1, <2>4
<1>10. QED BY <1>5, <1>8, <1>9 DEF k

LEMMA NextIsFirst ==
    ASSUME NEW t, NEW u, NEW d, NEW c, t[d].children \in Seq(Slots), Once(t[d].children),
           c = FirstOf(t, d), c # Null, u[d].children = RemoveFirst(t[d].children, c)
    PROVE  FirstOf(u, d) = NextOf(t, d, c)
<1> DEFINE kids == t[d].children
           i == SelectInSeq(kids, LAMBDA v : v = c)
<1>1. kids # <<>> /\ c = kids[1] /\ Len(kids) \in Nat /\ Len(kids) # 0
  BY DEF FirstOf
<1>2. NextOf(t, d, c) = IF i \in 1..(Len(kids) - 1) THEN kids[i + 1] ELSE Null
  BY Zenon DEF NextOf
<1>3. i = 1
  BY <1>1, SecondIsFirst
<1> HIDE DEF i
<1>4. CASE Len(kids) = 1
  <2>1. u[d].children = <<>>
    BY <1>1, <1>4, SecondIsFirst
  <2>2. QED BY <1>2, <1>3, <1>4, <2>1 DEF FirstOf
<1>5. CASE Len(kids) > 1
  <2>1. u[d].children # <<>> /\ Head(u[d].children) = kids[2]
    BY <1>1, <1>5, SecondIsFirst
  <2>2. 1 \in 1..(Len(kids) - 1)
    BY <1>1, <1>5
  <2>3. NextOf(t, d, c) = kids[2]
    BY <1>2, <1>3, <2>2
  <2>4. FirstOf(u, d) = Head(u[d].children)
    BY <2>1, Zenon DEF FirstOf
  <2>5. QED BY <2>1, <2>3, <2>4, Zenon
<1>6. Len(kids) = 1 \/ Len(kids) > 1
  <2>1. \A k \in Nat : k # 0 => k = 1 \/ k > 1
    OBVIOUS
  <2>2. QED BY <1>1, <2>1, Zenon
<1>7. QED BY <1>4, <1>5, <1>6, Zenon

\* A stack, with its top replaced and another pushed, or popped.
LEMMA Pushed ==
    ASSUME NEW S, NEW s \in Seq(S), s # <<>>, NEW a \in S, NEW b \in S,
           NEW z, z = Append([s EXCEPT ![Len(s)] = a], b)
    PROVE  /\ z \in Seq(S) /\ Len(z) = Len(s) + 1 /\ \A i \in 1..(Len(s) - 1) : z[i] = s[i]
           /\ z[Len(s)] = a /\ z[Len(s) + 1] = b
<1> DEFINE y == [s EXCEPT ![Len(s)] = a]
<1>1. Len(s) \in Nat /\ Len(s) >= 1
  OBVIOUS
<1>2. /\ y \in Seq(S) /\ Len(y) = Len(s) /\ y[Len(s)] = a
      /\ \A i \in 1..(Len(s) - 1) : y[i] = s[i]
  BY <1>1, ExceptSeq
<1> HIDE DEF y
<1>3. z = Append(y, b)
  BY DEF y
<1>4. z \in Seq(S) /\ Len(z) = Len(y) + 1 /\ z[Len(y) + 1] = b
  BY <1>2, <1>3
<1>5. \A i \in 1..Len(y) : z[i] = y[i]
  BY <1>2, <1>3
<1>6. QED BY <1>1, <1>2, <1>4, <1>5

LEMMA Popped ==
    ASSUME NEW S, NEW s \in Seq(S), s # <<>>
    PROVE  /\ Len(s) \in Nat \ {0} /\ Last(s) = s[Len(s)] /\ Last(s) \in S
           /\ Front(s) \in Seq(S) /\ Len(Front(s)) = Len(s) - 1
           /\ \A i \in 1..(Len(s) - 1) : Front(s)[i] = s[i]
<1> DEFINE L == Len(s)
           f == SubSeq(s, 1, L - 1)
<1>1. L \in Nat \ {0} /\ s[L] \in S /\ \A i \in 1..L : s[i] \in S
  OBVIOUS
<1>2. Front(s) = f /\ Last(s) = s[L]
  BY DEF Front, Last
<1> HIDE DEF L
<1>3. 1 \in Int /\ L - 1 \in Int /\ (L - 1) - 1 + 1 = L - 1 /\ \A i \in 1..(L - 1) : s[i] \in S
  BY <1>1
<1>4. /\ f \in Seq(S) /\ Len(f) = (IF 1 <= L - 1 THEN L - 1 - 1 + 1 ELSE 0)
      /\ \A i \in 1..(L - 1 - 1 + 1) : f[i] = s[1 + i - 1]
  BY <1>3, SubSeqProperties
<1> HIDE DEF f
<1>5. Len(f) = L - 1
  BY <1>1, <1>4
<1>6. ASSUME NEW i \in 1..(L - 1) PROVE f[i] = s[i]
  <2>1. 1 + i - 1 = i
    OBVIOUS
  <2>2. QED BY <1>3, <1>4, <2>1
<1>7. QED BY <1>1, <1>2, <1>4, <1>5, <1>6 DEF L

\* The calls that have not returned, from the outermost, and what they have
\* left of the tree.
Frames == [node : Slots, child : Slots \cup {Null}]
Calls == Seq(Frames)

Within(u, G, s) ==
    \A i \in 1..Len(s) : /\ s[i].node \in Live(u) \cap G
                         /\ \A j \in 1..Len(s) : s[i].node = s[j].node => i = j

\* Each call works at the first of the children its caller has left.
Chained(u, s) ==
    /\ \A i \in 1..(Len(s) - 1) : /\ s[i + 1].node = FirstOf(u, s[i].node)
                                  /\ s[i].child = NextOf(u, s[i].node, s[i + 1].node)
    /\ s # <<>> => s[Len(s)].child = FirstOf(u, s[Len(s)].node)

Thinned(t, u, G) ==
    /\ Sound(u) /\ Live(u) \subseteq Live(t) /\ Live(t) \ Live(u) \subseteq G
    /\ \A m \in Live(u) : /\ Same(t[m], u[m]) /\ u[m].text = t[m].text /\ u[m].cap = t[m].cap
                          /\ Kids(u, m) = Kids(t, m) \cap Live(u)

Midway(t, n, G, r) ==
    /\ Sound(t) /\ n \in Live(t) /\ n # Root /\ Below(t, n, G)
    /\ r \in [tree : Trees, calls : Calls]
    /\ Thinned(t, r.tree, G)
    /\ Within(r.tree, G, r.calls) /\ Chained(r.tree, r.calls)
    /\ r.calls = <<>> => n \notin Live(r.tree)
    /\ r.calls # <<>> => r.calls[1].node = n

\* What a call's node is: the subtree is closed, and the list of its children
\* says where the loop stands.
LEMMA MidwayIs ==
    ASSUME NEW t, NEW n, NEW G, NEW r, Midway(t, n, G, r), r.calls # <<>>,
           NEW top, top = Last(r.calls)
    PROVE  /\ Len(r.calls) \in Nat \ {0} /\ top = r.calls[Len(r.calls)]
           /\ top.node \in Live(r.tree) /\ top.node \in G /\ top.node # Root
           /\ r.tree[top.node].children \in Seq(Slots)
           /\ top.child = FirstOf(r.tree, top.node)
           /\ top.child = Null => Leaf(r.tree, top.node)
           /\ top.child # Null => /\ top.child \in Kids(r.tree, top.node)
                                  /\ top.child \in Live(r.tree) /\ top.child \in G
                                  /\ r.tree[top.child].parent = top.node
<1> DEFINE u == r.tree
           s == r.calls
           m == top.node
<1>1. /\ Sound(t) /\ n \in Live(t) /\ n # Root /\ Below(t, n, G) /\ s \in Calls
      /\ Thinned(t, u, G) /\ Within(u, G, s) /\ Chained(u, s)
  BY DEF Midway
<1>2. Len(s) \in Nat \ {0} /\ top = s[Len(s)] /\ Len(s) \in 1..Len(s)
  BY <1>1 DEF Calls, Last
<1>3. m \in Live(u) /\ m \in G /\ Sound(u)
  BY <1>1, <1>2 DEF Within, Thinned
<1>4. m # Root
  BY <1>1, <1>3, BelowIs
<1>5. u[m].children \in Seq(Slots)
  BY <1>3, LiveNode DEF Sound
<1>6. top.child = FirstOf(u, m)
  BY <1>1, <1>2 DEF Chained
<1>7. top.child = Null => Leaf(u, m)
  <2>1. top.child = Null => Kids(u, m) = {}
    BY <1>5, <1>6, FirstIs
  <2>2. QED BY <1>3, <1>4, <2>1 DEF Leaf
<1>8. ASSUME top.child # Null
      PROVE  /\ top.child \in Kids(u, m) /\ top.child \in Live(u)
             /\ u[top.child].parent = m /\ top.child \in G
  <2>1. top.child \in Kids(u, m)
    BY <1>5, <1>6, <1>8, FirstIs
  <2>2. top.child \in Live(u) /\ u[top.child].parent = m
    BY <1>3, <2>1, KidIs
  <2>3. Kids(u, m) \subseteq Kids(t, m)
    BY <1>1, <1>3 DEF Thinned
  <2>4. Kids(t, m) \subseteq G
    BY <1>1, <1>3 DEF Below, Closed
  <2>5. QED BY <2>1, <2>2, <2>3, <2>4
<1>9. QED BY <1>2, <1>3, <1>4, <1>5, <1>6, <1>7, <1>8

\* Once round the loop: a call more, for a child that no call is at.
LEMMA CallIs ==
    ASSUME NEW t, NEW n, NEW G, NEW r, Midway(t, n, G, r), r.calls # <<>>,
           Last(r.calls).child # Null
    PROVE  /\ Midway(t, n, G, RemoveStep(r))
           /\ Live(RemoveStep(r).tree) = Live(r.tree)
           /\ Len(RemoveStep(r).calls) = Len(r.calls) + 1
<1> DEFINE u == r.tree
           s == r.calls
           L == Len(s)
           top == Last(s)
           m == top.node
           c == top.child
           on == [top EXCEPT !.child = NextOf(u, m, c)]
           y == [s EXCEPT ![L].child = NextOf(u, m, c)]
           z == Append(y, Call(u, c))
           v == [u EXCEPT ![c].parent = m]
<1>1. /\ Sound(t) /\ n \in Live(t) /\ n # Root /\ Below(t, n, G) /\ s \in Calls
      /\ Thinned(t, u, G) /\ Within(u, G, s) /\ Chained(u, s) /\ s # <<>> /\ c # Null
      /\ s[1].node = n /\ u \in Trees /\ r \in [tree : Trees, calls : Calls]
  BY DEF Midway
<1>2. /\ L \in Nat \ {0} /\ top = s[L]
      /\ m \in Live(u) /\ m \in G /\ u[m].children \in Seq(Slots)
      /\ c = FirstOf(u, m) /\ c \in Kids(u, m) /\ c \in Live(u) /\ c \in G
      /\ u[c].parent = m
  BY <1>1, MidwayIs
<1>3. v = u
  <2>1. c \in Slots /\ u[c] \in Node
    BY <1>1, <1>2, LiveNode
  <2>2. [u[c] EXCEPT !.parent = m] = u[c]
    BY <1>2, <2>1 DEF Node
  <2>3. v = [u EXCEPT ![c] = [u[c] EXCEPT !.parent = m]]
    OBVIOUS
  <2> HIDE DEF v, c, m
  <2>4. QED BY <1>1, <2>1, <2>2, <2>3 DEF Trees
<1>4. RemoveStep(r) = [tree |-> v, calls |-> z]
  BY <1>1, Zenon DEF RemoveStep
<1>5. /\ on = [node |-> m, child |-> NextOf(u, m, c)] /\ m \in Slots
      /\ NextOf(u, m, c) \in Slots \cup {Null} /\ c \in Slots
      /\ FirstOf(u, c) \in Slots \cup {Null}
  <2>1. top \in Frames
    BY <1>1, Popped DEF Calls
  <2>2. u[c].children \in Seq(Slots) /\ c \in Slots
    BY <1>1, <1>2, LiveNode
  <2>3. NextOf(u, m, c) \in Slots \cup {Null} /\ FirstOf(u, c) \in Slots \cup {Null}
    BY <1>2, <2>2, FirstIs
  <2> HIDE DEF top
  <2>4. QED BY <2>1, <2>2, <2>3 DEF Frames
<1> DEFINE a == NextOf(u, m, c)
           b == FirstOf(u, c)
<1>6. /\ z \in Calls /\ Len(z) = L + 1
      /\ \A i \in 1..(L - 1) : z[i] = s[i]
      /\ z[L] = [node |-> m, child |-> a] /\ z[L + 1] = [node |-> c, child |-> b]
  <2> DEFINE d == [node |-> m, child |-> a]
             e == [node |-> c, child |-> b]
  <2>1. z = Append([s EXCEPT ![Len(s)] = d], e)
    <3>1. y = [s EXCEPT ![L] = on]
      BY <1>2
    <3>2. on = d /\ Call(u, c) = e
      BY <1>5 DEF Call
    <3> HIDE DEF y, on, d, e
    <3>3. QED BY <3>1, <3>2
  <2>2. d \in Frames /\ e \in Frames
    BY <1>5 DEF Frames
  <2>3. s \in Seq(Frames) /\ s # <<>>
    BY <1>1 DEF Calls
  <2> HIDE DEF d, e, s, y, z, L
  <2>4. /\ z \in Seq(Frames) /\ Len(z) = Len(s) + 1 /\ \A i \in 1..(Len(s) - 1) : z[i] = s[i]
        /\ z[Len(s)] = d /\ z[Len(s) + 1] = e
    BY <2>1, <2>2, <2>3, Pushed
  <2>5. QED BY <2>4 DEF Calls, L, d, e
<1> HIDE DEF y, z
<1>7. /\ s[L].node = m /\ z[L].node = m /\ z[L].child = a
      /\ z[L + 1].node = c /\ z[L + 1].child = b
  BY <1>2, <1>6
<1>8. \A i \in 1..L : z[i].node = s[i].node
  BY <1>2, <1>6, <1>7
<1>9. ASSUME NEW i \in 1..L PROVE s[i].node # c
  <2>1. CASE i = 1
    <3>1. t[n].parent \notin G
      BY <1>1, BelowIs
    <3>2. n \in Live(u) => u[n].parent = t[n].parent
      BY <1>1 DEF Thinned, Same
    <3>3. n # c
      BY <1>2, <3>1, <3>2
    <3>4. QED BY <1>1, <2>1, <3>3
  <2>2. CASE i # 1
    <3> DEFINE j == i - 1
    <3>1. j \in 1..(L - 1) /\ j + 1 = i /\ j \in 1..L /\ L \in 1..L
      BY <1>2, <2>2
    <3> HIDE DEF j
    <3>2. s[i].node = FirstOf(u, s[j].node) /\ s[j].node \in Live(u) /\ s[i].node \in Live(u)
      BY <1>1, <3>1 DEF Chained, Within
    <3>3. u[s[j].node].children \in Seq(Slots) /\ s[i].node # Null
      BY <1>1, <3>2, LiveNode
    <3>4. s[i].node \in Kids(u, s[j].node)
      BY <3>2, <3>3, FirstIs
    <3>5. u[s[i].node].parent = s[j].node
      BY <1>1, <3>2, <3>4, KidIs DEF Thinned
    <3>6. s[j].node # s[L].node
      BY <1>1, <1>2, <3>1 DEF Within
    <3>7. QED BY <1>2, <1>7, <3>5, <3>6
  <2>3. QED BY <2>1, <2>2
<1> HIDE DEF u, s, L, top, m, c, on, z, v, a, b
<1>10. Within(u, G, z)
  <2>1. \A i \in 1..L : s[i].node \in Live(u) \cap G
    BY <1>1 DEF Within, L
  <2>2. \A i, j \in 1..L : s[i].node = s[j].node => i = j
    BY <1>1 DEF Within, L
  <2>3. ASSUME NEW i \in 1..(L + 1)
        PROVE  z[i].node \in Live(u) \cap G /\ \A j \in 1..(L + 1) : z[i].node = z[j].node => i = j
    <3>1. CASE i = L + 1
      <4>1. \A j \in 1..(L + 1) : j # L + 1 => j \in 1..L
        BY <1>2
      <4>2. QED BY <1>2, <1>7, <1>8, <1>9, <3>1, <4>1
    <3>2. CASE i # L + 1
      <4>1. i \in 1..L /\ \A j \in 1..(L + 1) : j # L + 1 => j \in 1..L
        BY <1>2, <3>2
      <4>2. QED BY <1>7, <1>8, <1>9, <2>1, <2>2, <4>1
    <3>3. QED BY <3>1, <3>2
  <2>4. QED BY <1>6, <2>3 DEF Within
<1>11. Chained(u, z)
  <2>1. ASSUME NEW i \in 1..L
        PROVE  /\ z[i + 1].node = FirstOf(u, z[i].node)
               /\ z[i].child = NextOf(u, z[i].node, z[i + 1].node)
    <3>1. CASE i = L
      BY <1>2, <1>7, <3>1 DEF a
    <3>2. CASE i # L
      <4>1. i \in 1..(L - 1) /\ i + 1 \in 1..L
        BY <1>2, <3>2
      <4>2. s[i + 1].node = FirstOf(u, s[i].node) /\ s[i].child = NextOf(u, s[i].node, s[i + 1].node)
        BY <1>1, <4>1 DEF Chained, L
      <4>3. z[i].child = s[i].child
        BY <1>6, <4>1
      <4>4. QED BY <1>8, <4>1, <4>2, <4>3
    <3>3. QED BY <3>1, <3>2
  <2>2. z[Len(z)].child = FirstOf(u, z[Len(z)].node)
    BY <1>6, <1>7 DEF b
  <2>3. Len(z) - 1 = L
    BY <1>2, <1>6
  <2>4. QED BY <2>1, <2>2, <2>3 DEF Chained
<1>12. z # <<>> /\ z[1].node = n
  <2>1. Len(z) # 0
    BY <1>2, <1>6
  <2>2. 1 \in 1..L
    BY <1>2
  <2>3. QED BY <1>1, <1>8, <2>1, <2>2
<1>13. RemoveStep(r).tree = u /\ RemoveStep(r).calls = z
       /\ RemoveStep(r) \in [tree : Trees, calls : Calls]
  BY <1>1, <1>3, <1>4, <1>6
<1>14. Midway(t, n, G, RemoveStep(r))
  BY <1>1, <1>10, <1>11, <1>12, <1>13 DEF Midway
<1>15. QED BY <1>6, <1>13, <1>14 DEF u, s, L

FreesOne(u, v, G) == \E m \in Live(u) \cap G : Live(v) = Live(u) \ {m}

\* A return: the call's node is freed, and its caller goes on with the next
\* child, which is now its first.
LEMMA ReturnIs ==
    ASSUME NEW t, NEW n, NEW G, NEW r, Midway(t, n, G, r), r.calls # <<>>,
           Last(r.calls).child = Null
    PROVE  /\ Midway(t, n, G, RemoveStep(r))
           /\ FreesOne(r.tree, RemoveStep(r).tree, G)
           /\ Len(RemoveStep(r).calls) = Len(r.calls) - 1
<1> DEFINE u == r.tree
           s == r.calls
           L == Len(s)
           top == Last(s)
           m == top.node
           z == Front(s)
           v == Unlinked(u, m)
           p == u[m].parent
<1>1. /\ Sound(t) /\ n \in Live(t) /\ n # Root /\ Below(t, n, G) /\ s \in Calls
      /\ Thinned(t, u, G) /\ Within(u, G, s) /\ Chained(u, s) /\ s # <<>>
      /\ s[1].node = n /\ Sound(u)
  BY DEF Midway, Thinned
<1>2. L \in Nat \ {0} /\ top = s[L] /\ m \in Live(u) /\ m \in G /\ Leaf(u, m)
  BY <1>1, MidwayIs
<1>3. RemoveStep(r) = [tree |-> v, calls |-> z]
  BY <1>1, Zenon DEF RemoveStep
<1>4. /\ z \in Calls /\ Len(z) = L - 1 /\ \A i \in 1..(L - 1) : z[i] = s[i]
  BY <1>1, Popped DEF Calls
<1>5. /\ Pruned(u, v, m, {m}) /\ v[p].children = RemoveFirst(u[p].children, m)
      /\ \A x \in Slots \ {m, p} : v[x] = u[x]
  <2>1. v = Unlinked(u, m)
    OBVIOUS
  <2> HIDE DEF u, m, v, L, top
  <2>2. /\ Pruned(u, v, m, {m})
        /\ v[u[m].parent].children = RemoveFirst(u[u[m].parent].children, m)
        /\ \A x \in Slots \ {m, u[m].parent} : v[x] = u[x]
    BY <1>2, <2>1, UnlinkedIs
  <2>3. QED BY <2>2
<1>6. Sound(v)
  BY <1>5, PrunedIsSound
<1>7. /\ v \in Trees /\ Live(v) = Live(u) \ {m}
      /\ \A x \in Live(v) : /\ Same(u[x], v[x]) /\ v[x].text = u[x].text /\ v[x].cap = u[x].cap
                            /\ Kids(v, x) = Kids(u, x) \ {m}
  BY <1>5 DEF Pruned
<1>8. s[L].node = m
  BY <1>2
<1> HIDE DEF u, s, L, top, m, z, v, p
<1>9. Thinned(t, v, G)
  <2>1. Live(v) \subseteq Live(t) /\ Live(t) \ Live(v) \subseteq G
    BY <1>1, <1>2, <1>7 DEF Thinned
  <2>2. ASSUME NEW x \in Live(v)
        PROVE  /\ Same(t[x], v[x]) /\ v[x].text = t[x].text /\ v[x].cap = t[x].cap
               /\ Kids(v, x) = Kids(t, x) \cap Live(v)
    <3>1. /\ Same(t[x], u[x]) /\ u[x].text = t[x].text /\ u[x].cap = t[x].cap
          /\ Kids(u, x) = Kids(t, x) \cap Live(u)
      BY <1>1, <1>7 DEF Thinned
    <3>2. /\ Same(u[x], v[x]) /\ v[x].text = u[x].text /\ v[x].cap = u[x].cap
          /\ Kids(v, x) = Kids(u, x) \ {m}
      BY <1>7
    <3>3. Kids(v, x) = Kids(t, x) \cap Live(v)
      BY <1>7, <3>1, <3>2
    <3>4. QED BY <3>1, <3>2, <3>3 DEF Same
  <2>3. QED BY <1>6, <2>1, <2>2 DEF Thinned
<1>10. ASSUME NEW i \in 1..(L - 1)
       PROVE  i \in 1..L /\ z[i] = s[i] /\ s[i].node # m /\ s[i].node \in Live(v) \cap G
  <2>1. i \in 1..L /\ L \in 1..L /\ i # L
    BY <1>2
  <2>2. s[i].node # s[L].node /\ s[i].node \in Live(u) \cap G
    BY <1>1, <2>1 DEF Within, L
  <2>3. QED BY <1>4, <1>7, <1>8, <2>1, <2>2
<1>11. Within(v, G, z)
  <2>1. \A i, j \in 1..L : s[i].node = s[j].node => i = j
    BY <1>1 DEF Within, L
  <2>2. ASSUME NEW i \in 1..(L - 1), NEW j \in 1..(L - 1), z[i].node = z[j].node PROVE i = j
    BY <1>10, <2>1, <2>2
  <2>3. QED BY <1>4, <1>10, <2>2 DEF Within
\* Who called for m is its parent; the others are not touched.
<1>12. ASSUME L # 1
       PROVE  /\ L - 1 \in 1..(L - 1) /\ s[L - 1].node = p /\ p \in Live(u)
              /\ s[L - 1].child = NextOf(u, p, m) /\ m = FirstOf(u, p) /\ m # Null
  <2>1. L - 1 \in 1..(L - 1) /\ (L - 1) + 1 = L
    BY <1>2, <1>12
  <2>2. m = FirstOf(u, s[L - 1].node) /\ s[L - 1].child = NextOf(u, s[L - 1].node, m)
    BY <1>1, <1>8, <2>1 DEF Chained, L
  <2>3. s[L - 1].node \in Live(u)
    BY <1>7, <1>10, <2>1
  <2>4. u[s[L - 1].node].children \in Seq(Slots) /\ m # Null
    BY <1>1, <1>2, <2>3, LiveNode DEF Sound
  <2>5. m \in Kids(u, s[L - 1].node)
    BY <2>2, <2>4, FirstIs
  <2>6. p = s[L - 1].node
    BY <1>1, <2>3, <2>5, KidIs DEF p
  <2>7. QED BY <2>1, <2>2, <2>3, <2>4, <2>6
<1>13. ASSUME NEW i \in 1..(L - 1), i # L - 1 PROVE v[s[i].node] = u[s[i].node]
  <2>1. L # 1 /\ L - 1 \in 1..L /\ i \in 1..L
    BY <1>2, <1>13
  <2>2. s[i].node # s[L - 1].node
    BY <1>1, <1>13, <2>1 DEF Within, L
  <2>3. s[i].node # p /\ s[i].node # m /\ s[i].node \in Live(v)
    BY <1>10, <1>12, <2>1, <2>2
  <2>4. s[i].node \in Slots
    BY <2>3 DEF Live
  <2>5. QED BY <1>5, <2>3, <2>4
<1>14. ASSUME NEW i \in 1..(L - 2)
       PROVE  /\ z[i + 1].node = FirstOf(v, z[i].node)
              /\ z[i].child = NextOf(v, z[i].node, z[i + 1].node)
  <2>1. i \in 1..(L - 1) /\ i # L - 1 /\ i + 1 \in 1..(L - 1)
    BY <1>2
  <2>2. s[i + 1].node = FirstOf(u, s[i].node) /\ s[i].child = NextOf(u, s[i].node, s[i + 1].node)
    BY <1>1, <2>1 DEF Chained, L
  <2>3. v[s[i].node] = u[s[i].node]
    BY <1>13, <2>1
  <2>4. FirstOf(v, s[i].node) = FirstOf(u, s[i].node)
    BY <2>3, Zenon DEF FirstOf
  <2>5. NextOf(v, s[i].node, s[i + 1].node) = NextOf(u, s[i].node, s[i + 1].node)
    BY <2>3, Zenon DEF NextOf
  <2>6. z[i] = s[i] /\ z[i + 1] = s[i + 1]
    BY <1>10, <2>1
  <2>7. QED BY <2>2, <2>4, <2>5, <2>6
<1>15. z # <<>> => z[Len(z)].child = FirstOf(v, z[Len(z)].node)
  <2> SUFFICES ASSUME z # <<>> PROVE z[Len(z)].child = FirstOf(v, z[Len(z)].node)
    OBVIOUS
  <2>1. L # 1
    BY <1>4 DEF Calls
  <2>2. /\ L - 1 \in 1..(L - 1) /\ s[L - 1].node = p /\ p \in Live(u)
        /\ s[L - 1].child = NextOf(u, p, m) /\ m = FirstOf(u, p) /\ m # Null
    BY <1>12, <2>1
  <2>3. u[p].children \in Seq(Slots) /\ Once(u[p].children)
    BY <1>1, <2>2, LiveNode DEF Sound, Linked
  <2>4. v[p].children = RemoveFirst(u[p].children, m)
    BY <1>5
  <2>5. FirstOf(v, p) = NextOf(u, p, m)
    BY <2>2, <2>3, <2>4, NextIsFirst
  <2>6. z[L - 1] = s[L - 1] /\ Len(z) = L - 1
    BY <1>4, <1>10, <2>2
  <2>7. QED BY <2>2, <2>5, <2>6
<1>16. Chained(v, z)
  <2>1. Len(z) - 1 = L - 2
    BY <1>2, <1>4
  <2>2. QED BY <1>14, <1>15, <2>1 DEF Chained
<1>17. (z = <<>> => n \notin Live(v)) /\ (z # <<>> => z[1].node = n)
  <2>1. CASE z = <<>>
    <3>1. L = 1
      BY <1>2, <1>4, <2>1
    <3>2. n = m
      BY <1>1, <1>8, <3>1
    <3>3. QED BY <1>7, <2>1, <3>2
  <2>2. CASE z # <<>>
    <3>1. L # 1
      BY <1>4, <2>2 DEF Calls
    <3>2. 1 \in 1..(L - 1)
      BY <1>2, <3>1
    <3>3. QED BY <1>1, <1>10, <2>2, <3>2
  <2>3. QED BY <2>1, <2>2
<1>18. /\ RemoveStep(r).tree = v /\ RemoveStep(r).calls = z
       /\ RemoveStep(r) \in [tree : Trees, calls : Calls]
  BY <1>3, <1>4, <1>7
<1>19. Midway(t, n, G, RemoveStep(r))
  BY <1>1, <1>9, <1>11, <1>16, <1>17, <1>18 DEF Midway
<1>20. FreesOne(r.tree, RemoveStep(r).tree, G)
  BY <1>2, <1>7, <1>18 DEF FreesOne, u
<1>21. QED BY <1>4, <1>18, <1>19, <1>20 DEF s, L

\* Every step brings the end nearer: calls still to be made and returns.
ToGo(G, r) == 2 * Cardinality(Live(r.tree) \cap G) - Len(r.calls)

LEMMA ToGoIs ==
    ASSUME NEW t, NEW n, NEW G, NEW r, Midway(t, n, G, r)
    PROVE  /\ IsFiniteSet(Live(r.tree) \cap G) /\ Cardinality(Live(r.tree) \cap G) \in Nat
           /\ Len(r.calls) \in Nat /\ Len(r.calls) <= Cardinality(Live(r.tree) \cap G)
<1> DEFINE s == r.calls
           L == Len(s)
           X == Live(r.tree) \cap G
           f == [i \in 1..L |-> s[i].node]
<1>1. X \in SUBSET Live(r.tree)
  OBVIOUS
<1>2. IsFiniteSet(X) /\ Cardinality(X) \in Nat
  BY <1>1, LiveIsFinite
<1>3. s \in Seq(Frames) /\ Within(r.tree, G, s)
  BY DEF Midway, Calls
<1>4. L \in Nat
  BY <1>3
<1>5. (\A i \in 1..L : s[i].node \in X) /\ \A i, j \in 1..L : s[i].node = s[j].node => i = j
  BY <1>3 DEF Within
<1> HIDE DEF X, L, s
<1>6. f \in Injection(1..L, X)
  BY <1>5 DEF Injection, IsInjective
<1>7. Cardinality(1..L) <= Cardinality(X)
  BY <1>2, <1>6, FS_Injection
<1>8. Cardinality(1..L) = L
  BY <1>4, FS_Interval
<1>9. QED BY <1>2, <1>4, <1>7, <1>8 DEF X, L, s

LEMMA RemoveStepIs ==
    ASSUME NEW t, NEW n, NEW G, NEW r, Midway(t, n, G, r)
    PROVE  /\ Midway(t, n, G, RemoveStep(r))
           /\ r.calls = <<>> => RemoveStep(r) = r
           /\ r.calls # <<>> => ToGo(G, RemoveStep(r)) = ToGo(G, r) - 1
<1> DEFINE q == RemoveStep(r)
           X == Live(r.tree) \cap G
           Y == Live(q.tree) \cap G
<1>1. CASE r.calls = <<>>
  <2>1. RemoveStep(r) = r
    BY <1>1, Zenon DEF RemoveStep
  <2>2. QED BY <1>1, <2>1
<1>2. IsFiniteSet(X) /\ Cardinality(X) \in Nat /\ Len(r.calls) \in Nat
  BY ToGoIs
<1>3. CASE r.calls # <<>> /\ Last(r.calls).child # Null
  <2>1. Midway(t, n, G, q) /\ Live(q.tree) = Live(r.tree) /\ Len(q.calls) = Len(r.calls) + 1
    BY <1>3, CallIs
  <2>2. \A a, b \in Nat : 2 * a - (b + 1) = 2 * a - b - 1
    OBVIOUS
  <2> HIDE DEF q
  <2>3. ToGo(G, q) = ToGo(G, r) - 1
    BY <1>2, <2>1, <2>2 DEF ToGo
  <2>4. QED BY <1>3, <2>1, <2>3 DEF q
<1>4. CASE r.calls # <<>> /\ Last(r.calls).child = Null
  <2>1. Midway(t, n, G, q) /\ Len(q.calls) = Len(r.calls) - 1
    BY <1>4, ReturnIs
  <2>2. PICK m \in X : Live(q.tree) = Live(r.tree) \ {m}
    <3>1. FreesOne(r.tree, q.tree, G)
      BY <1>4, ReturnIs
    <3> HIDE DEF q
    <3>2. QED BY <3>1 DEF FreesOne
  <2>3. Y = X \ {m}
    BY <2>2
  <2>4. Cardinality(Y) = Cardinality(X) - 1
    <3> HIDE DEF X, Y
    <3>1. QED BY <1>2, <2>2, <2>3, OneLess
  <2>5. \A a, b \in Nat : 2 * (a - 1) - (b - 1) = 2 * a - b - 1
    OBVIOUS
  <2> HIDE DEF q
  <2>6. ToGo(G, q) = ToGo(G, r) - 1
    BY <1>2, <2>1, <2>4, <2>5 DEF ToGo
  <2>7. QED BY <1>4, <2>1, <2>6 DEF q
<1>5. QED BY <1>1, <1>3, <1>4

\* When all calls have returned, nothing below n is left.
LEMMA AllReturned ==
    ASSUME NEW t, NEW n, NEW G, NEW r, Midway(t, n, G, r), r.calls = <<>>
    PROVE  Pruned(t, r.tree, n, G)
<1> DEFINE u == r.tree
           S == Live(u) \ G
<1>1. /\ Sound(t) /\ n \in Live(t) /\ n # Root /\ Below(t, n, G)
      /\ Thinned(t, u, G) /\ n \notin Live(u) /\ Sound(u)
  BY DEF Midway, Thinned
<1>2. Root \notin G /\ \A k \in G \ {n} : t[k].parent \in G
  BY <1>1, BelowIs
<1>3. Root \in Live(u) /\ S \in SUBSET Live(u) /\ Root \in S
  BY <1>1, <1>2 DEF Sound, RootIsDir
<1>4. ASSUME NEW m \in S, NEW k \in Kids(u, m) PROVE k \in S
  <2>1. k \in Live(u) /\ u[k].parent = m
    BY <1>1, <1>4, KidIs
  <2>2. u[k].parent = t[k].parent /\ k # n
    BY <1>1, <2>1 DEF Thinned, Same
  <2>3. k \notin G
    BY <1>2, <1>4, <2>1, <2>2
  <2>4. QED BY <2>1, <2>3
<1>5. S = Live(u)
  <2> HIDE DEF S
  <2>1. Closed(u, S)
    BY <1>4 DEF Closed
  <2>2. QED BY <1>1, <1>3, <2>1 DEF Sound, Rooted
<1>6. Live(u) = Live(t) \ G
  BY <1>1, <1>5 DEF Thinned
<1>7. ASSUME NEW m \in Live(u)
      PROVE  /\ Same(t[m], u[m]) /\ u[m].text = t[m].text /\ u[m].cap = t[m].cap
             /\ Once(u[m].children) /\ Kids(u, m) = Kids(t, m) \ G
  <2>1. /\ Same(t[m], u[m]) /\ u[m].text = t[m].text /\ u[m].cap = t[m].cap
        /\ Kids(u, m) = Kids(t, m) \cap Live(u)
    BY <1>1 DEF Thinned
  <2>2. Once(u[m].children)
    BY <1>1 DEF Sound, Linked
  <2>3. Kids(t, m) \subseteq Live(t)
    BY <1>1, <1>6, KidIs
  <2>4. QED BY <1>6, <2>1, <2>2, <2>3
<1> HIDE DEF u, S
<1>8. u \in Trees
  BY <1>1 DEF Sound
<1>9. QED BY <1>1, <1>6, <1>7, <1>8 DEF Pruned, u

LEMMA FirstCall ==
    ASSUME NEW t, Sound(t), NEW n \in Live(t), n # Root, NEW G, Below(t, n, G),
           NEW r, r = [tree |-> t, calls |-> <<Call(t, n)>>]
    PROVE  Midway(t, n, G, r) /\ Len(r.calls) = 1
<1> DEFINE s == <<Call(t, n)>>
<1>1. /\ Call(t, n).node = n /\ Call(t, n).child = FirstOf(t, n)
      /\ Call(t, n) \in Frames
  <2>1. n \in Slots /\ t[n].children \in Seq(Slots)
    BY LiveNode DEF Sound
  <2>2. FirstOf(t, n) \in Slots \cup {Null}
    BY <2>1, FirstIs
  <2>3. Call(t, n) = [node |-> n, child |-> FirstOf(t, n)]
    BY DEF Call
  <2>4. QED BY <2>1, <2>2, <2>3 DEF Frames
<1>2. s \in Seq(Frames) /\ Len(s) = 1 /\ s[1] = Call(t, n)
  BY <1>1
<1>3. s # <<>>
  BY <1>2
<1> HIDE DEF s
<1>4. Within(t, G, s)
  <2>1. n \in G
    BY DEF Below
  <2>2. QED BY <1>1, <1>2, <2>1 DEF Within
<1>5. Chained(t, s)
  <2>1. Len(s) - 1 = 0
    BY <1>2
  <2>2. QED BY <1>1, <1>2, <2>1 DEF Chained
<1>6. Thinned(t, t, G)
  <2>1. ASSUME NEW m \in Live(t) PROVE Kids(t, m) = Kids(t, m) \cap Live(t)
    BY <2>1, KidIs
  <2>2. QED BY <2>1 DEF Thinned, Same
<1>7. r = [tree |-> t, calls |-> s] /\ t \in Trees
  BY DEF s, Sound
<1>8. r.tree = t /\ r.calls = s /\ r \in [tree : Trees, calls : Calls]
  BY <1>2, <1>7 DEF Calls
<1>9. QED BY <1>1, <1>2, <1>3, <1>4, <1>5, <1>6, <1>8 DEF Midway

\* fs_remove takes a node away with all that is below it.
LEMMA FsRemoveIs ==
    ASSUME NEW t, Sound(t), NEW n \in Live(t), n # Root
    PROVE  Pruned(t, FsRemove(t, n), n, Subtree(t, n))
<1> DEFINE G == Subtree(t, n)
           N == 2 * Blocks
           first == [tree |-> t, calls |-> <<Call(t, n)>>]
           D == {r \in [tree : Trees, calls : Calls] : Midway(t, n, G, r)}
           F == [p \in D \X Nat |-> RemoveStep(p[1])]
           Eq(f) == f = [k \in 0..2 * Blocks |-> IF k = 0 THEN first ELSE RemoveStep(f[k - 1])]
           run == CHOOSE f : Eq(f)
<1>1. N \in Nat /\ Blocks \in Nat
  BY SlotsAre
<1>2. FsRemove(t, n) = run[2 * Blocks].tree
  BY Zenon DEF FsRemove
<1>3. Below(t, n, G)
  BY SubtreeIs
<1> HIDE DEF G
<1>4. Midway(t, n, G, first) /\ Len(first.calls) = 1
  BY <1>3, FirstCall
<1> HIDE DEF first
<1>5. first \in D
  BY <1>4 DEF Midway
<1>6. \A r \in D : RemoveStep(r) \in D
  <2>1. ASSUME NEW r \in D PROVE RemoveStep(r) \in D
    <3>1. Midway(t, n, G, RemoveStep(r))
      BY RemoveStepIs
    <3>2. QED BY <3>1 DEF Midway
  <2>2. QED BY <2>1
<1>7. F \in [D \X Nat -> D] /\ \A r \in D, k \in Nat : F[<<r, k>>] = RemoveStep(r)
  BY <1>6
<1> HIDE DEF F, D
<1>8. PICK h \in [0..N -> D] : Recurs(h, N, first, F)
  BY <1>1, <1>5, <1>7, RecursionUpTo
<1>9. h[0] = first /\ \A k \in 1..N : h[k] = F[<<h[k - 1], k>>] /\ h[k - 1] \in D
  BY <1>1, <1>5, <1>8, RecursionSteps
<1>10. ASSUME NEW k \in 1..N PROVE h[k] = RemoveStep(h[k - 1])
  <2>1. k \in Nat /\ h[k - 1] \in D /\ h[k] = F[<<h[k - 1], k>>]
    BY <1>1, <1>9
  <2>2. QED BY <1>7, <2>1
<1>11. Eq(h)
  <2>1. \A k \in 0..N : h[k] = IF k = 0 THEN first ELSE RemoveStep(h[k - 1])
    BY <1>1, <1>9, <1>10
  <2>2. h = [k \in 0..N |-> h[k]]
    OBVIOUS
  <2>3. QED BY <2>1, <2>2
<1>12. Eq(run)
  <2> HIDE DEF Eq
  <2>1. QED BY <1>11
<1>13. run[0] = first /\ \A k \in 1..N : run[k] = RemoveStep(run[k - 1])
  <2>1. \A k \in 0..N : run[k] = IF k = 0 THEN first ELSE RemoveStep(run[k - 1])
    <3> HIDE DEF run
    <3>1. QED BY <1>12
  <2> HIDE DEF Eq, run
  <2>2. QED BY <1>1, <2>1
<1> HIDE DEF Eq, run
<1> DEFINE S == {k \in 0..N : /\ Midway(t, n, G, run[k])
                              /\ \/ run[k].calls = <<>>
                                 \/ ToGo(G, run[k]) = ToGo(G, first) - k}
<1>14. ToGo(G, first) \in Int /\ ToGo(G, first) < N
  <2> DEFINE x == Cardinality(Live(first.tree) \cap G)
  <2>1. x \in Nat
    BY <1>4, ToGoIs
  <2>2. x <= Blocks
    <3>1. Live(first.tree) \cap G \in SUBSET Live(first.tree)
      OBVIOUS
    <3>2. QED BY <3>1, LiveIsFinite
  <2>3. ToGo(G, first) = 2 * x - 1
    BY <1>4 DEF ToGo
  <2> HIDE DEF x
  <2>4. QED BY <1>1, <2>1, <2>2, <2>3
<1>15. 0 \in S
  <2>1. ToGo(G, run[0]) = ToGo(G, first) - 0
    BY <1>13, <1>14
  <2>2. 0 \in 0..N
    BY <1>1
  <2>3. QED BY <1>4, <1>13, <2>1, <2>2
<1>16. ASSUME NEW k \in 0..(N - 1), k \in S PROVE k + 1 \in S
  <2>1. k + 1 \in 1..N /\ k + 1 \in 0..N /\ (k + 1) - 1 = k /\ k \in Int
    BY <1>1
  <2>2. run[k + 1] = RemoveStep(run[k]) /\ Midway(t, n, G, run[k])
    BY <1>13, <1>16, <2>1
  <2>3. /\ Midway(t, n, G, run[k + 1])
        /\ run[k].calls = <<>> => run[k + 1] = run[k]
        /\ run[k].calls # <<>> => ToGo(G, run[k + 1]) = ToGo(G, run[k]) - 1
    BY <2>2, RemoveStepIs
  <2>4. CASE run[k].calls = <<>>
    BY <2>1, <2>3, <2>4
  <2>5. CASE run[k].calls # <<>>
    <3>1. ToGo(G, run[k]) = ToGo(G, first) - k
      BY <1>16, <2>5
    <3>2. \A a, b \in Int : a - b - 1 = a - (b + 1)
      OBVIOUS
    <3>3. ToGo(G, run[k + 1]) = ToGo(G, first) - (k + 1)
      BY <1>14, <2>1, <2>3, <2>5, <3>1, <3>2
    <3>4. QED BY <2>1, <2>3, <3>3
  <2>6. QED BY <2>4, <2>5
<1>17. N \in S
  <2>1. 0..N \subseteq S
    <3> HIDE DEF S
    <3>1. QED BY <1>1, <1>15, <1>16, InductionUpTo
  <2>2. N \in 0..N
    BY <1>1
  <2>3. QED BY <2>1, <2>2
<1>18. Midway(t, n, G, run[N])
  BY <1>17
<1>19. run[N].calls = <<>>
  <2> DEFINE x == Cardinality(Live(run[N].tree) \cap G)
             y == Len(run[N].calls)
  <2>1. x \in Nat /\ y \in Nat /\ y <= x
    BY <1>18, ToGoIs
  <2>2. ToGo(G, run[N]) = 2 * x - y
    BY DEF ToGo
  <2> HIDE DEF x, y
  <2>3. ~(ToGo(G, run[N]) < 0)
    BY <2>1, <2>2
  <2>4. ToGo(G, first) - N < 0
    BY <1>1, <1>14
  <2>5. QED BY <1>17, <2>3, <2>4
<1>20. QED BY <1>2, <1>18, <1>19, AllReturned DEF G

LEMMA RemoveIs ==
    ASSUME NEW t, Sound(t), NEW n \in Live(t)
    PROVE  Sound(FsRemove(t, n)) /\ Shrinks(t, FsRemove(t, n))
<1>1. CASE n = Root
  <2>1. FsRemove(t, n) = t
    BY <1>1 DEF FsRemove
  <2>2. QED BY <2>1 DEF Shrinks
<1>2. CASE n # Root
  <2>1. Pruned(t, FsRemove(t, n), n, Subtree(t, n))
    BY <1>2, FsRemoveIs
  <2>2. QED BY <2>1, PrunedIsSound
<1>3. QED BY <1>1, <1>2

-----------------------------------------------------------------------------
(* fs_resolve.                                                               *)

LEMMA StepIs ==
    ASSUME NEW t, Sound(t), NEW cur \in Live(t) \cup {Null}, NEW w
    PROVE  Step(t, cur, w) \in Live(t) \cup {Null}
<1>1. CASE cur = Null
  BY <1>1 DEF Step
<1>2. CASE cur # Null
  <2>1. cur \in Live(t) /\ t[cur].parent \in Live(t) \cup {cur, Null}
    <3>1. cur # Root => t[cur].parent \in Live(t)
      BY <1>2, Hung
    <3>2. cur = Root => t[cur].parent = Null
      BY DEF Sound, RootIsDir
    <3>3. QED BY <1>2, <3>1, <3>2
  <2>2. cur # Root => t[cur].parent \in Live(t)
    BY <1>2, Hung
  <2>3. FindChild(t, cur, w) \in Live(t) \cup {Null}
    BY <2>1, FindChildIs, KidIs
  <2>4. QED BY <1>2, <2>1, <2>2, <2>3 DEF Step
<1>3. QED BY <1>1, <1>2

\* Walking is taking the steps one after the other.
WalksAlong(t, from, comps, h) ==
    /\ h[0] = from /\ h[Len(comps)] = Walk(t, from, comps)
    /\ \A i \in 1..Len(comps) : h[i] = Step(t, h[i - 1], comps[i])

LEMMA WalkSteps ==
    ASSUME NEW t, Sound(t), NEW from \in Live(t) \cup {Null}, NEW W, NEW comps \in Seq(W)
    PROVE  /\ Walk(t, from, comps) \in Live(t) \cup {Null}
           /\ \E h : WalksAlong(t, from, comps, h)
<1> DEFINE N == Len(comps)
           A == 1..N
           D == Live(t) \cup {Null}
           F == [p \in D \X A |-> Step(t, p[1], comps[p[2]])]
           Eq(f) == f = [s \in SUBSET A |->
                            IF s = {} THEN from ELSE Step(t, f[s \ {Greatest(s)}], comps[Greatest(s)])]
           iter == CHOOSE f : Eq(f)
<1>1. N \in Nat /\ DOMAIN comps = A /\ A = 1..N
  OBVIOUS
<1> HIDE DEF N, A
<1>2. ASSUME NEW x \in D, NEW i \in A PROVE Step(t, x, comps[i]) \in D
  BY StepIs
<1>3. F \in [D \X A -> D] /\ \A x \in D, i \in A : F[<<x, i>>] = Step(t, x, comps[i])
  BY <1>2
<1>4. from \in D
  OBVIOUS
<1> HIDE DEF F, D
<1>5. \A s \in SUBSET A : s # {} => Greatest(s) \in A
  BY <1>1, InitialSegments
<1>6. Eq(iter)
  <2>1. PICK f \in [SUBSET A -> D] : IsSeqFold(f, A, from, F)
    BY <1>1, <1>3, <1>4, SeqFoldsExist
  <2>2. ASSUME NEW s \in SUBSET A, s # {}
        PROVE  F[<<f[s \ {Greatest(s)}], Greatest(s)>>] = Step(t, f[s \ {Greatest(s)}], comps[Greatest(s)])
    <3>1. f[s \ {Greatest(s)}] \in D
      OBVIOUS
    <3>2. QED BY <1>3, <1>5, <2>2, <3>1
  <2>3. Eq(f)
    BY <2>1, <2>2 DEF IsSeqFold
  <2>4. QED
    <3> HIDE DEF Eq
    <3>1. QED BY <2>3
<1>7. Walk(t, from, comps) = iter[A]
  BY <1>1, Zenon DEF Walk, FoldLeft, MapThenFoldSet, Max, Greatest
<1> HIDE DEF iter
<1>8. iter[{}] = from
  BY <1>6
<1>9. ASSUME NEW s \in SUBSET A, s # {}, iter[s \ {Greatest(s)}] \in D
      PROVE  iter[s] = F[<<iter[s \ {Greatest(s)}], Greatest(s)>>]
  <2>1. iter[s] = Step(t, iter[s \ {Greatest(s)}], comps[Greatest(s)])
    BY <1>6, <1>9
  <2>2. QED BY <1>3, <1>5, <1>9, <2>1
<1> HIDE DEF Eq
<1>10. iter[A] \in D /\ \E h : Reaches(h, N, D, from, F, iter[A])
  <2>1. FoldsAs(iter, N, A, D, from, F)
    BY <1>1, <1>3, <1>4, <1>8, <1>9 DEF FoldsAs
  <2>2. QED BY <2>1, FoldReaches
<1>11. PICK h : Reaches(h, N, D, from, F, iter[A])
  BY <1>10
<1>12. /\ h[0] = from /\ h[N] = iter[A]
       /\ \A i \in 1..N : h[i] = F[<<h[i - 1], i>>] /\ h[i - 1] \in D
  BY <1>11 DEF Reaches
<1>13. \A i \in 1..N : h[i] = Step(t, h[i - 1], comps[i])
  BY <1>1, <1>3, <1>12
<1>14. WalksAlong(t, from, comps, h)
  BY <1>7, <1>12, <1>13 DEF WalksAlong, N
<1>15. QED BY <1>7, <1>10, <1>14 DEF D

-----------------------------------------------------------------------------
(* The directories made at boot, and the files of a package.                 *)

\* At boot there are only directories.
LEMMA BootedIs ==
    Sound(Booted) /\ \A m \in Live(Booted) : Booted[m].type = "dir"
<1> DEFINE N == Len(Seeds)
           A == 1..N
           D == {u \in Trees : Sound(u) /\ \A m \in Live(u) : u[m].type = "dir"}
           F == [p \in D \X A |-> MkdirP(p[1], Seeds[p[2]]).tree]
           Eq(f) == f = [s \in SUBSET A |->
                            IF s = {} THEN EmptyTree
                            ELSE MkdirP(f[s \ {Greatest(s)}], Seeds[Greatest(s)]).tree]
           iter == CHOOSE f : Eq(f)
<1>1. N \in Nat /\ DOMAIN Seeds = A /\ A = 1..N /\ \A i \in A : Seeds[i] \in Seq(Words)
  BY StorageAssumption
<1> HIDE DEF N, A
<1>2. ASSUME NEW x \in D, NEW i \in A PROVE MkdirP(x, Seeds[i]).tree \in D
  <2>1. Seeds[i] \in Seq(Words) /\ Sound(x)
    BY <1>1
  <2>2. GoodFor(x, MkdirP(x, Seeds[i])) /\ NewDirs(x, MkdirP(x, Seeds[i]).tree)
    BY <2>1, MkdirPIs
  <2>3. QED BY <2>2 DEF GoodFor, Grows, NewDirs, Sound
<1>3. F \in [D \X A -> D] /\ \A x \in D, i \in A : F[<<x, i>>] = MkdirP(x, Seeds[i]).tree
  BY <1>2
<1>4. EmptyTree \in D
  BY EmptyIsSound DEF Sound
<1> HIDE DEF F, D
<1>5. \A s \in SUBSET A : s # {} => Greatest(s) \in A
  BY <1>1, InitialSegments
<1>6. Eq(iter)
  <2>1. PICK f \in [SUBSET A -> D] : IsSeqFold(f, A, EmptyTree, F)
    BY <1>1, <1>3, <1>4, SeqFoldsExist
  <2>2. ASSUME NEW s \in SUBSET A, s # {}
        PROVE  F[<<f[s \ {Greatest(s)}], Greatest(s)>>]
                    = MkdirP(f[s \ {Greatest(s)}], Seeds[Greatest(s)]).tree
    <3>1. f[s \ {Greatest(s)}] \in D
      OBVIOUS
    <3>2. QED BY <1>3, <1>5, <2>2, <3>1
  <2>3. Eq(f)
    BY <2>1, <2>2 DEF IsSeqFold
  <2>4. QED
    <3> HIDE DEF Eq
    <3>1. QED BY <2>3
<1>7. Booted = iter[A]
  BY <1>1, Zenon DEF Booted, FoldLeft, MapThenFoldSet, Max, Greatest
<1> HIDE DEF iter
<1>8. iter[{}] = EmptyTree
  BY <1>6
<1>9. ASSUME NEW s \in SUBSET A, s # {}, iter[s \ {Greatest(s)}] \in D
      PROVE  iter[s] = F[<<iter[s \ {Greatest(s)}], Greatest(s)>>]
  <2>1. iter[s] = MkdirP(iter[s \ {Greatest(s)}], Seeds[Greatest(s)]).tree
    BY <1>6, <1>9
  <2>2. QED BY <1>3, <1>5, <1>9, <2>1
<1> HIDE DEF Eq
<1>10. iter[A] \in D
  <2>1. FoldsAs(iter, N, A, D, EmptyTree, F)
    BY <1>1, <1>3, <1>4, <1>8, <1>9 DEF FoldsAs
  <2>2. QED BY <2>1, FoldReaches
<1>11. QED BY <1>7, <1>10 DEF D

LEMMA PutsIs ==
    ASSUME NEW t, Sound(t), NEW paths \in Seq(Seq(Words) \ {<<>>})
    PROVE  LET u == FoldLeft(LAMBDA v, path : FsPut(v, path, Contents).tree, t, paths)
           IN  Sound(u) /\ Grows(t, u)
<1> DEFINE N == Len(paths)
           A == 1..N
           D == {u \in Trees : Sound(u) /\ Grows(t, u)}
           F == [p \in D \X A |-> FsPut(p[1], paths[p[2]], Contents).tree]
           Eq(f) == f = [s \in SUBSET A |->
                            IF s = {} THEN t
                            ELSE FsPut(f[s \ {Greatest(s)}], paths[Greatest(s)], Contents).tree]
           iter == CHOOSE f : Eq(f)
<1>1. N \in Nat /\ DOMAIN paths = A /\ A = 1..N /\ \A i \in A : paths[i] \in Seq(Words) \ {<<>>}
  OBVIOUS
<1> HIDE DEF N, A
<1>2. ASSUME NEW x \in D, NEW i \in A PROVE FsPut(x, paths[i], Contents).tree \in D
  <2>1. paths[i] \in Seq(Words) \ {<<>>} /\ Sound(x) /\ Grows(t, x) /\ Contents \in Texts
    BY <1>1, StorageAssumption
  <2>2. Sound(FsPut(x, paths[i], Contents).tree) /\ Grows(x, FsPut(x, paths[i], Contents).tree)
    BY <2>1, PutIs
  <2>3. Grows(t, FsPut(x, paths[i], Contents).tree)
    BY <2>1, <2>2, GrowsOn
  <2>4. QED BY <2>2, <2>3 DEF Sound
<1>3. F \in [D \X A -> D] /\ \A x \in D, i \in A : F[<<x, i>>] = FsPut(x, paths[i], Contents).tree
  BY <1>2
<1>4. t \in D
  BY GrowsNot DEF Sound
<1> HIDE DEF F, D
<1>5. \A s \in SUBSET A : s # {} => Greatest(s) \in A
  BY <1>1, InitialSegments
<1>6. Eq(iter)
  <2>1. PICK f \in [SUBSET A -> D] : IsSeqFold(f, A, t, F)
    BY <1>1, <1>3, <1>4, SeqFoldsExist
  <2>2. ASSUME NEW s \in SUBSET A, s # {}
        PROVE  F[<<f[s \ {Greatest(s)}], Greatest(s)>>]
                    = FsPut(f[s \ {Greatest(s)}], paths[Greatest(s)], Contents).tree
    <3>1. f[s \ {Greatest(s)}] \in D
      OBVIOUS
    <3>2. QED BY <1>3, <1>5, <2>2, <3>1
  <2>3. Eq(f)
    BY <2>1, <2>2 DEF IsSeqFold
  <2>4. QED
    <3> HIDE DEF Eq
    <3>1. QED BY <2>3
<1>7. FoldLeft(LAMBDA v, path : FsPut(v, path, Contents).tree, t, paths) = iter[A]
  BY <1>1, Zenon DEF FoldLeft, MapThenFoldSet, Max, Greatest
<1> HIDE DEF iter
<1>8. iter[{}] = t
  BY <1>6
<1>9. ASSUME NEW s \in SUBSET A, s # {}, iter[s \ {Greatest(s)}] \in D
      PROVE  iter[s] = F[<<iter[s \ {Greatest(s)}], Greatest(s)>>]
  <2>1. iter[s] = FsPut(iter[s \ {Greatest(s)}], paths[Greatest(s)], Contents).tree
    BY <1>6, <1>9
  <2>2. QED BY <1>3, <1>5, <1>9, <2>1
<1> HIDE DEF Eq
<1>10. iter[A] \in D
  <2>1. FoldsAs(iter, N, A, D, t, F)
    BY <1>1, <1>3, <1>4, <1>8, <1>9 DEF FoldsAs
  <2>2. QED BY <2>1, FoldReaches
<1>11. QED BY <1>7, <1>10 DEF D

LEMMA RemovePathIs ==
    ASSUME NEW t, Sound(t), NEW path \in Seq(Words)
    PROVE  Sound(RemovePath(t, path)) /\ Shrinks(t, RemovePath(t, path))
<1> DEFINE n == Walk(t, Root, path)
<1>1. n \in Live(t) \cup {Null}
  BY WalkSteps DEF Sound, RootIsDir
<1>2. RemovePath(t, path) = IF n = Null THEN t ELSE FsRemove(t, n)
  BY DEF RemovePath
<1> HIDE DEF n
<1>3. CASE n = Null
  BY <1>2, <1>3 DEF Shrinks
<1>4. CASE n # Null
  BY <1>1, <1>2, <1>4, RemoveIs
<1>5. QED BY <1>3, <1>4

\* Removing several is removing one after the other.
RemovesAlong(t, paths, h) ==
    /\ h[0] = t /\ h[Len(paths)] = FoldLeft(RemovePath, t, paths)
    /\ \A i \in 1..Len(paths) : h[i] = RemovePath(h[i - 1], paths[i]) /\ Sound(h[i - 1])

LEMMA RemovesIs ==
    ASSUME NEW t, Sound(t), NEW paths \in Seq(Seq(Words))
    PROVE  /\ Sound(FoldLeft(RemovePath, t, paths)) /\ Shrinks(t, FoldLeft(RemovePath, t, paths))
           /\ \E h : RemovesAlong(t, paths, h)
<1> DEFINE N == Len(paths)
           A == 1..N
           D == {u \in Trees : Sound(u) /\ Shrinks(t, u)}
           F == [p \in D \X A |-> RemovePath(p[1], paths[p[2]])]
           Eq(f) == f = [s \in SUBSET A |->
                            IF s = {} THEN t
                            ELSE RemovePath(f[s \ {Greatest(s)}], paths[Greatest(s)])]
           iter == CHOOSE f : Eq(f)
<1>1. N \in Nat /\ DOMAIN paths = A /\ A = 1..N /\ \A i \in A : paths[i] \in Seq(Words)
  OBVIOUS
<1> HIDE DEF N, A
<1>2. ASSUME NEW x \in D, NEW i \in A PROVE RemovePath(x, paths[i]) \in D
  <2>1. paths[i] \in Seq(Words) /\ Sound(x) /\ Shrinks(t, x)
    BY <1>1
  <2>2. Sound(RemovePath(x, paths[i])) /\ Shrinks(x, RemovePath(x, paths[i]))
    BY <2>1, RemovePathIs
  <2>3. Shrinks(t, RemovePath(x, paths[i]))
    BY <2>1, <2>2 DEF Shrinks
  <2>4. QED BY <2>2, <2>3 DEF Sound
<1>3. F \in [D \X A -> D] /\ \A x \in D, i \in A : F[<<x, i>>] = RemovePath(x, paths[i])
  BY <1>2
<1>4. t \in D
  BY DEF Sound, Shrinks
<1> HIDE DEF F, D
<1>5. \A s \in SUBSET A : s # {} => Greatest(s) \in A
  BY <1>1, InitialSegments
<1>6. Eq(iter)
  <2>1. PICK f \in [SUBSET A -> D] : IsSeqFold(f, A, t, F)
    BY <1>1, <1>3, <1>4, SeqFoldsExist
  <2>2. ASSUME NEW s \in SUBSET A, s # {}
        PROVE  F[<<f[s \ {Greatest(s)}], Greatest(s)>>]
                    = RemovePath(f[s \ {Greatest(s)}], paths[Greatest(s)])
    <3>1. f[s \ {Greatest(s)}] \in D
      OBVIOUS
    <3>2. QED BY <1>3, <1>5, <2>2, <3>1
  <2>3. Eq(f)
    BY <2>1, <2>2 DEF IsSeqFold
  <2>4. QED
    <3> HIDE DEF Eq
    <3>1. QED BY <2>3
<1>7. FoldLeft(RemovePath, t, paths) = iter[A]
  BY <1>1, Zenon DEF FoldLeft, MapThenFoldSet, Max, Greatest
<1> HIDE DEF iter
<1>8. iter[{}] = t
  BY <1>6
<1>9. ASSUME NEW s \in SUBSET A, s # {}, iter[s \ {Greatest(s)}] \in D
      PROVE  iter[s] = F[<<iter[s \ {Greatest(s)}], Greatest(s)>>]
  <2>1. iter[s] = RemovePath(iter[s \ {Greatest(s)}], paths[Greatest(s)])
    BY <1>6, <1>9
  <2>2. QED BY <1>3, <1>5, <1>9, <2>1
<1> HIDE DEF Eq
<1>10. iter[A] \in D /\ \E h : Reaches(h, N, D, t, F, iter[A])
  <2>1. FoldsAs(iter, N, A, D, t, F)
    BY <1>1, <1>3, <1>4, <1>8, <1>9 DEF FoldsAs
  <2>2. QED BY <2>1, FoldReaches
<1>11. PICK h : Reaches(h, N, D, t, F, iter[A])
  BY <1>10
<1>12. /\ h[0] = t /\ h[N] = iter[A]
       /\ \A i \in 1..N : h[i] = F[<<h[i - 1], i>>] /\ h[i - 1] \in D
  BY <1>11 DEF Reaches
<1>13. \A i \in 1..N : h[i] = RemovePath(h[i - 1], paths[i])
  BY <1>1, <1>3, <1>12
<1>14. \A i \in 1..N : Sound(h[i - 1])
  BY <1>12 DEF D
<1>15. RemovesAlong(t, paths, h)
  BY <1>7, <1>12, <1>13, <1>14 DEF RemovesAlong, N
<1>16. QED BY <1>7, <1>10, <1>15 DEF D

-----------------------------------------------------------------------------
(* The commands.                                                             *)

\* The working directory is a directory, or known to be lost.
Standing(t, d, gone) == d \in Slots /\ (~gone => d \in Live(t) /\ t[d].type = "dir")

StorageInv == Sound(tree) /\ Standing(tree, cwd, lost) /\ lost \in BOOLEAN

LEMMA WordsTyped ==
    /\ \A w \in Typed.cd \cup Typed.mkdir \cup Typed.touch \cup Typed.write : w \in Words
    /\ \A w \in Typed.rm \cup Typed.install \cup Typed.remove : w \in Words
    /\ \A w \in Words : Parsed[w].abs \in BOOLEAN /\ Parsed[w].comps \in Seq(Words)
BY StorageAssumption, RamFsAssumption

LEMMA DbPathIs ==
    ASSUME NEW w \in Words
    PROVE  DbPath(w) \in Seq(Words) \ {<<>>}
<1> DEFINE c == Parsed[w].comps
<1>1. c \in Seq(Words) /\ DbDir \in Seq(Words) /\ DbDir # <<>>
  BY WordsTyped, StorageAssumption
<1>2. DbPath(w) = DbDir \o c
  BY DEF DbPath
<1> HIDE DEF c
<1>3. Len(DbDir) \in Nat \ {0} /\ Len(c) \in Nat
  BY <1>1
<1>4. DbDir \o c \in Seq(Words) /\ Len(DbDir \o c) = Len(DbDir) + Len(c)
  BY <1>1
<1>5. DbDir \o c # <<>>
  BY <1>3, <1>4
<1>6. QED BY <1>2, <1>4, <1>5

LEMMA ResolveIs ==
    ASSUME NEW t, Sound(t), NEW d, NEW w \in Words, Parsed[w].abs \/ d \in Live(t)
    PROVE  Resolve(t, d, w) \in Live(t) \cup {Null}
<1> DEFINE from == IF Parsed[w].abs THEN Root ELSE d
<1>1. from \in Live(t) /\ Parsed[w].comps \in Seq(Words)
  BY WordsTyped DEF Sound, RootIsDir
<1>2. Resolve(t, d, w) = Walk(t, from, Parsed[w].comps)
  BY DEF Resolve
<1> HIDE DEF from
<1>3. QED BY <1>1, <1>2, WalkSteps

\* A working directory is still one in a tree that has grown, and in one
\* that has shrunk unless it is freed.
LEMMA StandsStill ==
    ASSUME NEW t, NEW u, NEW d, NEW gone, Standing(t, d, gone), Grows(t, u)
    PROVE  Standing(u, d, gone)
BY DEF Standing, Grows

LEMMA StandsOrIsLost ==
    ASSUME NEW t, NEW u, NEW d, NEW gone \in BOOLEAN, Standing(t, d, gone), Shrinks(t, u)
    PROVE  /\ Standing(u, d, gone \/ u[d] = Free)
           /\ (gone \/ u[d] = Free) \in BOOLEAN
BY DEF Standing, Shrinks, Live

LEMMA WriteCommandIs ==
    ASSUME NEW t, Sound(t), NEW d \in Live(t), NEW w \in Words, NEW x \in Texts,
           NEW found, found = Resolve(t, d, w),
           NEW file, file = IF found # Null THEN Result(t, found) ELSE Create(t, d, w, "file"),
           NEW u, u = IF file.node = Null THEN t ELSE FsWrite(file.tree, file.node, x)
    PROVE  Sound(u) /\ Grows(t, u)
<1>1. found \in Live(t) \cup {Null}
  BY ResolveIs
<1>2. GoodFor(t, file)
  <2>1. CASE found # Null
    <3>1. file = Result(t, found)
      BY <2>1
    <3>2. QED BY <1>1, <3>1, GrowsNot, GoodResult
  <2>2. CASE found = Null
    <3>1. file = Create(t, d, w, "file")
      BY <2>2
    <3>2. QED BY <3>1, CreateIs
  <2>3. QED BY <2>1, <2>2
<1>3. CASE file.node = Null
  BY <1>3, GrowsNot
<1>4. CASE file.node # Null
  <2>1. u = FsWrite(file.tree, file.node, x)
    BY <1>4
  <2>2. QED BY <1>2, <1>4, <2>1, WrittenIs
<1>5. QED BY <1>3, <1>4

LEMMA StorageInit ==
    ASSUME Init PROVE StorageInv
<1>1. Sound(Booted) /\ \A m \in Live(Booted) : Booted[m].type = "dir"
  BY BootedIs
<1>2. /\ tree = Booted /\ cwd = Walk(Booted, Root, Home) /\ lost = FALSE
      /\ Walk(Booted, Root, Home) # Null /\ Home \in Seq(Words)
  BY StorageAssumption DEF Init
<1>3. Root \in Live(Booted)
  BY <1>1 DEF Sound, RootIsDir
<1>4. Walk(Booted, Root, Home) \in Live(Booted)
  BY <1>1, <1>2, <1>3, WalkSteps
<1>5. Walk(Booted, Root, Home) \in Slots
  BY <1>4 DEF Live
<1>6. QED BY <1>1, <1>2, <1>4, <1>5 DEF StorageInv, Standing

LEMMA StorageStep ==
    ASSUME StorageInv, [Next]_vars PROVE StorageInv'
<1>0. /\ Sound(tree) /\ Standing(tree, cwd, lost) /\ lost \in BOOLEAN
      /\ Root \in Live(tree) /\ tree[Root].type = "dir" /\ Root \in Slots
  BY SlotsAre DEF StorageInv, Sound, RootIsDir
<1>1. CASE CdHome
  BY <1>0, <1>1 DEF CdHome, StorageInv, Standing
<1>2. ASSUME NEW w \in Typed.cd, Cd(w) PROVE StorageInv'
  <2> DEFINE d == Resolve(tree, cwd, w)
  <2>1. w \in Words /\ (Parsed[w].abs \/ cwd \in Live(tree))
    BY <1>0, <1>2, WordsTyped DEF Cd, Usable, Standing
  <2>2. d \in Live(tree) \cup {Null}
    BY <1>0, <2>1, ResolveIs
  <2>3. /\ tree' = tree
        /\ IF d # Null /\ tree[d].type = "dir" THEN cwd' = d /\ lost' = FALSE
           ELSE UNCHANGED <<cwd, lost>>
    BY <1>2 DEF Cd
  <2> HIDE DEF d
  <2>4. CASE d # Null /\ tree[d].type = "dir"
    <3>1. d \in Live(tree) /\ d \in Slots
      BY <2>2, <2>4 DEF Live
    <3>2. QED BY <1>0, <2>3, <2>4, <3>1 DEF StorageInv, Standing
  <2>5. CASE ~(d # Null /\ tree[d].type = "dir")
    BY <1>0, <2>3, <2>5 DEF StorageInv
  <2>6. QED BY <2>4, <2>5
<1>3. ASSUME NEW w \in Words, NEW type \in {"dir", "file"}, Make(w, type) PROVE StorageInv'
  <2>1. cwd \in Live(tree) /\ cwd' = cwd /\ lost' = lost
    BY <1>0, <1>3 DEF Make, Standing
  <2>2. tree' = Create(tree, cwd, w, type).tree
    BY <1>3 DEF Make
  <2>3. GoodFor(tree, Create(tree, cwd, w, type))
    BY <1>0, <2>1, CreateIs
  <2>4. Sound(tree') /\ Grows(tree, tree')
    BY <2>2, <2>3 DEF GoodFor
  <2>5. Standing(tree', cwd, lost)
    BY <1>0, <2>4, StandsStill
  <2>6. QED BY <1>0, <2>1, <2>4, <2>5 DEF StorageInv
<1>4. ASSUME NEW w \in Typed.write, NEW x \in Texts, Write(w, x) PROVE StorageInv'
  <2> DEFINE found == Resolve(tree, cwd, w)
             file == IF found # Null THEN Result(tree, found) ELSE Create(tree, cwd, w, "file")
             u == IF file.node = Null THEN tree ELSE FsWrite(file.tree, file.node, x)
  <2>1. cwd \in Live(tree) /\ cwd' = cwd /\ lost' = lost /\ w \in Words
    BY <1>0, <1>4, WordsTyped DEF Write, Standing
  <2>2. tree' = u
    BY <1>4 DEF Write
  <2>3. Sound(u) /\ Grows(tree, u)
    BY <1>0, <2>1, WriteCommandIs
  <2> HIDE DEF u
  <2>4. Standing(tree', cwd, lost)
    BY <1>0, <2>2, <2>3, StandsStill
  <2>5. QED BY <1>0, <2>1, <2>2, <2>3, <2>4 DEF StorageInv
<1>5. ASSUME Sound(tree'), Shrinks(tree, tree'), Stranded PROVE StorageInv'
  <2>1. /\ Standing(tree', cwd, lost \/ tree'[cwd] = Free)
        /\ (lost \/ tree'[cwd] = Free) \in BOOLEAN
    BY <1>0, <1>5, StandsOrIsLost
  <2>2. lost' = (lost \/ tree'[cwd] = Free) /\ cwd' = cwd
    BY <1>5 DEF Stranded
  <2>3. QED BY <1>5, <2>1, <2>2, Zenon DEF StorageInv
<1>6. ASSUME NEW w \in Typed.rm, Rm(w) PROVE StorageInv'
  <2> DEFINE n == Resolve(tree, cwd, w)
  <2>1. w \in Words /\ (Parsed[w].abs \/ cwd \in Live(tree))
    BY <1>0, <1>6, WordsTyped DEF Rm, Usable, Standing
  <2>2. n \in Live(tree) \cup {Null}
    BY <1>0, <2>1, ResolveIs
  <2>3. tree' = (IF n = Null THEN tree ELSE FsRemove(tree, n)) /\ Stranded
    BY <1>6 DEF Rm
  <2> HIDE DEF n
  <2>4. Sound(tree') /\ Shrinks(tree, tree')
    <3>1. CASE n = Null
      BY <1>0, <2>3, <3>1 DEF Shrinks
    <3>2. CASE n # Null
      <4>1. tree' = FsRemove(tree, n) /\ n \in Live(tree)
        BY <2>2, <2>3, <3>2
      <4>2. QED BY <1>0, <4>1, RemoveIs
    <3>3. QED BY <3>1, <3>2
  <2>5. QED BY <1>5, <2>3, <2>4
<1>7. ASSUME NEW w \in Typed.install, Install(w) PROVE StorageInv'
  <2> DEFINE paths == Append(Repo[w], DbPath(w))
             u == FoldLeft(LAMBDA t, path : FsPut(t, path, Contents).tree, tree, paths)
  <2>1. w \in Words /\ cwd' = cwd /\ lost' = lost
    BY <1>7, WordsTyped DEF Install
  <2>2. tree' = tree \/ (w \in DOMAIN Repo /\ tree' = u)
    BY <1>7 DEF Install
  <2>3. Sound(tree') /\ Grows(tree, tree')
    <3>1. CASE tree' = tree
      BY <1>0, <3>1, GrowsNot
    <3>2. CASE w \in DOMAIN Repo /\ tree' = u
      <4>1. Repo[w] \in Seq(Seq(Words) \ {<<>>}) /\ DbPath(w) \in Seq(Words) \ {<<>>}
        BY <2>1, <3>2, StorageAssumption, DbPathIs
      <4>2. paths \in Seq(Seq(Words) \ {<<>>})
        BY <4>1
      <4> HIDE DEF paths
      <4>3. Sound(u) /\ Grows(tree, u)
        BY <1>0, <4>2, PutsIs
      <4> HIDE DEF u
      <4>4. QED BY <3>2, <4>3
    <3>3. QED BY <2>2, <3>1, <3>2
  <2>4. Standing(tree', cwd, lost)
    BY <1>0, <2>3, StandsStill
  <2>5. QED BY <1>0, <2>1, <2>3, <2>4 DEF StorageInv
<1>8. ASSUME NEW w \in Typed.remove, Uninstall(w) PROVE StorageInv'
  <2> DEFINE files == IF w \in DOMAIN Repo THEN Repo[w] ELSE <<>>
             paths == Append(files, DbPath(w))
             u == FoldLeft(RemovePath, tree, paths)
  <2>1. w \in Words /\ Stranded
    BY <1>8, WordsTyped DEF Uninstall
  <2>2. tree' = tree \/ tree' = u
    BY <1>8 DEF Uninstall
  <2>3. Sound(tree') /\ Shrinks(tree, tree')
    <3>1. CASE tree' = tree
      BY <1>0, <3>1 DEF Shrinks
    <3>2. CASE tree' = u
      <4>1. DbPath(w) \in Seq(Words)
        BY <2>1, DbPathIs
      <4>2. files \in Seq(Seq(Words))
        <5>1. CASE w \in DOMAIN Repo
          <6>1. Repo[w] \in Seq(Seq(Words) \ {<<>>})
            BY <5>1, StorageAssumption
          <6>2. Repo[w] \in Seq(Seq(Words))
            BY <6>1
          <6>3. QED BY <5>1, <6>2
        <5>2. CASE w \notin DOMAIN Repo
          BY <5>2
        <5>3. QED BY <5>1, <5>2
      <4> HIDE DEF files
      <4>3. paths \in Seq(Seq(Words))
        BY <4>1, <4>2
      <4> HIDE DEF paths
      <4>4. Sound(u) /\ Shrinks(tree, u)
        BY <1>0, <4>3, RemovesIs
      <4> HIDE DEF u
      <4>5. QED BY <3>2, <4>4
    <3>3. QED BY <2>2, <3>1, <3>2
  <2>4. QED BY <1>5, <2>1, <2>3
<1>9. CASE UNCHANGED vars
  BY <1>9 DEF vars, StorageInv
<1>10. ASSUME NEW w \in Typed.mkdir, Make(w, "dir") PROVE StorageInv'
  BY <1>3, <1>10, WordsTyped
<1>11. ASSUME NEW w \in Typed.touch, Make(w, "file") PROVE StorageInv'
  BY <1>3, <1>11, WordsTyped
<1>12. CASE Next
  BY <1>1, <1>2, <1>4, <1>6, <1>7, <1>8, <1>10, <1>11, <1>12 DEF Next
<1>13. QED BY <1>9, <1>12

\* After any commands, of which any step may fail, the tree is sound, the names
\* in it are told apart and the working directory stands in it or is lost.
THEOREM StorageHolds == Spec => []StorageInv
<1>1. Init => StorageInv
  BY StorageInit
<1>2. StorageInv /\ [Next]_vars => StorageInv'
  BY StorageStep
<1>3. QED BY <1>1, <1>2, PTL DEF Spec

\* The tree has the types and bounds of its nodes, every text ends inside its
\* block, and a working directory that was not removed is a directory.
THEOREM StorageTyped == Spec => []TypeOK
<1>1. ASSUME StorageInv PROVE TypeOK
  <2>1. Sound(tree) /\ Standing(tree, cwd, lost)
    BY <1>1 DEF StorageInv
  <2>2. ASSUME NEW n \in Live(tree)
        PROVE  /\ tree[n].type \in {"dir", "file"} /\ tree[n].children \in Seq(Slots)
               /\ tree[n].text \in Texts \cup {NoText}
               /\ tree[n].text # NoText => Size[tree[n].text] < tree[n].cap
    BY <2>1, LiveNode DEF Sound, TextsFit
  <2>3. cwd \in Slots /\ (~lost => tree[cwd] # Free /\ tree[cwd].type = "dir")
    BY <2>1 DEF Standing, Live
  <2>4. QED BY <2>2, <2>3 DEF TypeOK
<1>2. QED BY <1>1, StorageHolds, PTL

\* However commands follow each other, with whatever names, a full heap or a
\* removed working directory: child lists and parents agree, nothing points to
\* a freed node and no node is leaked.
THEOREM TreeStaysSound == Spec => []TreeIsSound
<1>1. ASSUME StorageInv PROVE TreeIsSound
  <2>1. Sound(tree) /\ tree \in Trees
    BY <1>1 DEF StorageInv, Sound
  <2>2. tree[Root] # Free /\ tree[Root].parent = Null /\ Root \in Live(tree)
    BY <2>1 DEF Sound, RootIsDir, Live
  <2>3. ASSUME NEW d \in Live(tree), NEW i \in DOMAIN tree[d].children
        PROVE  /\ tree[d].type = "dir" /\ tree[d].children[i] \in Live(tree)
               /\ tree[tree[d].children[i]].parent = d
               /\ \A j \in DOMAIN tree[d].children :
                      tree[d].children[j] = tree[d].children[i] => j = i
    <3> DEFINE c == tree[d].children
    <3>1. c \in Seq(Slots) /\ Once(c)
      BY <2>1, LiveNode DEF Sound, Linked
    <3>2. DOMAIN c = 1..Len(c) /\ c[i] \in ToSet(c)
      BY <2>3, <3>1 DEF ToSet
    <3>3. c[i] \in Kids(tree, d)
      BY <3>2 DEF Kids
    <3>4. c[i] \in Live(tree) /\ tree[c[i]].parent = d /\ tree[d].type = "dir"
      BY <2>1, <3>3, KidIs
    <3>5. \A j \in DOMAIN c : c[j] = c[i] => j = i
      BY <2>3, <3>1, <3>2 DEF Once
    <3> HIDE DEF c
    <3>6. QED BY <3>4, <3>5 DEF c
  <2>4. Live(tree) = Subtree(tree, Root)
    <3>1. Below(tree, Root, Subtree(tree, Root))
      BY <2>1, <2>2, SubtreeIs
    <3>2. QED BY <2>1, <3>1 DEF Sound, Rooted, Below
  <2>5. QED BY <2>2, <2>3, <2>4 DEF TreeIsSound
<1>2. QED BY <1>1, StorageHolds, PTL

\* Two entries of a directory that have the same name were made with a name
\* that was cut: fs_create compares the whole name and keeps its beginning.
THEOREM NamesToldApart == Spec => []NamesTellApart
<1>1. ASSUME StorageInv PROVE NamesTellApart
  BY <1>1 DEF StorageInv, Sound, NamesApart, NamesTellApart
<1>2. QED BY <1>1, StorageHolds, PTL

-----------------------------------------------------------------------------
(* fs_abspath: the nodes it collects, and the way back along their names.    *)

\* What may have been collected: a chain from n upwards.
Chain(t, n, q) ==
    /\ \A i \in 1..Len(q) : q[i] \in Live(t) /\ q[i] # Root
    /\ Len(q) > 0 => q[1] = n
    /\ \A i \in 1..(Len(q) - 1) : q[i + 1] = t[q[i]].parent

Chains(t, n) == {q \in Seq(Slots) : Chain(t, n, q)}

LEMMA OneUpIs ==
    ASSUME NEW t, Sound(t), NEW n \in Live(t), NEW q \in Chains(t, n)
    PROVE  /\ OneUp(t, n, q) \in Chains(t, n)
           /\ q # <<>> \/ n # Root => OneUp(t, n, q) # <<>>
<1> DEFINE next == IF q = <<>> THEN n ELSE t[Last(q)].parent
           r == Append(q, next)
<1>0. q \in Seq(Slots) /\ Chain(t, n, q) /\ Len(q) \in Nat
  BY DEF Chains
<1>1. OneUp(t, n, q) = IF next \in {Null, Root} THEN q ELSE r
  BY DEF OneUp
<1>2. CASE next \in {Null, Root}
  <2>1. q # <<>> \/ n # Root => q # <<>>
    <3>1. n # Null
      BY SlotsAre DEF Live
    <3>2. QED BY <1>2, <3>1
  <2>2. QED BY <1>1, <1>2, <2>1
<1>3. CASE next \notin {Null, Root}
  <2>1. /\ q = <<>> => next = n
        /\ q # <<>> => /\ Len(q) > 0 /\ Last(q) = q[Len(q)]
                       /\ next = t[q[Len(q)]].parent
    BY <1>0 DEF Last
  <2>2. next \in Live(t) /\ next # Root
    <3>1. CASE q = <<>>
      BY <1>3, <2>1, <3>1
    <3>2. CASE q # <<>>
      <4>1. q[Len(q)] \in Live(t) /\ q[Len(q)] # Root
        BY <1>0, <2>1, <3>2 DEF Chain
      <4>2. t[q[Len(q)]].parent \in Live(t)
        BY <4>1, Hung
      <4>3. QED BY <1>3, <2>1, <3>2, <4>2
    <3>3. QED BY <3>1, <3>2
  <2>3. next \in Slots
    BY <2>2 DEF Live
  <2> HIDE DEF next
  <2>4. /\ r \in Seq(Slots) /\ Len(r) = Len(q) + 1
        /\ r[Len(q) + 1] = next /\ \A i \in 1..Len(q) : r[i] = q[i]
    BY <1>0, <2>3
  <2> HIDE DEF r
  <2>5. \A i \in 1..Len(r) : r[i] \in Live(t) /\ r[i] # Root
    BY <1>0, <2>2, <2>4 DEF Chain
  <2>6. r[1] = n
    <3>1. CASE q = <<>>
      <4>1. Len(q) = 0
        BY <3>1
      <4>2. QED BY <2>1, <2>4, <3>1, <4>1
    <3>2. CASE q # <<>>
      BY <1>0, <2>1, <2>4, <3>2 DEF Chain
    <3>3. QED BY <3>1, <3>2
  <2>7. ASSUME NEW i \in 1..(Len(r) - 1) PROVE r[i + 1] = t[r[i]].parent
    <3>1. i \in 1..Len(q) /\ r[i] = q[i]
      BY <1>0, <2>4
    <3>2. CASE i = Len(q)
      <4>1. q # <<>>
        BY <1>0, <3>1
      <4>2. QED BY <2>1, <2>4, <3>1, <3>2, <4>1
    <3>3. CASE i # Len(q)
      <4>1. i \in 1..(Len(q) - 1) /\ i + 1 \in 1..Len(q)
        BY <1>0, <3>1, <3>3
      <4>2. r[i + 1] = q[i + 1] /\ q[i + 1] = t[q[i]].parent
        BY <1>0, <2>4, <4>1 DEF Chain
      <4>3. QED BY <3>1, <4>2
    <3>4. QED BY <3>2, <3>3
  <2>8. r \in Chains(t, n)
    BY <2>4, <2>5, <2>6, <2>7 DEF Chains, Chain
  <2>9. r # <<>>
    BY <1>0, <2>4
  <2>10. QED BY <1>1, <1>3, <2>8, <2>9 DEF next
<1>4. QED BY <1>2, <1>3

LEMMA UpwardsIs ==
    ASSUME NEW t, Sound(t), NEW n \in Live(t)
    PROVE  Upwards(t, n) \in Chains(t, n) /\ (n # Root => Upwards(t, n) # <<>>)
<1> DEFINE N == PartsMax
           D == Chains(t, n)
           F == [p \in D \X Nat |-> OneUp(t, n, p[1])]
           Eq(f) == f = [k \in 0..N |-> IF k = 0 THEN <<>> ELSE OneUp(t, n, f[k - 1])]
           made == CHOOSE f : Eq(f)
<1>1. N \in Nat /\ N # 0
  BY RamFsAssumption
<1>2. Upwards(t, n) = made[PartsMax]
  BY Zenon DEF Upwards
<1>3. \A q \in D : OneUp(t, n, q) \in D
  BY OneUpIs
<1>4. F \in [D \X Nat -> D] /\ \A q \in D, k \in Nat : F[<<q, k>>] = OneUp(t, n, q)
  BY <1>3
<1>5. <<>> \in D
  BY DEF Chains, Chain
<1> HIDE DEF F, N, D
<1>6. PICK h \in [0..N -> D] : Recurs(h, N, <<>>, F)
  BY <1>1, <1>4, <1>5, RecursionUpTo
<1>7. h[0] = <<>> /\ \A k \in 1..N : h[k] = F[<<h[k - 1], k>>] /\ h[k - 1] \in D
  BY <1>1, <1>5, <1>6, RecursionSteps
<1>8. ASSUME NEW k \in 1..N PROVE h[k] = OneUp(t, n, h[k - 1])
  <2>1. k \in Nat /\ h[k - 1] \in D /\ h[k] = F[<<h[k - 1], k>>]
    BY <1>1, <1>7
  <2>2. QED BY <1>4, <2>1
<1>9. Eq(h)
  <2>1. \A k \in 0..N : h[k] = IF k = 0 THEN <<>> ELSE OneUp(t, n, h[k - 1])
    BY <1>1, <1>7, <1>8
  <2>2. h = [k \in 0..N |-> h[k]]
    OBVIOUS
  <2>3. QED BY <2>1, <2>2
<1>10. Eq(made)
  <2> HIDE DEF Eq
  <2>1. QED BY <1>9
<1>11. made[0] = <<>> /\ \A k \in 1..N : made[k] = OneUp(t, n, made[k - 1])
  <2>1. \A k \in 0..N : made[k] = IF k = 0 THEN <<>> ELSE OneUp(t, n, made[k - 1])
    <3> HIDE DEF made
    <3>1. QED BY <1>10
  <2> HIDE DEF Eq, made
  <2>2. QED BY <1>1, <2>1
<1> HIDE DEF Eq, made
<1> DEFINE S == {k \in 0..N : made[k] \in D /\ (k = 0 \/ n = Root \/ made[k] # <<>>)}
<1>12. 0 \in S
  <2>1. made[0] \in D
    BY <1>5, <1>11, Zenon
  <2>2. 0 \in 0..N
    BY <1>1
  <2>3. QED BY <2>1, <2>2
<1>13. ASSUME NEW k \in 0..(N - 1), k \in S PROVE k + 1 \in S
  <2>1. k + 1 \in 1..N /\ k + 1 \in 0..N /\ (k + 1) - 1 = k
    BY <1>1
  <2>2. made[k + 1] = OneUp(t, n, made[k]) /\ made[k] \in D
    BY <1>11, <1>13, <2>1
  <2>3. n # Root => OneUp(t, n, made[k]) # <<>>
    BY <2>2, OneUpIs DEF D
  <2>4. QED BY <1>3, <2>1, <2>2, <2>3
<1>14. N \in S
  <2>1. 0..N \subseteq S
    <3> HIDE DEF S
    <3>1. QED BY <1>1, <1>12, <1>13, InductionUpTo
  <2>2. N \in 0..N
    BY <1>1
  <2>3. QED BY <2>1, <2>2
<1>15. QED BY <1>1, <1>2, <1>14 DEF N, D

\* No other node of its directory has its name.
OnlyOne(t, m) == ~\E k \in Live(t) \ {m} : t[k].parent = t[m].parent /\ t[k].name = t[m].name

LEMMA StepFinds ==
    ASSUME NEW t, Sound(t), NEW m \in Live(t), m # Root, OnlyOne(t, m),
           t[m].name \notin {".", ".."}
    PROVE  Step(t, t[m].parent, t[m].name) = m
<1> DEFINE p == t[m].parent
           w == t[m].name
           k == FindChild(t, p, w)
<1>1. p \in Live(t) /\ m \in Kids(t, p) /\ p # Null
  BY Hung, SlotsAre DEF Live
<1>2. w # "." /\ w # ".."
  BY Zenon
<1> HIDE DEF w
<1>3. Step(t, p, w) = k
  BY <1>1, <1>2, Zenon DEF Step
<1>4. \/ k = Null /\ \A x \in Kids(t, p) : t[x].name # w
      \/ k \in Kids(t, p) /\ t[k].name = w
  BY <1>1, FindChildIs
<1>5. k \in Kids(t, p) /\ t[k].name = w
  BY <1>1, <1>4 DEF w
<1>6. k \in Live(t) /\ t[k].parent = p
  BY <1>1, <1>5, KidIs
<1>7. k = m
  BY <1>5, <1>6 DEF OnlyOne, w
<1>8. QED BY <1>3, <1>7 DEF w

\* A chain that ends below the root, and how it is walked back.
LEMMA WayBack ==
    ASSUME NEW t, Sound(t), NEW n \in Live(t), NEW q \in Chains(t, n), q # <<>>,
           t[q[Len(q)]].parent = Root,
           \A i \in 1..Len(q) : OnlyOne(t, q[i]) /\ t[q[i]].name \notin {".", ".."},
           NEW c, c = Reverse([i \in DOMAIN q |-> t[q[i]].name])
    PROVE  Walk(t, Root, c) = n
<1> DEFINE L == Len(q)
           W == {t[m].name : m \in Live(t)}
           names == [i \in DOMAIN q |-> t[q[i]].name]
<1>1. /\ q \in Seq(Slots) /\ L \in Nat /\ L # 0 /\ q[1] = n
      /\ \A i \in 1..L : q[i] \in Live(t) /\ q[i] # Root
      /\ \A i \in 1..(L - 1) : q[i + 1] = t[q[i]].parent
  BY DEF Chains, Chain
<1>2. /\ names \in Seq(W) /\ Len(names) = L
      /\ \A i \in 1..L : names[i] = t[q[i]].name
  <2>1. DOMAIN q = 1..L
    BY <1>1
  <2>2. \A i \in 1..L : t[q[i]].name \in W
    BY <1>1
  <2> HIDE DEF W
  <2>3. QED BY <1>1, <2>1, <2>2
<1> HIDE DEF names, W, L
<1>3. /\ c \in Seq(W) /\ Len(c) = L
      /\ \A i \in 1..L : c[i] = t[q[L + 1 - i]].name
  <2>1. c = [i \in 1..L |-> names[(L - i) + 1]]
    BY <1>2 DEF Reverse, names
  <2>2. \A i \in 1..L : (L - i) + 1 \in 1..L /\ (L - i) + 1 = L + 1 - i
    BY <1>1
  <2>3. \A i \in 1..L : names[(L - i) + 1] \in W
    BY <1>1, <1>2, <2>2
  <2>4. c \in Seq(W) /\ Len(c) = L
    <3>1. L \in Nat
      BY <1>1
    <3>2. c \in [1..L -> W]
      BY <2>1, <2>3, Zenon
    <3>3. QED BY <3>1, <3>2
  <2>5. ASSUME NEW i \in 1..L PROVE c[i] = t[q[L + 1 - i]].name
    <3> DEFINE j == (L - i) + 1
    <3>1. c[i] = names[j]
      BY <2>1
    <3>2. j \in 1..L /\ j = L + 1 - i
      BY <2>2
    <3> HIDE DEF j
    <3>3. QED BY <1>2, <3>1, <3>2
  <2>6. QED BY <2>4, <2>5
<1>4. Root \in Live(t)
  BY DEF Sound, RootIsDir
<1>5. PICK h : /\ h[0] = Root /\ h[Len(c)] = Walk(t, Root, c)
               /\ \A i \in 1..Len(c) : h[i] = Step(t, h[i - 1], c[i])
  <2>1. c \in Seq(W) /\ Root \in Live(t) \cup {Null}
    BY <1>3, <1>4
  <2>2. \E h : WalksAlong(t, Root, c, h)
    BY <2>1, WalkSteps, Zenon
  <2>3. QED BY <2>2, Zenon DEF WalksAlong
<1> DEFINE At(i) == IF i = 0 THEN Root ELSE q[L + 1 - i]
           S == {i \in 0..L : h[i] = At(i)}
<1>6. 0 \in S
  BY <1>1, <1>5
<1>7. ASSUME NEW i \in 0..(L - 1), i \in S PROVE i + 1 \in S
  <2> DEFINE m == q[L - i]
  <2>1. /\ i + 1 \in 1..L /\ i + 1 \in 0..L /\ (i + 1) - 1 = i
        /\ L + 1 - (i + 1) = L - i /\ L - i \in 1..L
    BY <1>1
  <2>2. m \in Live(t) /\ m # Root /\ OnlyOne(t, m) /\ t[m].name \notin {".", ".."}
    BY <1>1, <2>1 DEF L
  <2>3. t[m].parent = At(i)
    <3>1. CASE i = 0
      <4>1. L - i = L
        BY <1>1, <3>1
      <4>2. QED BY <3>1, <4>1 DEF L
    <3>2. CASE i # 0
      <4>1. L - i \in 1..(L - 1) /\ (L - i) + 1 = L + 1 - i
        BY <1>1, <3>2
      <4>2. QED BY <1>1, <3>2, <4>1
    <3>3. QED BY <3>1, <3>2
  <2>4. c[i + 1] = t[m].name
    BY <1>3, <2>1
  <2>5. h[i + 1] = Step(t, h[i], c[i + 1])
    BY <1>3, <1>5, <2>1
  <2>6. h[i] = t[m].parent
    BY <1>7, <2>3
  <2> HIDE DEF m
  <2>7. h[i + 1] = m
    BY <2>2, <2>4, <2>5, <2>6, StepFinds
  <2>8. At(i + 1) = m
    BY <2>1 DEF m
  <2>9. QED BY <2>1, <2>7, <2>8
<1>8. L \in S
  <2>1. 0..L \subseteq S
    <3> HIDE DEF S
    <3>1. QED BY <1>1, <1>6, <1>7, InductionUpTo
  <2>2. L \in 0..L
    BY <1>1
  <2>3. QED BY <2>1, <2>2
<1>9. h[L] = q[1]
  BY <1>1, <1>8
<1>10. QED BY <1>1, <1>3, <1>5, <1>9

-----------------------------------------------------------------------------
(* The buffer of fs_abspath.                                                 *)

\* What the buffer holds is a path of words, and how far it is filled.
Buffers == [path : Seq(Words), pos : Nat]
NothingYet == [path |-> <<>>, pos |-> 0]

LEMMA FillIs ==
    ASSUME NEW r \in Buffers, NEW w \in Words
    PROVE  /\ Fill(r, w) \in Buffers
           /\ r.pos + 1 + Length[w] < BufSize
                => Fill(r, w) = [path |-> Append(r.path, w), pos |-> r.pos + 1 + Length[w]]
<1> DEFINE room == BufSize - r.pos - 1
           whole == [path |-> Append(r.path, w), pos |-> r.pos + 1 + Length[w]]
           part == Append(r.path, Beginning[<<w, room - 1>>])
           cut == [path |-> IF room = 1 THEN r.path ELSE part, pos |-> r.pos + room]
<1>1. r.path \in Seq(Words) /\ r.pos \in Nat /\ Length[w] \in Nat /\ BufSize \in Nat
  BY RamFsAssumption DEF Buffers
<1>2. Fill(r, w) = IF room <= 0 THEN r ELSE IF Length[w] < room THEN whole ELSE cut
  <2>1. BufSize - r.pos - 1 - 0 = room
    BY <1>1
  <2> HIDE DEF room
  <2>2. QED BY <2>1, Zenon DEF Fill, Filled
<1>3. room \in Int
  BY <1>1
<1>4. whole \in Buffers
  BY <1>1 DEF Buffers
<1>5. ASSUME room > 0 PROVE cut \in Buffers
  <2>1. r.pos + room \in Nat /\ (room # 1 => room - 1 \in 1..BufSize)
    <3>1. \A b, p \in Nat, k \in Int :
            k = b - p - 1 /\ k > 0 => p + k \in Nat /\ (k # 1 => k - 1 \in 1..b)
      OBVIOUS
    <3>2. room = BufSize - r.pos - 1
      OBVIOUS
    <3> HIDE DEF room
    <3>3. QED BY <1>1, <1>3, <1>5, <3>1, <3>2
  <2>2. CASE room = 1
    <3>1. cut = [path |-> r.path, pos |-> r.pos + room]
      <4> HIDE DEF room, part
      <4>1. QED BY <2>2
    <3> HIDE DEF cut, room
    <3>2. QED BY <1>1, <2>1, <3>1 DEF Buffers
  <2>3. CASE room # 1
    <3>1. room - 1 \in 1..BufSize
      BY <2>1, <2>3
    <3>2. cut = [path |-> part, pos |-> r.pos + room]
      <4> HIDE DEF room, part
      <4>1. QED BY <2>3
    <3> HIDE DEF room
    <3>3. Beginning[<<w, room - 1>>] \in Words
      BY <3>1, RamFsAssumption
    <3>4. part \in Seq(Words)
      BY <1>1, <3>3
    <3> HIDE DEF part, cut
    <3>5. QED BY <2>1, <3>2, <3>4 DEF Buffers
  <2>4. QED BY <2>2, <2>3
<1>6. Fill(r, w) \in Buffers
  <2> HIDE DEF room, whole, cut
  <2>1. QED BY <1>2, <1>3, <1>4, <1>5
<1>7. r.pos + 1 + Length[w] < BufSize => room > 0 /\ Length[w] < room
  <2>1. \A b, p, l \in Nat : p + 1 + l < b => b - p - 1 > 0 /\ l < b - p - 1
    OBVIOUS
  <2>2. QED BY <1>1, <2>1
<1>8. QED
  <2> HIDE DEF room, cut
  <2>1. QED BY <1>2, <1>3, <1>6, <1>7

\* Measuring names, and writing them into the buffer, one after the other.
MeasuresAlong(names, h) ==
    /\ h[0] = 0 /\ h[Len(names)] = TextLength(names) /\ h[Len(names)] \in Nat
    /\ \A i \in 1..Len(names) : h[i] = h[i - 1] + 1 + Length[names[i]] /\ h[i - 1] \in Nat

LEMMA TextLengthSteps ==
    ASSUME NEW names \in Seq(Words)
    PROVE  \E h : MeasuresAlong(names, h)
<1> DEFINE N == Len(names)
           A == 1..N
           F == [p \in Nat \X A |-> p[1] + 1 + Length[names[p[2]]]]
           Eq(f) == f = [s \in SUBSET A |->
                            IF s = {} THEN 0 ELSE f[s \ {Greatest(s)}] + 1 + Length[names[Greatest(s)]]]
           iter == CHOOSE f : Eq(f)
<1>1. N \in Nat /\ DOMAIN names = A /\ A = 1..N /\ \A i \in A : Length[names[i]] \in Nat
  BY RamFsAssumption
<1> HIDE DEF N, A
<1>2. F \in [Nat \X A -> Nat] /\ \A x \in Nat, i \in A : F[<<x, i>>] = x + 1 + Length[names[i]]
  BY <1>1
<1> HIDE DEF F
<1>3. \A s \in SUBSET A : s # {} => Greatest(s) \in A
  BY <1>1, InitialSegments
<1>4. Eq(iter)
  <2>1. PICK f \in [SUBSET A -> Nat] : IsSeqFold(f, A, 0, F)
    BY <1>1, <1>2, SeqFoldsExist
  <2>2. ASSUME NEW s \in SUBSET A, s # {}
        PROVE  F[<<f[s \ {Greatest(s)}], Greatest(s)>>]
                    = f[s \ {Greatest(s)}] + 1 + Length[names[Greatest(s)]]
    <3>1. f[s \ {Greatest(s)}] \in Nat
      OBVIOUS
    <3>2. QED BY <1>2, <1>3, <2>2, <3>1
  <2>3. Eq(f)
    BY <2>1, <2>2 DEF IsSeqFold
  <2>4. QED
    <3> HIDE DEF Eq
    <3>1. QED BY <2>3
<1>5. TextLength(names) = iter[A]
  BY <1>1, Zenon DEF TextLength, FoldLeft, MapThenFoldSet, Max, Greatest
<1> HIDE DEF iter
<1>6. iter[{}] = 0
  BY <1>4
<1>7. ASSUME NEW s \in SUBSET A, s # {}, iter[s \ {Greatest(s)}] \in Nat
      PROVE  iter[s] = F[<<iter[s \ {Greatest(s)}], Greatest(s)>>]
  <2>1. iter[s] = iter[s \ {Greatest(s)}] + 1 + Length[names[Greatest(s)]]
    BY <1>4, <1>7
  <2>2. QED BY <1>2, <1>3, <1>7, <2>1
<1> HIDE DEF Eq
<1>8. iter[A] \in Nat /\ \E h : Reaches(h, N, Nat, 0, F, iter[A])
  <2>1. FoldsAs(iter, N, A, Nat, 0, F)
    BY <1>1, <1>2, <1>6, <1>7 DEF FoldsAs
  <2>2. QED BY <2>1, FoldReaches
<1>9. PICK h : Reaches(h, N, Nat, 0, F, iter[A])
  BY <1>8
<1>10. /\ h[0] = 0 /\ h[N] = iter[A]
       /\ \A i \in 1..N : h[i] = F[<<h[i - 1], i>>] /\ h[i - 1] \in Nat
  BY <1>9 DEF Reaches
<1>11. \A i \in 1..N : h[i] = h[i - 1] + 1 + Length[names[i]]
  BY <1>1, <1>2, <1>10
<1>12. MeasuresAlong(names, h)
  BY <1>5, <1>8, <1>10, <1>11 DEF MeasuresAlong, N
<1>13. QED BY <1>12

FillsAlong(names, h) ==
    /\ h[0] = NothingYet /\ h[Len(names)] = FoldLeft(Fill, NothingYet, names)
    /\ \A i \in 1..Len(names) : h[i] = Fill(h[i - 1], names[i]) /\ h[i - 1] \in Buffers

LEMMA FillSteps ==
    ASSUME NEW names \in Seq(Words)
    PROVE  \E h : FillsAlong(names, h)
<1> DEFINE N == Len(names)
           A == 1..N
           D == Buffers
           F == [p \in D \X A |-> Fill(p[1], names[p[2]])]
           Eq(f) == f = [s \in SUBSET A |->
                            IF s = {} THEN NothingYet
                            ELSE Fill(f[s \ {Greatest(s)}], names[Greatest(s)])]
           iter == CHOOSE f : Eq(f)
<1>1. N \in Nat /\ DOMAIN names = A /\ A = 1..N /\ \A i \in A : names[i] \in Words
  OBVIOUS
<1> HIDE DEF N, A
<1>2. ASSUME NEW x \in D, NEW i \in A PROVE Fill(x, names[i]) \in D
  BY <1>1, FillIs
<1>3. F \in [D \X A -> D] /\ \A x \in D, i \in A : F[<<x, i>>] = Fill(x, names[i])
  BY <1>2
<1>4. NothingYet \in D
  BY DEF NothingYet, Buffers
<1> HIDE DEF F, D
<1>5. \A s \in SUBSET A : s # {} => Greatest(s) \in A
  BY <1>1, InitialSegments
<1>6. Eq(iter)
  <2>1. PICK f \in [SUBSET A -> D] : IsSeqFold(f, A, NothingYet, F)
    BY <1>1, <1>3, <1>4, SeqFoldsExist
  <2>2. ASSUME NEW s \in SUBSET A, s # {}
        PROVE  F[<<f[s \ {Greatest(s)}], Greatest(s)>>] = Fill(f[s \ {Greatest(s)}], names[Greatest(s)])
    <3>1. f[s \ {Greatest(s)}] \in D
      OBVIOUS
    <3>2. QED BY <1>3, <1>5, <2>2, <3>1
  <2>3. Eq(f)
    BY <2>1, <2>2 DEF IsSeqFold
  <2>4. QED
    <3> HIDE DEF Eq
    <3>1. QED BY <2>3
<1>7. FoldLeft(Fill, NothingYet, names) = iter[A]
  BY <1>1, Zenon DEF FoldLeft, MapThenFoldSet, Max, Greatest
<1> HIDE DEF iter
<1>8. iter[{}] = NothingYet
  BY <1>6
<1>9. ASSUME NEW s \in SUBSET A, s # {}, iter[s \ {Greatest(s)}] \in D
      PROVE  iter[s] = F[<<iter[s \ {Greatest(s)}], Greatest(s)>>]
  <2>1. iter[s] = Fill(iter[s \ {Greatest(s)}], names[Greatest(s)])
    BY <1>6, <1>9
  <2>2. QED BY <1>3, <1>5, <1>9, <2>1
<1> HIDE DEF Eq
<1>10. \E h : Reaches(h, N, D, NothingYet, F, iter[A])
  <2>1. FoldsAs(iter, N, A, D, NothingYet, F)
    BY <1>1, <1>3, <1>4, <1>8, <1>9 DEF FoldsAs
  <2>2. QED BY <2>1, FoldReaches
<1>11. PICK h : Reaches(h, N, D, NothingYet, F, iter[A])
  BY <1>10
<1>12. /\ h[0] = NothingYet /\ h[N] = iter[A]
       /\ \A i \in 1..N : h[i] = F[<<h[i - 1], i>>] /\ h[i - 1] \in D
  BY <1>11 DEF Reaches
<1>13. \A i \in 1..N : h[i] = Fill(h[i - 1], names[i])
  BY <1>1, <1>3, <1>12
<1>14. FillsAlong(names, h)
  BY <1>7, <1>12, <1>13 DEF FillsAlong, N, D
<1>15. QED BY <1>14

\* Names that fit are all written.
LEMMA PathFits ==
    ASSUME NEW names \in Seq(Words), TextLength(names) < BufSize
    PROVE  FoldLeft(Fill, NothingYet, names).path = names
<1> DEFINE L == Len(names)
<1>1. L \in Nat /\ \A i \in 1..L : names[i] \in Words /\ Length[names[i]] \in Nat
  BY RamFsAssumption
<1>2. PICK g : MeasuresAlong(names, g)
  BY TextLengthSteps
<1>3. PICK h : FillsAlong(names, h)
  BY FillSteps
<1>4. /\ g[0] = 0 /\ g[L] < BufSize /\ g[L] \in Nat
      /\ \A i \in 1..L : g[i] = g[i - 1] + 1 + Length[names[i]] /\ g[i - 1] \in Nat
  BY <1>2 DEF MeasuresAlong
<1>5. /\ h[0] = NothingYet /\ h[L] = FoldLeft(Fill, NothingYet, names)
      /\ \A i \in 1..L : h[i] = Fill(h[i - 1], names[i]) /\ h[i - 1] \in Buffers
  BY <1>3 DEF FillsAlong
<1>6. BufSize \in Nat
  BY RamFsAssumption
<1> HIDE DEF L
\* From the end down, every part of the way fits.
<1>7. \A i \in 0..L : g[i] < BufSize /\ g[i] \in Nat
  <2> DEFINE S == {i \in 0..L : g[L - i] < BufSize /\ g[L - i] \in Nat}
  <2>1. 0 \in S
    BY <1>1, <1>4
  <2>2. ASSUME NEW i \in 0..(L - 1), i \in S PROVE i + 1 \in S
    <3> DEFINE j == L - i
    <3>1. j \in 1..L /\ L - (i + 1) = j - 1 /\ i + 1 \in 0..L
      BY <1>1
    <3>2. g[j] < BufSize /\ g[j] \in Nat
      BY <2>2
    <3> HIDE DEF j
    <3>3. g[j] = g[j - 1] + 1 + Length[names[j]] /\ g[j - 1] \in Nat /\ Length[names[j]] \in Nat
      BY <1>1, <1>4, <3>1
    <3>4. g[j - 1] < BufSize
      <4>1. \A x, y, l, z \in Nat : x = y + 1 + l /\ x < z => y < z
        OBVIOUS
      <4>2. QED BY <1>6, <3>2, <3>3, <4>1
    <3>5. QED BY <3>1, <3>3, <3>4
  <2> HIDE DEF S
  <2>3. 0..L \subseteq S
    BY <1>1, <2>1, <2>2, InductionUpTo
  <2>4. ASSUME NEW i \in 0..L PROVE g[i] < BufSize /\ g[i] \in Nat
    <3>1. L - i \in S /\ L - (L - i) = i
      BY <1>1, <2>3
    <3>2. QED BY <3>1 DEF S
  <2>5. QED BY <2>4
<1> DEFINE T == {i \in 0..L : h[i] = [path |-> SubSeq(names, 1, i), pos |-> g[i]]}
<1>8. 0 \in T
  <2>1. SubSeq(names, 1, 0) = <<>>
    OBVIOUS
  <2>2. QED BY <1>1, <1>4, <1>5, <2>1 DEF NothingYet
<1>9. ASSUME NEW i \in 0..(L - 1), i \in T PROVE i + 1 \in T
  <2> DEFINE a == SubSeq(names, 1, i)
             w == names[i + 1]
  <2>1. i + 1 \in 1..L /\ i + 1 \in 0..L /\ (i + 1) - 1 = i
    BY <1>1
  <2>2. h[i] = [path |-> a, pos |-> g[i]] /\ h[i] \in Buffers /\ h[i + 1] = Fill(h[i], w)
    BY <1>5, <1>9, <2>1
  <2>3. g[i + 1] = g[i] + 1 + Length[w] /\ g[i + 1] < BufSize /\ w \in Words
    BY <1>1, <1>4, <1>7, <2>1
  <2>4. Append(a, w) = SubSeq(names, 1, i + 1)
    BY <1>1, <2>1 DEF L
  <2> HIDE DEF a, w
  <2>5. h[i].path = a /\ h[i].pos = g[i]
    BY <2>2
  <2>6. Fill(h[i], w) = [path |-> Append(h[i].path, w), pos |-> h[i].pos + 1 + Length[w]]
    BY <2>2, <2>3, <2>5, FillIs
  <2>7. QED BY <2>1, <2>2, <2>3, <2>4, <2>5, <2>6
<1>10. L \in T
  <2> HIDE DEF T
  <2>1. L \in Nat
    BY <1>1
  <2>2. 0..L \subseteq T
    BY <1>8, <1>9, <2>1, InductionUpTo
  <2>3. QED BY <2>1, <2>2
<1>11. SubSeq(names, 1, L) = names
  BY <1>1 DEF L
<1>12. QED BY <1>5, <1>10, <1>11

LEMMA RootLeadsBack ==
    ASSUME NEW t, Sound(t) PROVE Walk(t, Root, AbsPath(t, Root)) = Root
<1>1. Root \in Live(t)
  BY DEF Sound, RootIsDir
<1> DEFINE q == Upwards(t, Root)
<1>2. q \in Chains(t, Root)
  BY <1>1, UpwardsIs
<1>3. Names(t, Root) = Reverse([i \in DOMAIN q |-> t[q[i]].name])
  BY DEF Names
<1> HIDE DEF q
<1>4. q = <<>>
  <2>1. q \in Seq(Slots) /\ Len(q) \in Nat
    BY <1>2 DEF Chains
  <2>2. ~(Len(q) > 0)
    BY <1>2, <2>1 DEF Chains, Chain
  <2>3. QED BY <2>1, <2>2
<1>5. Names(t, Root) = <<>>
  <2>1. [i \in DOMAIN q |-> t[q[i]].name] = <<>>
    BY <1>4
  <2>2. QED BY <1>3, <2>1 DEF Reverse
<1>6. AbsPath(t, Root) = <<>>
  <2>1. <<>> \in Seq(Words) /\ Len(<<>>) = 0
    OBVIOUS
  <2>2. PICK h : FillsAlong(<<>>, h)
    BY <2>1, FillSteps
  <2>3. FoldLeft(Fill, NothingYet, <<>>) = NothingYet
    BY <2>1, <2>2, Zenon DEF FillsAlong
  <2>4. AbsPath(t, Root) = FoldLeft(Fill, NothingYet, Names(t, Root)).path
    BY Zenon DEF AbsPath, NothingYet
  <2>5. AbsPath(t, Root) = NothingYet.path
    BY <1>5, <2>3, <2>4, Zenon
  <2>6. QED BY <2>5 DEF NothingYet
<1>7. <<>> \in Seq(Slots) /\ Len(<<>>) = 0
  OBVIOUS
<1>8. PICK h : h[0] = Root /\ h[Len(<<>>)] = Walk(t, Root, <<>>)
  <2>1. <<>> \in Seq(Slots) /\ Root \in Live(t) \cup {Null}
    BY <1>1
  <2>2. \E h : WalksAlong(t, Root, <<>>, h)
    BY <2>1, WalkSteps, Zenon
  <2>3. QED BY <2>2, Zenon DEF WalksAlong
<1>9. QED BY <1>6, <1>7, <1>8

\* The names on the way down, when each of them is a word.
LEMMA NamesAre ==
    ASSUME NEW t, NEW n, NEW q \in Seq(Slots), q = Upwards(t, n),
           \A i \in 1..Len(q) : t[q[i]].name \in Words
    PROVE  /\ Names(t, n) \in Seq(Words)
           /\ Names(t, n) = Reverse([i \in DOMAIN q |-> t[q[i]].name])
<1> DEFINE L == Len(q)
           names == [i \in DOMAIN q |-> t[q[i]].name]
<1>1. Names(t, n) = Reverse(names)
  BY DEF Names
<1>2. L \in Nat /\ DOMAIN q = 1..L
  OBVIOUS
<1>3. names \in Seq(Words) /\ Len(names) = L
  BY <1>2
<1> HIDE DEF names, L
<1>4. Reverse(names) = [i \in 1..L |-> names[(L - i) + 1]]
  BY <1>3 DEF Reverse
<1>5. \A i \in 1..L : names[(L - i) + 1] \in Words
  BY <1>2, <1>3
<1>6. Reverse(names) \in Seq(Words)
  <2>1. Reverse(names) \in [1..L -> Words]
    BY <1>4, <1>5, Zenon
  <2>2. QED BY <1>2, <2>1
<1>7. QED BY <1>1, <1>6 DEF names

\* The path that the prompt and pwd show leads back to the node: a node whose
\* path fs_abspath can hold, in its parts and in its buffer, and on whose way
\* every name is one the walker takes as it is and the only one of its kind in
\* its directory.
THEOREM PathsLeadBack == Spec => []PathRoundTrip
<1>1. ASSUME StorageInv PROVE PathRoundTrip
  <2>1. Sound(tree)
    BY <1>1 DEF StorageInv
  <2> DEFINE Q(n) == Upwards(tree, n)
  <2>2. ASSUME NEW n \in Live(tree),
               \A m \in ToSet(Q(n)) : Plain(tree[m].name) /\ OnlyOne(tree, m),
               n = Root \/ tree[Last(Q(n))].parent = Root,
               TextLength(Names(tree, n)) < BufSize
        PROVE  Walk(tree, Root, AbsPath(tree, n)) = n
    <3> DEFINE q == Q(n)
               c == AbsPath(tree, n)
    <3>1. CASE n = Root
      BY <2>1, <3>1, RootLeadsBack
    <3>2. CASE n # Root
      <4>1. q \in Chains(tree, n) /\ q # <<>> /\ q \in Seq(Slots)
        BY <2>1, <3>2, UpwardsIs DEF Chains
      <4>2. tree[q[Len(q)]].parent = Root
        BY <2>2, <3>2 DEF Last
      <4>3. \A m \in ToSet(q) : Plain(tree[m].name) /\ OnlyOne(tree, m)
        BY <2>2
      <4>4. q = Upwards(tree, n)
        OBVIOUS
      <4> HIDE DEF q
      <4>5. ASSUME NEW i \in 1..Len(q)
            PROVE  /\ OnlyOne(tree, q[i]) /\ tree[q[i]].name \notin {".", ".."}
                   /\ tree[q[i]].name \in Words
        <5>1. q[i] \in ToSet(q)
          BY <4>1, MembersIs
        <5>2. Plain(tree[q[i]].name) /\ OnlyOne(tree, q[i])
          BY <4>3, <5>1
        <5>3. QED BY <5>2 DEF Plain
      <4>6. /\ Names(tree, n) \in Seq(Words)
            /\ Names(tree, n) = Reverse([i \in DOMAIN q |-> tree[q[i]].name])
        BY <4>1, <4>4, <4>5, NamesAre
      <4>7. c = Names(tree, n)
        <5>1. FoldLeft(Fill, NothingYet, Names(tree, n)).path = Names(tree, n)
          BY <2>2, <4>6, PathFits
        <5>2. QED BY <5>1, Zenon DEF AbsPath, NothingYet
      <4> HIDE DEF c
      <4>8. c = Reverse([i \in DOMAIN q |-> tree[q[i]].name])
        BY <4>6, <4>7
      <4>9. Walk(tree, Root, c) = n
        BY <2>1, <4>1, <4>2, <4>5, <4>8, WayBack
      <4>10. QED BY <4>9 DEF c
    <3>3. QED BY <3>1, <3>2
  <2>3. QED BY <2>2 DEF PathRoundTrip, OnlyOne
<1>2. QED BY <1>1, StorageHolds, PTL
-----------------------------------------------------------------------------
(* What the removal of a package takes away.                                 *)

\* A name that the walker takes as it is, and that no longer one is cut to.
Clear(w) == w \notin {".", ".."} /\ \A v \in Words : Stored[v] = w => v = w

Named(path) ==
    path \in Seq(Words) \ {<<>>} /\ \A i \in 1..Len(path) : Clear(path[i])

\* Such a name is found once or not at all.
LEMMA StepDown ==
    ASSUME NEW t, Sound(t), NEW d \in Live(t), NEW w, Clear(w)
    PROVE  \/ Step(t, d, w) = Null /\ \A x \in Kids(t, d) : t[x].name # w
           \/ /\ Step(t, d, w) \in Kids(t, d) /\ t[Step(t, d, w)].name = w
              /\ \A x \in Kids(t, d) : t[x].name = w => x = Step(t, d, w)
<1> DEFINE k == FindChild(t, d, w)
<1>1. Step(t, d, w) = k
  <2>1. d # Null
    BY SlotsAre DEF Live
  <2>2. w # "." /\ w # ".."
    BY Zenon DEF Clear
  <2>3. QED BY <2>1, <2>2, Zenon DEF Step
<1>2. \/ k = Null /\ \A x \in Kids(t, d) : t[x].name # w
      \/ k \in Kids(t, d) /\ t[k].name = w
  BY FindChildIs
<1> HIDE DEF k
<1>3. ASSUME k \in Kids(t, d), t[k].name = w, NEW x \in Kids(t, d), t[x].name = w PROVE x = k
  <2>1. x \in Live(t) /\ k \in Live(t) /\ t[x].parent = t[k].parent
    BY <1>3, KidIs
  <2>2. ~\E v \in Words : Stored[v] # v /\ Stored[v] = w
    BY DEF Clear
  <2>3. QED BY <1>3, <2>1, <2>2 DEF Sound, NamesApart
<1>4. QED BY <1>1, <1>2, <1>3

\* What is left of a step or a walk when the nodes of G are freed.
Left(a, G) == IF a \in G \cup {Null} THEN Null ELSE a

\* A step that led to a freed node leads nowhere, any other where it led.
LEMMA StepPruned ==
    ASSUME NEW t, NEW u, NEW n, NEW G, Pruned(t, u, n, G),
           NEW a \in Live(t) \cup {Null}, NEW w, Clear(w)
    PROVE  Step(u, Left(a, G), w) = Left(Step(t, a, w), G)
<1>1. /\ Sound(t) /\ Sound(u) /\ Closed(t, G) /\ G \subseteq Live(t)
      /\ Live(u) = Live(t) \ G
      /\ \A m \in Live(u) : u[m].name = t[m].name /\ Kids(u, m) = Kids(t, m) \ G
  <2>1. Sound(t) /\ Closed(t, G) /\ G \subseteq Live(t)
    BY Zenon DEF Pruned, Below
  <2>2. Sound(u)
    BY PrunedIsSound
  <2>3. /\ Live(u) = Live(t) \ G
        /\ \A m \in Live(u) : Same(t[m], u[m]) /\ Kids(u, m) = Kids(t, m) \ G
    BY DEF Pruned
  <2>4. QED BY <2>1, <2>2, <2>3 DEF Same
<1>2. Null \notin G /\ \A v : Step(t, Null, v) = Null /\ Step(u, Null, v) = Null
  BY <1>1, SlotsAre DEF Live, Step
<1>3. CASE a = Null
  BY <1>2, <1>3 DEF Left
<1>4. CASE a \in G
  <2>1. Kids(t, a) \subseteq G
    BY <1>1, <1>4 DEF Closed
  <2>2. Step(t, a, w) \in Kids(t, a) \cup {Null}
    BY <1>1, <1>4, StepDown
  <2>3. QED BY <1>2, <1>4, <2>1, <2>2 DEF Left
<1>5. CASE a \notin G /\ a # Null
  <2> DEFINE x == Step(t, a, w)
             y == Step(u, a, w)
  <2>1. a \in Live(t) /\ a \in Live(u) /\ Left(a, G) = a
    BY <1>1, <1>5 DEF Left
  <2>2. \/ x = Null /\ \A k \in Kids(t, a) : t[k].name # w
        \/ /\ x \in Kids(t, a) /\ t[x].name = w
           /\ \A k \in Kids(t, a) : t[k].name = w => k = x
    BY <1>1, <2>1, StepDown
  <2>3. \/ y = Null /\ \A k \in Kids(u, a) : u[k].name # w
        \/ y \in Kids(u, a) /\ u[y].name = w
    BY <1>1, <2>1, StepDown
  <2>4. \A k \in Kids(u, a) : k \in Live(u) /\ u[k].name = t[k].name /\ k \in Kids(t, a) /\ k \notin G
    BY <1>1, <2>1, KidIs
  <2>5. \A k \in Kids(t, a) : k \notin G => k \in Kids(u, a)
    BY <1>1, <2>1
  <2> HIDE DEF x, y
  <2>6. y = Left(x, G)
    BY <1>2, <2>2, <2>3, <2>4, <2>5 DEF Left
  <2>7. QED BY <2>1, <2>6 DEF x, y
<1>6. QED BY <1>3, <1>4, <1>5

\* So does a walk from the root, which is never freed.
LEMMA WalkPruned ==
    ASSUME NEW t, NEW u, NEW n, NEW G, Pruned(t, u, n, G), NEW path, Named(path)
    PROVE  Walk(u, Root, path) = Left(Walk(t, Root, path), G)
<1> DEFINE N == Len(path)
<1>1. /\ Sound(t) /\ Sound(u) /\ Root \in Live(t) /\ Root \in Live(u) /\ Root \notin G
      /\ path \in Seq(Words) /\ N \in Nat /\ \A i \in 1..N : Clear(path[i])
  <2>1. Sound(t) /\ n \in Live(t) /\ n # Root /\ Below(t, n, G)
    BY Zenon DEF Pruned
  <2>2. Sound(u)
    BY PrunedIsSound
  <2>3. Root \in Live(t) /\ Root \in Live(u)
    BY <2>1, <2>2 DEF Sound, RootIsDir
  <2>4. Root \notin G
    BY <2>1, BelowIs
  <2>5. path \in Seq(Words) /\ N \in Nat /\ \A i \in 1..N : Clear(path[i])
    BY DEF Named
  <2>6. QED BY <2>1, <2>2, <2>3, <2>4, <2>5
<1>2. PICK a : WalksAlong(t, Root, path, a)
  BY <1>1, WalkSteps
<1>3. PICK b : WalksAlong(u, Root, path, b)
  BY <1>1, WalkSteps
<1>4. /\ a[0] = Root /\ a[N] = Walk(t, Root, path) /\ \A i \in 1..N : a[i] = Step(t, a[i - 1], path[i])
      /\ b[0] = Root /\ b[N] = Walk(u, Root, path) /\ \A i \in 1..N : b[i] = Step(u, b[i - 1], path[i])
  BY <1>2, <1>3 DEF WalksAlong
<1> HIDE DEF N
<1> DEFINE S == {i \in 0..N : a[i] \in Live(t) \cup {Null} /\ b[i] = Left(a[i], G)}
<1>5. 0 \in S
  BY <1>1, <1>4, SlotsAre DEF Left
<1>6. ASSUME NEW i \in 0..(N - 1), i \in S PROVE i + 1 \in S
  <2>1. i + 1 \in 1..N /\ i + 1 \in 0..N /\ (i + 1) - 1 = i
    BY <1>1
  <2>2. a[i + 1] = Step(t, a[i], path[i + 1]) /\ b[i + 1] = Step(u, b[i], path[i + 1]) /\ Clear(path[i + 1])
    BY <1>1, <1>4, <2>1
  <2>3. a[i] \in Live(t) \cup {Null} /\ b[i] = Left(a[i], G)
    BY <1>6
  <2>4. a[i + 1] \in Live(t) \cup {Null}
    BY <1>1, <2>2, <2>3, StepIs
  <2>5. b[i + 1] = Left(a[i + 1], G)
    BY <2>2, <2>3, StepPruned
  <2>6. QED BY <2>1, <2>4, <2>5
<1>7. N \in S
  <2>1. 0..N \subseteq S
    <3> HIDE DEF S
    <3>1. QED BY <1>1, <1>5, <1>6, InductionUpTo
  <2>2. QED BY <1>1, <2>1
<1>8. QED BY <1>4, <1>7

\* A walk that arrives goes down from parent to child, by the names of the path.
Descends(t, path, a) ==
    /\ a[0] = Root
    /\ \A i \in 1..Len(path) :
          /\ a[i] \in Live(t) /\ a[i] # Root
          /\ t[a[i]].parent = a[i - 1] /\ t[a[i]].name = path[i]

LEMMA WalkDescends ==
    ASSUME NEW t, Sound(t), NEW path, Named(path), Walk(t, Root, path) # Null
    PROVE  \E a : Descends(t, path, a) /\ a[Len(path)] = Walk(t, Root, path)
<1> DEFINE N == Len(path)
<1>1. /\ Root \in Live(t)
      /\ path \in Seq(Words) /\ N \in Nat /\ \A i \in 1..N : Clear(path[i])
  BY DEF Sound, RootIsDir, Named
<1>2. PICK a : WalksAlong(t, Root, path, a)
  BY <1>1, WalkSteps
<1>3. a[0] = Root /\ a[N] = Walk(t, Root, path) /\ \A i \in 1..N : a[i] = Step(t, a[i - 1], path[i])
  BY <1>2 DEF WalksAlong
<1> HIDE DEF N
<1>4. \A w : Step(t, Null, w) = Null
  BY DEF Step
<1> DEFINE S == {j \in 0..N : a[N - j] # Null}
           U == {i \in 0..N : a[i] \in Live(t) \cup {Null}}
<1>5. 0 \in S
  BY <1>1, <1>3
<1>6. ASSUME NEW j \in 0..(N - 1), j \in S PROVE j + 1 \in S
  <2>1. j + 1 \in 0..N /\ N - j \in 1..N /\ (N - j) - 1 = N - (j + 1)
    BY <1>1
  <2>2. a[N - j] = Step(t, a[N - (j + 1)], path[N - j])
    BY <1>3, <2>1
  <2>3. QED BY <1>4, <1>6, <2>1, <2>2
<1>7. 0..N \subseteq S
  <2> HIDE DEF S
  <2>1. QED BY <1>1, <1>5, <1>6, InductionUpTo
<1>8. ASSUME NEW i \in 0..N PROVE a[i] # Null
  <2>1. N - i \in 0..N /\ N - (N - i) = i
    BY <1>1
  <2>2. QED BY <1>7, <2>1
<1>9. 0 \in U
  BY <1>1, <1>3
<1>10. ASSUME NEW i \in 0..(N - 1), i \in U PROVE i + 1 \in U
  <2>1. i + 1 \in 1..N /\ i + 1 \in 0..N /\ (i + 1) - 1 = i
    BY <1>1
  <2>2. a[i + 1] = Step(t, a[i], path[i + 1]) /\ a[i] \in Live(t) \cup {Null}
    BY <1>3, <1>10, <2>1
  <2>3. QED BY <2>1, <2>2, StepIs
<1>11. 0..N \subseteq U
  <2> HIDE DEF U
  <2>1. QED BY <1>1, <1>9, <1>10, InductionUpTo
<1>12. ASSUME NEW i \in 1..N
       PROVE  /\ a[i] \in Live(t) /\ a[i] # Root
              /\ t[a[i]].parent = a[i - 1] /\ t[a[i]].name = path[i]
  <2>1. i - 1 \in 0..N /\ i \in 0..N
    BY <1>1
  <2>2. a[i - 1] \in Live(t) /\ a[i] # Null
    BY <1>8, <1>11, <2>1
  <2>3. a[i] = Step(t, a[i - 1], path[i]) /\ Clear(path[i])
    BY <1>1, <1>3
  <2>4. a[i] \in Kids(t, a[i - 1]) /\ t[a[i]].name = path[i]
    BY <2>2, <2>3, StepDown
  <2>5. QED BY <2>2, <2>4, KidIs
<1>13. QED BY <1>3, <1>12 DEF Descends, N

\* Two ways down that meet are the same way.
Meet(t, x, a, y, b, k) ==
    /\ Descends(t, x, a) /\ Descends(t, y, b)
    /\ Len(x) \in Nat /\ Len(y) \in Nat /\ k \in 0..Len(y) /\ a[Len(x)] = b[k]

LEMMA SameWay ==
    ASSUME NEW t, NEW x, NEW a, NEW y, NEW b, NEW k, Meet(t, x, a, y, b, k)
    PROVE  k = Len(x) /\ \A i \in 1..k : x[i] = y[i]
<1> DEFINE j == Len(x)
           l == Len(y)
           S == {m \in 0..j : m <= k /\ a[j - m] = b[k - m]}
<1>1. /\ j \in Nat /\ l \in Nat /\ k \in 0..l /\ k \in Nat /\ a[j] = b[k]
      /\ a[0] = Root /\ b[0] = Root
      /\ \A i \in 1..j : a[i] # Root /\ t[a[i]].parent = a[i - 1] /\ t[a[i]].name = x[i]
      /\ \A i \in 1..l : b[i] # Root /\ t[b[i]].parent = b[i - 1] /\ t[b[i]].name = y[i]
  BY DEF Meet, Descends
<1> HIDE DEF j, l
<1>2. 0 \in S
  BY <1>1
<1>3. ASSUME NEW m \in 0..(j - 1), m \in S PROVE m + 1 \in S
  <2>1. m <= k /\ a[j - m] = b[k - m] /\ j - m \in 1..j /\ m \in Nat
    BY <1>1, <1>3
  <2>2. k - m # 0
    BY <1>1, <2>1
  <2>3. k - m \in 1..l /\ m + 1 <= k
    BY <1>1, <2>1, <2>2
  <2>4. a[(j - m) - 1] = b[(k - m) - 1]
    BY <1>1, <2>1, <2>3
  <2>5. (j - m) - 1 = j - (m + 1) /\ (k - m) - 1 = k - (m + 1) /\ m + 1 \in 0..j
    BY <1>1, <1>3
  <2>6. QED BY <2>3, <2>4, <2>5
<1>4. 0..j \subseteq S
  <2> HIDE DEF S
  <2>1. QED BY <1>1, <1>2, <1>3, InductionUpTo
<1>5. k = j
  <2>1. j \in S
    BY <1>1, <1>4
  <2>2. j <= k /\ b[k - j] = Root
    <3>1. j - j = 0
      BY <1>1
    <3>2. QED BY <1>1, <2>1, <3>1
  <2>3. k - j \in 1..l \/ k = j
    BY <1>1, <2>2
  <2>4. QED BY <1>1, <2>2, <2>3
<1>6. ASSUME NEW i \in 1..k PROVE x[i] = y[i]
  <2>1. j - i \in 0..j /\ j - (j - i) = i /\ k - (j - i) = i /\ i \in 1..j /\ i \in 1..l
    <3> HIDE DEF S
    <3>1. QED BY <1>1, <1>5
  <2>2. a[i] = b[i]
    <3>1. j - i \in S
      BY <1>4, <2>1
    <3>2. a[j - (j - i)] = b[k - (j - i)]
      BY <3>1
    <3>3. QED BY <2>1, <3>2
  <2>3. QED BY <1>1, <2>1, <2>2
<1>7. QED BY <1>5, <1>6 DEF j

\* Two paths part somewhere.
Part(x, y) == \E i \in DOMAIN x \cap DOMAIN y : x[i] # y[i]

\* A path that parts from that of the removed node does not lead below it.
LEMMA Spared ==
    ASSUME NEW t, NEW u, NEW n, NEW G, Pruned(t, u, n, G),
           NEW x, Named(x), Walk(t, Root, x) = n, NEW y, Named(y), Part(x, y)
    PROVE  Walk(t, Root, y) \notin G
<1>1. /\ Sound(t) /\ n \in Live(t) /\ n # Root /\ Below(t, n, G) /\ n # Null
      /\ Null \notin Live(t) /\ G \subseteq Live(t)
  BY SlotsAre DEF Pruned, Below, Live
<1>2. SUFFICES ASSUME Walk(t, Root, y) \in G PROVE FALSE
  OBVIOUS
<1>3. PICK a : Descends(t, x, a) /\ a[Len(x)] = n
  BY <1>1, WalkDescends
<1>4. PICK b : Descends(t, y, b) /\ b[Len(y)] \in G
  BY <1>1, <1>2, WalkDescends
<1> DEFINE N == Len(y)
           S == {i \in 0..N : b[i] \notin G}
<1>5. /\ Len(x) \in Nat /\ N \in Nat /\ DOMAIN x = 1..Len(x) /\ DOMAIN y = 1..N
  BY DEF Named
<1>6. /\ b[0] = Root /\ Root \notin G
      /\ \A i \in 1..N : t[b[i]].parent = b[i - 1]
      /\ \A k \in G \ {n} : t[k].parent \in G
  BY <1>1, <1>4, BelowIs DEF Descends
<1>7. ASSUME NEW i \in 0..N, b[i] = n PROVE FALSE
  <2>1. a[Len(x)] = b[i]
    BY <1>3, <1>7
  <2>2. i = Len(x) /\ \A m \in 1..i : x[m] = y[m]
    <3>1. Descends(t, x, a) /\ Descends(t, y, b) /\ Len(x) \in Nat /\ Len(y) \in Nat /\ i \in 0..Len(y)
      BY <1>3, <1>4, <1>5
    <3>2. Meet(t, x, a, y, b, i)
      BY <2>1, <3>1 DEF Meet
    <3>3. QED BY <3>2, SameWay
  <2>3. QED BY <1>5, <2>2 DEF Part
<1> HIDE DEF N
<1>8. 0 \in S
  BY <1>5, <1>6
<1>9. ASSUME NEW i \in 0..(N - 1), i \in S PROVE i + 1 \in S
  <2>1. i + 1 \in 1..N /\ i + 1 \in 0..N /\ (i + 1) - 1 = i
    BY <1>5
  <2>2. t[b[i + 1]].parent = b[i] /\ b[i] \notin G /\ b[i + 1] # n
    BY <1>6, <1>7, <1>9, <2>1
  <2>3. QED BY <1>6, <2>1, <2>2
<1>10. N \in S
  <2>1. 0..N \subseteq S
    <3> HIDE DEF S
    <3>1. QED BY <1>5, <1>8, <1>9, InductionUpTo
  <2>2. QED BY <1>5, <2>1
<1>11. QED BY <1>4, <1>10 DEF N

\* The removal of what a path leads to.
LEMMA RemovePathLeaves ==
    ASSUME NEW t, Sound(t), NEW x, Named(x), NEW u, u = RemovePath(t, x)
    PROVE  /\ Walk(u, Root, x) = Null
           /\ \A y : Named(y) /\ Walk(t, Root, y) = Null => Walk(u, Root, y) = Null
           /\ \A y : Named(y) /\ Part(x, y) => Walk(u, Root, y) = Walk(t, Root, y)
<1> DEFINE n == Walk(t, Root, x)
<1>1. CASE n = Null
  <2>1. u = t
    BY <1>1 DEF RemovePath
  <2>2. QED BY <1>1, <2>1
<1>2. CASE n # Null
  <2> DEFINE G == Subtree(t, n)
  <2>1. PICK a : Descends(t, x, a) /\ a[Len(x)] = n
    BY <1>2, WalkDescends
  <2>2. Len(x) \in 1..Len(x)
    BY DEF Named
  <2>3. n \in Live(t) /\ n # Root
    BY <2>1, <2>2 DEF Descends
  <2>4. u = FsRemove(t, n)
    BY <1>2 DEF RemovePath
  <2> HIDE DEF n
  <2>5. Pruned(t, u, n, G)
    BY <2>3, <2>4, FsRemoveIs
  <2>6. Pruned(t, u, n, G) /\ n \in G
    BY <2>5 DEF Pruned, Below
  <2> HIDE DEF G
  <2>7. \A y : Named(y) => Walk(u, Root, y) = Left(Walk(t, Root, y), G)
    BY <2>6, WalkPruned
  <2>8. Walk(t, Root, x) = n
    BY DEF n
  <2>9. \A y : Named(y) /\ Part(x, y) => Walk(t, Root, y) \notin G
    BY <2>6, <2>8, Spared
  <2>10. QED BY <2>6, <2>7, <2>8, <2>9 DEF Left
<1>3. QED BY <1>1, <1>2

\* The removal of several, each of which leaves what is apart from it.
AllNamed(paths) == Len(paths) \in Nat /\ \A i \in 1..Len(paths) : Named(paths[i])

Takes(t, u, paths) ==
    /\ \A i \in 1..Len(paths) : Walk(u, Root, paths[i]) = Null
    /\ \A y : Named(y) /\ (\A i \in 1..Len(paths) : Part(paths[i], y))
              => Walk(u, Root, y) = Walk(t, Root, y)

LEMMA RemovesLeave ==
    ASSUME NEW t, NEW paths, AllNamed(paths), NEW h, RemovesAlong(t, paths, h)
    PROVE  Takes(t, h[Len(paths)], paths)
<1> DEFINE N == Len(paths)
<1>1. N \in Nat
  BY DEF AllNamed
<1>2. h[0] = t /\ \A i \in 1..N : h[i] = RemovePath(h[i - 1], paths[i]) /\ Sound(h[i - 1])
  BY DEF RemovesAlong
<1> DEFINE Spares(i) == \A y : Named(y) /\ (\A j \in 1..N : Part(paths[j], y))
                               => Walk(h[i], Root, y) = Walk(t, Root, y)
           Gone(i) == \A j \in 1..i : Walk(h[i], Root, paths[j]) = Null
           S == {i \in 0..N : Spares(i) /\ Gone(i)}
<1>3. \A j \in 1..N : Named(paths[j])
  BY DEF AllNamed
<1> HIDE DEF N
<1>4. 0 \in S
  BY <1>1, <1>2
<1>5. ASSUME NEW i \in 0..(N - 1), i \in S PROVE i + 1 \in S
  <2> DEFINE x == paths[i + 1]
  <2>1. i + 1 \in 1..N /\ i + 1 \in 0..N /\ (i + 1) - 1 = i /\ \A j \in 1..(i + 1) : j \in 1..i \/ j = i + 1
    BY <1>1
  <2>2. Sound(h[i]) /\ h[i + 1] = RemovePath(h[i], x) /\ Named(x)
    BY <1>2, <1>3, <2>1
  <2>3. /\ Walk(h[i + 1], Root, x) = Null
        /\ \A y : Named(y) /\ Walk(h[i], Root, y) = Null => Walk(h[i + 1], Root, y) = Null
        /\ \A y : Named(y) /\ Part(x, y) => Walk(h[i + 1], Root, y) = Walk(h[i], Root, y)
    BY <2>2, RemovePathLeaves
  <2>4. Spares(i) /\ Gone(i)
    BY <1>5
  <2>5. Spares(i + 1)
    BY <2>1, <2>3, <2>4
  <2>6. Gone(i + 1)
    BY <1>1, <1>3, <2>1, <2>3, <2>4
  <2>7. QED BY <2>1, <2>5, <2>6
<1>6. N \in S
  <2>1. 0..N \subseteq S
    <3> HIDE DEF S
    <3>1. QED BY <1>1, <1>4, <1>5, InductionUpTo
  <2>2. QED BY <1>1, <2>1
<1>7. QED BY <1>1, <1>6 DEF N, Takes

\* The paths of a package.
LEMMA PackagePaths ==
    ASSUME NEW p \in DOMAIN Repo
    PROVE  /\ p \in Words /\ \A path \in Paths(p) : Named(path)
           /\ \A q \in DOMAIN Repo \ {p} : \A x \in Paths(p), y \in Paths(q) : Part(x, y)
<1>1. p \in Words /\ Repo[p] \in Seq(Seq(Words) \ {<<>>})
  BY StorageAssumption
<1>2. DbPath(p) \in Seq(Words) \ {<<>>}
  BY <1>1, DbPathIs
<1>3. ASSUME NEW path \in Paths(p) PROVE Named(path)
  <2>1. path \in Seq(Words) \ {<<>>}
    BY <1>1, <1>2, MembersIs DEF Paths
  <2>2. \A i \in DOMAIN path : Clear(path[i])
    BY RepoAssumption, Zenon DEF Clear
  <2>3. QED BY <2>1, <2>2 DEF Named
<1>4. \A q \in DOMAIN Repo \ {p} : \A x \in Paths(p), y \in Paths(q) : Part(x, y)
  BY RepoAssumption, Zenon DEF Part
<1>5. QED BY <1>1, <1>3, <1>4

\* What do_remove does to the tree, by package.
LEMMA UninstallTakes ==
    ASSUME NEW t, Sound(t), NEW p \in DOMAIN Repo,
           NEW u, u = FoldLeft(RemovePath, t, Append(Repo[p], DbPath(p)))
    PROVE  /\ \A path \in Paths(p) : Walk(u, Root, path) = Null
           /\ \A q \in DOMAIN Repo \ {p} : \A path \in Paths(q) : Walk(u, Root, path) = Walk(t, Root, path)
<1> DEFINE r == Repo[p]
           d == DbPath(p)
           paths == Append(r, d)
<1>1. r \in Seq(Seq(Words) \ {<<>>}) /\ d \in Seq(Words) \ {<<>>}
  BY PackagePaths, DbPathIs, StorageAssumption
<1>2. Paths(p) = ToSet(r) \cup {d}
  BY DEF Paths
<1> HIDE DEF r, d
<1>3. /\ paths \in Seq(Seq(Words) \ {<<>>}) /\ Len(r) \in Nat /\ Len(paths) = Len(r) + 1
      /\ paths[Len(r) + 1] = d /\ \A i \in 1..Len(r) : paths[i] = r[i]
  BY <1>1
<1> HIDE DEF paths
<1>4. \A path : path \in Paths(p) <=> \E i \in 1..Len(paths) : path = paths[i]
  <2>1. \A path : path \in ToSet(r) <=> \E i \in 1..Len(r) : path = r[i]
    BY <1>1, MembersIs
  <2>2. \A i : i \in 1..Len(paths) <=> i \in 1..Len(r) \/ i = Len(r) + 1
    BY <1>3
  <2>3. QED BY <1>2, <1>3, <2>1, <2>2
<1>5. \A i \in 1..Len(paths) : Named(paths[i])
  BY <1>4, PackagePaths
<1>6. u = FoldLeft(RemovePath, t, paths)
  BY Zenon DEF r, d, paths
<1>7. /\ \A i \in 1..Len(paths) : Walk(u, Root, paths[i]) = Null
      /\ \A y : Named(y) /\ (\A i \in 1..Len(paths) : Part(paths[i], y))
                => Walk(u, Root, y) = Walk(t, Root, y)
  <2>1. paths \in Seq(Seq(Words))
    BY <1>3
  <2>2. PICK h : RemovesAlong(t, paths, h)
    BY <2>1, RemovesIs
  <2>3. u = h[Len(paths)]
    BY <1>6, <2>2, Zenon DEF RemovesAlong
  <2>4. AllNamed(paths)
    BY <1>3, <1>5 DEF AllNamed
  <2>5. Takes(t, u, paths)
    BY <2>2, <2>3, <2>4, RemovesLeave
  <2>6. QED BY <2>5, Zenon DEF Takes
<1>8. ASSUME NEW q \in DOMAIN Repo \ {p}, NEW y \in Paths(q) PROVE Walk(u, Root, y) = Walk(t, Root, y)
  <2>1. Named(y)
    BY PackagePaths
  <2>2. \A i \in 1..Len(paths) : Part(paths[i], y)
    BY <1>4, PackagePaths
  <2>3. QED BY <1>7, <2>1, <2>2
<1>9. QED BY <1>4, <1>7, <1>8

\* A package that is removed leaves neither its record nor a file of its that a
\* path leads to, and takes nothing of the other packages with it, whatever
\* became of its files and directories before.
THEOREM RemoveUndoes == Spec => RemoveUndoesInstall
<1> DEFINE Undone ==
        \A p \in DOMAIN Repo : Uninstall(p) /\ IsInstalled(tree, p) =>
            /\ ~IsInstalled(tree, p)'
            /\ \A i \in DOMAIN Repo[p] : ~Reachable(Repo[p][i])'
            /\ \A q \in DOMAIN Repo \ {p} : \A path \in Paths(q) :
                Reachable(path) => Reachable(path)'
<1>1. ASSUME StorageInv PROVE Undone
  <2> SUFFICES ASSUME NEW p \in DOMAIN Repo, Uninstall(p), IsInstalled(tree, p)
               PROVE  /\ ~IsInstalled(tree, p)'
                      /\ \A i \in DOMAIN Repo[p] : ~Reachable(Repo[p][i])'
                      /\ \A q \in DOMAIN Repo \ {p} : \A path \in Paths(q) :
                            Reachable(path) => Reachable(path)'
    OBVIOUS
  <2> DEFINE t == tree
             u == tree'
  <2>1. Sound(t)
    BY <1>1 DEF StorageInv
  <2>2. u = FoldLeft(RemovePath, t, Append(Repo[p], DbPath(p)))
    BY Zenon DEF Uninstall
  <2>3. /\ \A path \in Paths(p) : Walk(u, Root, path) = Null
        /\ \A q \in DOMAIN Repo \ {p} : \A path \in Paths(q) : Walk(u, Root, path) = Walk(t, Root, path)
    <3> HIDE DEF t, u
    <3>1. QED BY <2>1, <2>2, UninstallTakes
  <2>4. DbPath(p) \in Paths(p) /\ \A i \in DOMAIN Repo[p] : Repo[p][i] \in Paths(p)
    <3>1. DbPath(p) \in Paths(p)
      BY DEF Paths
    <3>2. ASSUME NEW i \in DOMAIN Repo[p] PROVE Repo[p][i] \in Paths(p)
      BY DEF Paths, ToSet
    <3>3. QED BY <3>1, <3>2
  <2>5. ~IsInstalled(tree, p)'
    BY <2>3, <2>4 DEF IsInstalled
  <2>6. \A i \in DOMAIN Repo[p] : ~Reachable(Repo[p][i])'
    BY <2>3, <2>4 DEF Reachable
  <2>7. \A q \in DOMAIN Repo \ {p} : \A path \in Paths(q) : Reachable(path) => Reachable(path)'
    BY <2>3 DEF Reachable
  <2>8. QED BY <2>5, <2>6, <2>7
<1>2. QED BY <1>1, StorageHolds, PTL DEF RemoveUndoesInstall
=============================================================================
