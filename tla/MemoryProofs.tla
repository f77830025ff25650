----------------------------- MODULE MemoryProofs ----------------------------
(***************************************************************************)
(* Proofs about the two allocators of the kernel.                          *)
(*                                                                         *)
(* The heap, for any area, header and alignment size and any requests: the *)
(* free list stays a tiling of the area with no two adjacent free blocks,  *)
(* and therefore implements the allocator of Allocator.tla.  The argument  *)
(* is about single free-list records h: each of Split, Absorb, Occupy and  *)
(* Vacate keeps Shape, and the callers kmalloc, kfree and krealloc are     *)
(* compositions of them.                                                   *)
(*                                                                         *)
(* The frame bitmap of pmm.c is exact, and what it gives out can be used,  *)
(* for every page size, size of the bitmap, kernel and memory map.         *)
(***************************************************************************)
EXTENDS Heap, Pmm, Induction, TLAPS


-----------------------------------------------------------------------------
(* Arithmetic.                                                               *)

\* Division with remainder, for the divisions by a symbolic Align.
LEMMA DivBounds ==
    ASSUME NEW a \in Nat, NEW d \in Nat \ {0}
    PROVE  a \div d \in Nat /\ (a \div d) * d <= a /\ a < (a \div d) * d + d
OBVIOUS

\* align_up never returns less than it was given.
LEMMA AlignUpAtLeast ==
    ASSUME NEW n \in Nat PROVE AlignUp(n) \in Nat /\ n <= AlignUp(n)
<1> DEFINE q == (n + Align - 1) \div Align
<1> DEFINE p == q * Align
<1>1. n + Align - 1 \in Nat /\ Align \in Nat \ {0}
  BY HeapAssumption
<1>2. q \in Nat /\ n + Align - 1 < p + Align
  BY <1>1, DivBounds
<1>3. p \in Nat
  BY <1>1, <1>2
<1> HIDE DEF p
<1>4. n <= p
  BY <1>1, <1>2, <1>3
<1>5. QED BY <1>3, <1>4 DEF p, AlignUp

-----------------------------------------------------------------------------
(* Well-formed free lists.                                                   *)

HeapRecord ==
    [nodes : SUBSET Addrs, size : [Addrs -> Nat], free : [Addrs -> BOOLEAN],
     next : [Addrs -> Addrs \cup {Null}], prev : [Addrs -> Addrs \cup {NoPrev}],
     used : Int]

Linked(h) ==
    /\ 0 \in h.nodes /\ h.prev[0] = NoPrev
    /\ \A b \in h.nodes :
        /\ h.next[b] = End(h, b)
        /\ h.next[b] # Null => h.next[b] \in h.nodes /\ h.prev[h.next[b]] = b
        /\ b # 0 => h.prev[b] \in h.nodes /\ h.next[h.prev[b]] = b

\* Blocks do not overlap, and every byte of the area belongs to one.  Neither
\* follows locally from Linked, and the refinement needs both.
Ordered(h) == \A b, c \in h.nodes : b < c => End(h, b) <= c
Covers(h) == \A a \in Addrs : \E b \in h.nodes : b <= a /\ a < End(h, b)

Shape(h) == h \in HeapRecord /\ Linked(h) /\ Ordered(h) /\ Covers(h)

\* The only pairs of free neighbours have b as a member.
FreePairsAt(h, b) ==
    \A c \in h.nodes :
        h.free[c] /\ h.next[c] # Null /\ h.free[h.next[c]] => b \in {c, h.next[c]}

NoFreePairs(h) ==
    \A c \in h.nodes : h.free[c] /\ h.next[c] # Null => ~h.free[h.next[c]]

-----------------------------------------------------------------------------
(* Split.                                                                    *)

\* The fields of g, which is h with the tail of b cut off at nb.
SplitAt(h, b, sz, g, nb) ==
    /\ nb \in Addrs \ h.nodes /\ b < nb /\ nb < End(h, b)
    /\ g \in HeapRecord
    /\ g.nodes = h.nodes \cup {nb}
    /\ g.size[b] = sz /\ g.size[nb] = h.size[b] - sz - Hdr
    /\ \A a \in Addrs \ {b, nb} : g.size[a] = h.size[a]
    /\ g.free[nb] = TRUE
    /\ \A a \in Addrs \ {nb} : g.free[a] = h.free[a]
    /\ g.next[b] = nb /\ g.next[nb] = h.next[b]
    /\ \A a \in Addrs \ {b, nb} : g.next[a] = h.next[a]
    /\ \A a \in Addrs : g.prev[a] = IF a = nb THEN b
                        ELSE IF a = h.next[b] THEN nb ELSE h.prev[a]

LEMMA SplitFields ==
    ASSUME NEW h, Shape(h), NEW b \in h.nodes, NEW sz \in Nat, Splits(h, b, sz)
    PROVE  SplitAt(h, b, sz, Split(h, b, sz), b + Hdr + sz)
<1> DEFINE g == Split(h, b, sz)
           nb == b + Hdr + sz
<1> USE HeapAssumption
<1>1. /\ b \in Addrs /\ h.size[b] \in Nat /\ h.next[b] \in Addrs \cup {Null}
      /\ h.next[b] = b + Hdr + h.size[b] /\ h.nodes \subseteq Addrs
  BY DEF Shape, HeapRecord, Linked, End
<1>2. h.size[b] - sz - Hdr \in Nat
  BY <1>1 DEF Splits
<1>3. nb \in Addrs /\ b < nb /\ nb < End(h, b)
  BY <1>1, <1>2 DEF Addrs, Null, Splits, End
<1>4. nb \notin h.nodes
  BY <1>1, <1>3 DEF Shape, Ordered, End, Addrs
<1>5. g \in HeapRecord
  BY <1>1, <1>2, <1>3 DEF Shape, HeapRecord, Split
<1>6. QED BY <1>1, <1>2, <1>3, <1>4, <1>5 DEF Shape, HeapRecord, Split, SplitAt

LEMMA SplitShape ==
    ASSUME NEW h, Shape(h), NEW b \in h.nodes, NEW sz \in Nat, Splits(h, b, sz)
    PROVE  Shape(Split(h, b, sz))
<1> DEFINE g == Split(h, b, sz)
           nb == b + Hdr + sz
<1> HIDE DEF g, nb
<1>0. SplitAt(h, b, sz, g, nb)
  BY SplitFields DEF g, nb
<1>1. /\ nb \in Addrs \ h.nodes /\ b < nb /\ nb < End(h, b)
      /\ g \in HeapRecord
      /\ g.nodes = h.nodes \cup {nb}
      /\ g.size[b] = sz /\ g.size[nb] = h.size[b] - sz - Hdr
      /\ \A a \in Addrs \ {b, nb} : g.size[a] = h.size[a]
      /\ g.next[b] = nb /\ g.next[nb] = h.next[b]
      /\ \A a \in Addrs \ {b, nb} : g.next[a] = h.next[a]
      /\ \A a \in Addrs : g.prev[a] = IF a = nb THEN b
                          ELSE IF a = h.next[b] THEN nb ELSE h.prev[a]
  BY <1>0 DEF SplitAt
<1>2. /\ h.nodes \subseteq Addrs /\ b \in Addrs /\ 0 \in h.nodes
      /\ \A a \in Addrs : h.size[a] \in Nat /\ h.next[a] \in Addrs \cup {Null}
      /\ Linked(h) /\ Ordered(h) /\ Covers(h)
  BY DEF Shape, HeapRecord, Linked
<1>3. /\ nb = b + Hdr + sz /\ Hdr \in Nat \ {0}
      /\ nb # Null /\ \A c \in h.nodes : h.next[c] # nb /\ End(h, c) \in Int
  BY <1>1, <1>2, HeapAssumption DEF nb, Null, Addrs, Linked, End
<1>4. End(g, b) = nb /\ End(g, nb) = End(h, b)
  BY <1>1, <1>2, <1>3 DEF End, Addrs
<1>5. \A c \in h.nodes \ {b} : End(g, c) = End(h, c) /\ c # nb
  BY <1>1, <1>2 DEF End
<1>6. ASSUME NEW c \in g.nodes
      PROVE  /\ g.next[c] = End(g, c)
             /\ g.next[c] # Null => g.next[c] \in g.nodes /\ g.prev[g.next[c]] = c
             /\ c # 0 => g.prev[c] \in g.nodes /\ g.next[g.prev[c]] = c
  <2> USE DEF Linked
  <2>1. CASE c = nb
    <3>1. h.next[b] = End(h, b) /\ h.next[b] # nb
      BY <1>2, <1>3
    <3>2. QED BY <1>1, <1>2, <1>4, <2>1, <3>1
  <2>2. CASE c = b
    BY <1>1, <1>2, <1>4, <2>2
  <2>3. CASE c # nb /\ c # b
    <3>1. c \in h.nodes /\ c \in Addrs /\ h.next[c] # nb
      BY <1>1, <1>2, <1>3, <2>3
    <3>2. h.next[c] # Null => h.next[c] # h.next[b]
      BY <1>2, <2>3, <3>1
    <3>3. g.next[c] = h.next[c] /\ g.next[c] = End(g, c)
      BY <1>1, <1>2, <1>5, <2>3, <3>1
    <3>4. c # 0 => g.prev[c] \in g.nodes /\ g.next[g.prev[c]] = c
      <4> SUFFICES ASSUME c # 0 PROVE g.prev[c] \in g.nodes /\ g.next[g.prev[c]] = c
        OBVIOUS
      <4>1. h.prev[c] \in h.nodes /\ h.next[h.prev[c]] = c
        BY <1>2, <3>1
      <4>2. CASE c = h.next[b]
        BY <1>1, <2>3, <3>1, <4>2
      <4>3. CASE c # h.next[b]
        <5>1. g.prev[c] = h.prev[c] /\ h.prev[c] # b /\ h.prev[c] # nb
          BY <1>1, <2>3, <3>1, <4>1, <4>3
        <5>2. QED BY <1>1, <1>2, <4>1, <5>1
      <4>4. QED BY <4>2, <4>3
    <3>5. QED BY <1>1, <1>2, <3>1, <3>2, <3>3, <3>4
  <2>4. QED BY <2>1, <2>2, <2>3
<1>7. Linked(g)
  <2>1. g.prev[0] = NoPrev
    <3>1. 0 \in Addrs /\ 0 # nb /\ 0 # h.next[b]
      BY <1>1, <1>2, HeapAssumption DEF Addrs, Linked, End
    <3>2. QED BY <1>1, <1>2, <3>1 DEF Linked
  <2>2. QED BY <1>1, <1>2, <1>6, <2>1 DEF Linked
<1>8. Ordered(g)
  <2> SUFFICES ASSUME NEW c \in g.nodes, NEW d \in g.nodes, c < d
               PROVE  End(g, c) <= d
    BY DEF Ordered
  <2>1. CASE c = nb
    <3>1. d \in h.nodes /\ b < d /\ d \in Addrs
      BY <1>1, <1>2, <2>1 DEF Addrs
    <3>2. QED BY <1>2, <1>4, <2>1, <3>1 DEF Ordered
  <2>2. CASE c = b
    <3>1. CASE d = nb
      BY <1>4, <2>2, <3>1, <1>1 DEF Addrs
    <3>2. CASE d # nb
      <4>1. d \in h.nodes /\ End(h, b) <= d
        BY <1>1, <1>2, <2>2, <3>2 DEF Ordered
      <4>2. QED BY <1>1, <1>2, <1>3, <1>4, <2>2, <4>1 DEF Addrs
    <3>3. QED BY <3>1, <3>2
  <2>3. CASE c # nb /\ c # b
    <3>1. c \in h.nodes /\ c \in Addrs /\ End(g, c) = End(h, c)
      BY <1>1, <1>2, <1>5, <2>3
    <3>2. CASE d = nb
      <4>1. c < b
        <5>1. ~(b < c)
          <6>1. b < c => End(h, b) <= c
            BY <1>2, <3>1 DEF Ordered
          <6>2. QED BY <1>1, <1>2, <1>3, <3>1, <3>2, <6>1 DEF Addrs
        <5>2. QED BY <1>2, <2>3, <3>1, <5>1 DEF Addrs
      <4>2. End(h, c) <= b
        BY <1>2, <3>1, <4>1 DEF Ordered
      <4>3. QED BY <1>1, <1>2, <3>1, <3>2, <4>2, HeapAssumption DEF Addrs, End
    <3>3. CASE d # nb
      BY <1>1, <1>2, <3>1, <3>3 DEF Ordered
    <3>4. QED BY <3>2, <3>3
  <2>4. QED BY <2>1, <2>2, <2>3
<1>9. Covers(g)
  <2> SUFFICES ASSUME NEW a \in Addrs
               PROVE  \E c \in g.nodes : c <= a /\ a < End(g, c)
    BY DEF Covers
  <2>1. PICK c \in h.nodes : c <= a /\ a < End(h, c)
    BY <1>2 DEF Covers
  <2>2. CASE c # b
    BY <1>1, <1>5, <2>1, <2>2
  <2>3. CASE c = b /\ a < nb
    BY <1>1, <1>4, <2>1, <2>3
  <2>4. CASE c = b /\ ~(a < nb)
    BY <1>1, <1>4, <2>1, <2>4 DEF Addrs
  <2>5. QED BY <2>2, <2>3, <2>4
<1>10. QED BY <1>1, <1>7, <1>8, <1>9 DEF Shape, g

-----------------------------------------------------------------------------
(* Absorb.                                                                   *)

\* The fields of g, which is h with block n, the successor of b, merged into b.
MergedAt(h, b, n, g) ==
    /\ n \in h.nodes /\ b < n
    /\ g \in HeapRecord
    /\ g.nodes = h.nodes \ {n}
    /\ g.size[b] = h.size[b] + Hdr + h.size[n]
    /\ \A a \in Addrs \ {b, n} : g.size[a] = h.size[a]
    /\ \A a \in Addrs \ {n} : g.free[a] = h.free[a]
    /\ g.next[b] = h.next[n]
    /\ \A a \in Addrs \ {b, n} : g.next[a] = h.next[a]
    /\ \A a \in Addrs \ {n} : g.prev[a] = IF a = h.next[n] THEN b ELSE h.prev[a]

LEMMA AbsorbFields ==
    ASSUME NEW h, Shape(h), NEW b \in h.nodes, h.next[b] # Null
    PROVE  MergedAt(h, b, h.next[b], Absorb(h, b))
<1> DEFINE g == Absorb(h, b)
           n == h.next[b]
<1> USE HeapAssumption
<1>1. /\ h.nodes \subseteq Addrs /\ n \in h.nodes /\ n = b + Hdr + h.size[b]
      /\ h.size[b] \in Nat /\ h.size[n] \in Nat
  BY DEF Shape, HeapRecord, Linked, End
<1>2. b \in Addrs /\ n \in Addrs /\ b < n
  BY <1>1 DEF Addrs
<1>3. h.next[n] \in Addrs \cup {Null} /\ h.next[n] # n
  <2>1. h.next[n] \in Addrs \cup {Null}
    BY <1>2 DEF Shape, HeapRecord
  <2>2. h.next[n] = n + Hdr + h.size[n]
    BY <1>1 DEF Shape, Linked, End
  <2>3. QED BY <1>1, <1>2, <2>1, <2>2 DEF Addrs
<1>4. g \in HeapRecord
  BY <1>1, <1>2, <1>3 DEF Shape, HeapRecord, Absorb
<1>5. QED BY <1>1, <1>2, <1>3, <1>4 DEF Shape, HeapRecord, Absorb, MergedAt

LEMMA AbsorbShape ==
    ASSUME NEW h, Shape(h), NEW b \in h.nodes, h.next[b] # Null
    PROVE  Shape(Absorb(h, b))
<1> DEFINE g == Absorb(h, b)
           n == h.next[b]
<1> HIDE DEF g, n
<1>1. MergedAt(h, b, n, g)
  BY AbsorbFields DEF g, n
<1>2. /\ h.nodes \subseteq Addrs /\ b \in Addrs /\ n \in Addrs /\ 0 \in h.nodes
      /\ b \in h.nodes /\ n \in h.nodes /\ n = h.next[b] /\ b < n
      /\ \A a \in Addrs : h.size[a] \in Nat /\ h.next[a] \in Addrs \cup {Null}
      /\ Linked(h) /\ Ordered(h) /\ Covers(h)
  BY <1>1 DEF Shape, HeapRecord, Linked, MergedAt, n
<1>3. /\ Hdr \in Nat \ {0} /\ Null \notin Addrs
      /\ \A c \in h.nodes : End(h, c) \in Int
  BY <1>2, HeapAssumption DEF Null, Addrs, End
<1>4. End(h, b) = n /\ End(g, b) = End(h, n)
  BY <1>1, <1>2, <1>3 DEF End, Addrs, Linked, MergedAt
<1>5. \A c \in h.nodes \ {b, n} : End(g, c) = End(h, c)
  BY <1>1, <1>2 DEF End, MergedAt
<1>6. n # 0
  BY <1>2 DEF Addrs
<1>7. ASSUME NEW c \in g.nodes
      PROVE  /\ g.next[c] = End(g, c)
             /\ g.next[c] # Null => g.next[c] \in g.nodes /\ g.prev[g.next[c]] = c
             /\ c # 0 => g.prev[c] \in g.nodes /\ g.next[g.prev[c]] = c
  <2> USE DEF Linked, MergedAt
  <2>0. c \in h.nodes /\ c \in Addrs /\ c # n
    BY <1>1, <1>2
  <2>1. CASE c = b
    <3>1. g.next[c] = End(g, c) /\ h.next[n] # n
      BY <1>1, <1>2, <1>3, <1>4, <2>1 DEF End, Addrs
    <3>2. h.next[n] # Null => h.next[n] \in g.nodes /\ g.prev[h.next[n]] = b
      BY <1>1, <1>2, <3>1
    <3>3. c # 0 => /\ h.prev[c] \in h.nodes /\ h.next[h.prev[c]] = c
                   /\ h.prev[c] # b /\ h.prev[c] # n /\ c # h.next[n]
      BY <1>2, <1>3, <2>1, <3>1 DEF Addrs, End
    <3>4. c # 0 => g.prev[c] \in g.nodes /\ g.next[g.prev[c]] = c
      BY <1>1, <1>2, <2>0, <3>3
    <3>5. QED BY <1>1, <2>1, <3>1, <3>2, <3>4
  <2>2. CASE c # b
    <3>1. g.next[c] = h.next[c] /\ g.next[c] = End(g, c) /\ h.next[c] # n
      BY <1>1, <1>2, <1>3, <1>5, <2>0, <2>2
    <3>2. h.next[c] # Null => h.next[c] # h.next[n]
      BY <1>2, <2>0
    <3>3. g.next[c] # Null => g.next[c] \in g.nodes /\ g.prev[g.next[c]] = c
      BY <1>1, <1>2, <2>0, <3>1, <3>2
    <3>4. c # 0 => g.prev[c] \in g.nodes /\ g.next[g.prev[c]] = c
      <4> SUFFICES ASSUME c # 0 PROVE g.prev[c] \in g.nodes /\ g.next[g.prev[c]] = c
        OBVIOUS
      <4>1. h.prev[c] \in h.nodes /\ h.next[h.prev[c]] = c
        BY <1>2, <2>0
      <4>2. CASE c = h.next[n]
        BY <1>1, <1>2, <2>0, <4>2
      <4>3. CASE c # h.next[n]
        BY <1>1, <1>2, <2>0, <4>1, <4>3
      <4>4. QED BY <4>2, <4>3
    <3>5. QED BY <3>1, <3>3, <3>4
  <2>3. QED BY <2>1, <2>2
<1>8. Linked(g)
  <2>1. 0 \in g.nodes
    BY <1>1, <1>2, <1>6 DEF MergedAt
  <2>2. 0 # h.next[n]
    BY <1>2, <1>3 DEF Linked, End, Addrs
  <2>3. g.prev[0] = NoPrev
    BY <1>1, <1>2, <1>6, <2>2 DEF Linked, MergedAt
  <2>4. QED BY <1>7, <2>1, <2>3 DEF Linked
<1>9. Ordered(g)
  <2> SUFFICES ASSUME NEW c \in g.nodes, NEW d \in g.nodes, c < d
               PROVE  End(g, c) <= d
    BY DEF Ordered
  <2>1. c \in h.nodes \ {n} /\ d \in h.nodes \ {n} /\ End(h, c) <= d
    BY <1>1, <1>2 DEF Ordered, MergedAt
  <2>2. CASE c = b
    <3>1. n < d
      BY <1>2, <1>4, <2>1, <2>2 DEF Addrs
    <3>2. QED BY <1>2, <1>4, <2>1, <2>2, <3>1 DEF Ordered
  <2>3. CASE c # b
    BY <1>5, <2>1, <2>3
  <2>4. QED BY <2>2, <2>3
<1>10. Covers(g)
  <2> SUFFICES ASSUME NEW a \in Addrs
               PROVE  \E c \in g.nodes : c <= a /\ a < End(g, c)
    BY DEF Covers
  <2>1. PICK c \in h.nodes : c <= a /\ a < End(h, c)
    BY <1>2 DEF Covers
  <2>2. CASE c \in {b, n}
    <3>1. b <= a /\ a < End(h, n)
      BY <1>2, <1>3, <1>4, <2>1, <2>2 DEF Addrs, End
    <3>2. b \in g.nodes
      BY <1>1, <1>2 DEF MergedAt, Addrs
    <3>3. QED BY <1>4, <3>1, <3>2
  <2>3. CASE c \notin {b, n}
    BY <1>1, <1>5, <2>1, <2>3 DEF MergedAt
  <2>4. QED BY <2>2, <2>3
<1>11. QED BY <1>1, <1>8, <1>9, <1>10 DEF Shape, MergedAt, g

-----------------------------------------------------------------------------
(* Marking a block, and the two merges of coalesce.                          *)

\* Occupy and Vacate write the free flag of b and the byte count only.
MarkedAt(h, b, v, g) ==
    /\ g.nodes = h.nodes /\ g.size = h.size /\ g.next = h.next /\ g.prev = h.prev
    /\ \A a \in Addrs : g.free[a] = IF a = b THEN v ELSE h.free[a]

LEMMA MarkShape ==
    ASSUME NEW h, Shape(h), NEW b \in h.nodes, NEW g \in HeapRecord,
           NEW v, MarkedAt(h, b, v, g)
    PROVE  Shape(g)
BY DEF Shape, Linked, Ordered, Covers, End, MarkedAt

LEMMA OccupyFields ==
    ASSUME NEW h, Shape(h), NEW b \in h.nodes
    PROVE  Shape(Occupy(h, b)) /\ MarkedAt(h, b, FALSE, Occupy(h, b))
<1> DEFINE g == Occupy(h, b)
<1>1. h \in HeapRecord /\ b \in Addrs /\ h.used + h.size[b] + Hdr \in Int
  BY HeapAssumption DEF Shape, HeapRecord
<1>2. g \in HeapRecord /\ MarkedAt(h, b, FALSE, g)
  BY <1>1 DEF HeapRecord, MarkedAt, Occupy
<1> HIDE DEF g
<1>3. Shape(g)
  BY <1>2, MarkShape
<1>4. QED BY <1>2, <1>3 DEF g

LEMMA VacateFields ==
    ASSUME NEW h, Shape(h), NEW b \in h.nodes
    PROVE  Shape(Vacate(h, b)) /\ MarkedAt(h, b, TRUE, Vacate(h, b))
<1> DEFINE g == Vacate(h, b)
<1>1. h \in HeapRecord /\ b \in Addrs /\ h.used - (h.size[b] + Hdr) \in Int
  BY HeapAssumption DEF Shape, HeapRecord
<1>2. g \in HeapRecord /\ MarkedAt(h, b, TRUE, g)
  BY <1>1 DEF HeapRecord, MarkedAt, Vacate
<1> HIDE DEF g
<1>3. Shape(g)
  BY <1>2, MarkShape
<1>4. QED BY <1>2, <1>3 DEF g

\* After the merge with the next block, only the pair before b can be free.
LEMMA MergeNextKeeps ==
    ASSUME NEW h, Shape(h), NEW b \in h.nodes, h.free[b], FreePairsAt(h, b)
    PROVE  LET g == MergeNext(h, b) IN
           /\ Shape(g) /\ b \in g.nodes /\ g.free[b]
           /\ FreePairsAt(g, b)
           /\ g.next[b] # Null => ~g.free[g.next[b]]
           /\ Allocated(g) = Allocated(h)
           /\ \A a \in Allocated(h) : g.size[a] = h.size[a]
<1> DEFINE g == MergeNext(h, b)
<1>1. CASE h.next[b] # Null /\ h.free[h.next[b]]
  <2> DEFINE n == h.next[b]
  <2>1. g = Absorb(h, b)
    BY <1>1 DEF MergeNext
  <2> HIDE DEF g, n
  <2>2. Shape(g) /\ MergedAt(h, b, n, g)
    BY <1>1, <2>1, AbsorbShape, AbsorbFields DEF n
  <2>3. /\ h.nodes \subseteq Addrs /\ b \in Addrs /\ n \in Addrs /\ b # n
        /\ g.nodes \subseteq h.nodes /\ h.free[n]
        /\ Linked(h)
    BY <1>1, <2>2 DEF Shape, HeapRecord, MergedAt, Addrs, n
  <2>4. b \in g.nodes /\ g.free[b]
    BY <2>2, <2>3 DEF MergedAt
  <2>5. g.next[b] # Null => /\ h.next[n] \in h.nodes /\ h.next[n] # b /\ h.next[n] # n
                            /\ ~h.free[h.next[n]]
    <3> SUFFICES ASSUME g.next[b] # Null
                 PROVE  /\ h.next[n] \in h.nodes /\ h.next[n] # b /\ h.next[n] # n
                        /\ ~h.free[h.next[n]]
      OBVIOUS
    <3>1. n \in h.nodes /\ h.next[n] # Null /\ b < n
      BY <2>2 DEF MergedAt
    <3>2. h.next[n] \in h.nodes /\ h.next[n] = n + Hdr + h.size[n] /\ h.size[n] \in Nat
      BY <2>3, <3>1 DEF Linked, End, Shape, HeapRecord
    <3>3. h.next[n] # b /\ h.next[n] # n
      BY <2>3, <3>1, <3>2, HeapAssumption DEF Addrs
    <3>4. QED BY <2>3, <3>1, <3>2, <3>3 DEF FreePairsAt
  <2>6. g.next[b] # Null => ~g.free[g.next[b]]
    BY <2>2, <2>3, <2>5 DEF MergedAt
  <2>7. FreePairsAt(g, b)
    <3> SUFFICES ASSUME NEW c \in g.nodes, g.free[c], g.next[c] # Null, g.free[g.next[c]],
                        c # b, g.next[c] # b
                 PROVE  FALSE
      BY DEF FreePairsAt
    <3>1. c \in h.nodes /\ c # n /\ g.next[c] \in g.nodes
      BY <2>2 DEF MergedAt, Shape, Linked
    <3>2. h.next[c] = g.next[c] /\ h.free[c]
      BY <2>2, <2>3, <3>1 DEF MergedAt
    <3>3. h.free[h.next[c]] /\ h.next[c] # Null
      BY <2>2, <2>3, <3>1, <3>2 DEF MergedAt
    <3>4. QED BY <3>1, <3>2, <3>3 DEF FreePairsAt
  <2>8. Allocated(g) = Allocated(h)
    BY <2>2, <2>3 DEF Allocated, MergedAt
  <2>9. \A a \in Allocated(h) : g.size[a] = h.size[a]
    BY <2>2, <2>3 DEF Allocated, MergedAt
  <2>10. QED BY <2>2, <2>4, <2>6, <2>7, <2>8, <2>9 DEF g
<1>2. CASE ~(h.next[b] # Null /\ h.free[h.next[b]])
  BY <1>2 DEF MergeNext
<1>3. QED BY <1>1, <1>2

\* After the merge with the previous block no pair is left.
LEMMA MergePrevKeeps ==
    ASSUME NEW h, Shape(h), NEW b \in h.nodes, h.free[b], FreePairsAt(h, b),
           h.next[b] # Null => ~h.free[h.next[b]]
    PROVE  LET g == MergePrev(h, b) IN
           /\ Shape(g) /\ NoFreePairs(g)
           /\ Allocated(g) = Allocated(h)
           /\ \A a \in Allocated(h) : g.size[a] = h.size[a]
<1> DEFINE g == MergePrev(h, b)
           p == h.prev[b]
<1>0. h.nodes \subseteq Addrs /\ Linked(h) /\ b \in Addrs /\ NoPrev \notin Addrs
  BY DEF Shape, HeapRecord, NoPrev, Addrs
<1>1. CASE p # NoPrev /\ h.free[p]
  <2>1. g = Absorb(h, p)
    BY <1>1 DEF MergePrev
  <2>2. p \in h.nodes /\ h.next[p] = b /\ b # Null
    BY <1>0, <1>1, HeapAssumption DEF Linked, Null, Addrs
  <2> HIDE DEF g, p
  <2>3. Shape(g) /\ MergedAt(h, p, b, g)
    BY <2>1, <2>2, AbsorbShape, AbsorbFields
  <2>4. g.nodes = h.nodes \ {b} /\ p \in Addrs /\ p # b /\ p < b
    BY <1>0, <2>2, <2>3 DEF MergedAt, Addrs
  <2>5. NoFreePairs(g)
    <3> SUFFICES ASSUME NEW c \in g.nodes, g.free[c], g.next[c] # Null, g.free[g.next[c]]
                 PROVE  FALSE
      BY DEF NoFreePairs
    <3>1. c \in h.nodes /\ c # b /\ g.next[c] \in g.nodes
      BY <2>3, <2>4 DEF Shape, Linked
    <3>2. g.next[c] \in Addrs \ {b} /\ h.free[g.next[c]]
      BY <1>0, <2>3, <2>4, <3>1 DEF MergedAt
    <3>3. CASE c = p
      <4>1. g.next[c] = h.next[b]
        BY <2>3, <3>3 DEF MergedAt
      <4>2. QED BY <3>2, <4>1
    <3>4. CASE c # p
      <4>1. h.next[c] = g.next[c] /\ h.free[c]
        BY <1>0, <2>3, <3>1, <3>4 DEF MergedAt
      <4>2. QED BY <3>1, <3>2, <4>1 DEF FreePairsAt
    <3>5. QED BY <3>3, <3>4
  <2>6. Allocated(g) = Allocated(h)
    BY <1>0, <1>1, <2>3, <2>4 DEF Allocated, MergedAt
  <2>7. \A a \in Allocated(h) : g.size[a] = h.size[a]
    BY <1>0, <1>1, <2>3, <2>4 DEF Allocated, MergedAt
  <2>8. QED BY <2>3, <2>5, <2>6, <2>7 DEF g
<1>2. CASE ~(p # NoPrev /\ h.free[p])
  <2>1. g = h
    BY <1>2 DEF MergePrev
  <2>2. NoFreePairs(h)
    <3> SUFFICES ASSUME NEW c \in h.nodes, h.free[c], h.next[c] # Null, h.free[h.next[c]]
                 PROVE  FALSE
      BY DEF NoFreePairs
    <3>1. h.next[c] = b
      BY DEF FreePairsAt
    <3>2. p = c /\ c # NoPrev
      BY <1>0, <3>1 DEF Linked
    <3>3. QED BY <1>2, <3>2
  <2>3. QED BY <2>1, <2>2
<1>3. QED BY <1>1, <1>2

-----------------------------------------------------------------------------
(* The two operations callers see.                                           *)

LEMMA ReleaseKeeps ==
    ASSUME NEW h, Shape(h), NoFreePairs(h), NEW b \in Allocated(h)
    PROVE  LET g == Release(h, b) IN
           /\ Shape(g) /\ NoFreePairs(g)
           /\ Allocated(g) = Allocated(h) \ {b}
           /\ \A a \in Allocated(h) \ {b} : g.size[a] = h.size[a]
<1> DEFINE v == Vacate(h, b)
           m == MergeNext(v, b)
<1>1. h.nodes \subseteq Addrs /\ b \in h.nodes /\ ~h.free[b]
  BY DEF Shape, HeapRecord, Allocated
<1>2. /\ Shape(v)
      /\ v.nodes = h.nodes /\ v.size = h.size /\ v.next = h.next /\ v.prev = h.prev
      /\ \A a \in Addrs : v.free[a] = IF a = b THEN TRUE ELSE h.free[a]
  BY <1>1, VacateFields DEF MarkedAt
<1> HIDE DEF v
<1>3. v.free[b] /\ b \in v.nodes
  BY <1>1, <1>2
<1>4. FreePairsAt(v, b)
  BY <1>1, <1>2 DEF FreePairsAt, NoFreePairs, Shape, Linked
<1>5. Allocated(v) = Allocated(h) \ {b}
  BY <1>1, <1>2 DEF Allocated
<1>6. /\ Shape(m) /\ b \in m.nodes /\ m.free[b] /\ FreePairsAt(m, b)
      /\ m.next[b] # Null => ~m.free[m.next[b]]
      /\ Allocated(m) = Allocated(v)
      /\ \A a \in Allocated(v) : m.size[a] = v.size[a]
  BY <1>2, <1>3, <1>4, MergeNextKeeps
<1> HIDE DEF m
<1>7. Release(h, b) = MergePrev(m, b)
  BY DEF Release, Coalesce, v, m
<1>8. LET g == MergePrev(m, b) IN
      /\ Shape(g) /\ NoFreePairs(g)
      /\ Allocated(g) = Allocated(m)
      /\ \A a \in Allocated(m) : g.size[a] = m.size[a]
  BY <1>6, MergePrevKeeps
<1>9. QED BY <1>2, <1>5, <1>6, <1>7, <1>8

LEMMA TakeKeeps ==
    ASSUME NEW h, Shape(h), NoFreePairs(h), NEW sz \in Nat, NEW b, Fits(h, b, sz)
    PROVE  LET g == Take(h, b, sz) IN
           /\ Shape(g) /\ NoFreePairs(g)
           /\ b \notin Allocated(h)
           /\ Allocated(g) = Allocated(h) \cup {b}
           /\ \A a \in Allocated(h) : g.size[a] = h.size[a]
           /\ g.size[b] >= sz
<1>1. /\ b \in h.nodes /\ h.free[b] /\ h.size[b] >= sz
      /\ h.nodes \subseteq Addrs /\ Linked(h) /\ b \in Addrs
  BY DEF Fits, Shape, HeapRecord
<1> DEFINE s == IF Splits(h, b, sz) THEN Split(h, b, sz) ELSE h
           g == Take(h, b, sz)
\* Before it is marked, the block is free and its successor is the only
\* free neighbour it can have.
<1>2. /\ Shape(s) /\ b \in s.nodes /\ s.size[b] >= sz
      /\ FreePairsAt(s, b)
      /\ \A c \in s.nodes : s.next[c] = b => ~s.free[c]
      /\ Allocated(s) = Allocated(h)
      /\ \A a \in Allocated(h) : s.size[a] = h.size[a]
  <2>0. \A c \in h.nodes : h.next[c] = b => ~h.free[c]
    BY <1>1, HeapAssumption DEF NoFreePairs, Null, Addrs
  <2>1. CASE Splits(h, b, sz)
    <3> DEFINE nb == b + Hdr + sz
    <3>1. s = Split(h, b, sz)
      BY <2>1
    <3> HIDE DEF s, nb
    <3>2. Shape(s) /\ SplitAt(h, b, sz, s, nb)
      BY <1>1, <2>1, <3>1, SplitShape, SplitFields DEF nb
    <3>3. nb \in Addrs \ h.nodes /\ s.nodes = h.nodes \cup {nb} /\ b # nb
      BY <1>1, <3>2 DEF SplitAt
    <3>4. FreePairsAt(s, b)
      <4> SUFFICES ASSUME NEW c \in s.nodes, s.free[c], s.next[c] # Null,
                          s.free[s.next[c]], c # b, s.next[c] # b
                   PROVE  FALSE
        BY DEF FreePairsAt
      <4>1. CASE c = nb
        <5>1. s.next[c] = h.next[b] /\ h.next[b] # nb
          BY <1>1, <3>2, <3>3, <4>1, HeapAssumption DEF SplitAt, Linked, Null, Addrs
        <5>2. h.next[b] \in Addrs /\ s.free[h.next[b]] = h.free[h.next[b]]
          BY <1>1, <3>2, <5>1 DEF SplitAt, Linked
        <5>3. QED BY <1>1, <5>1, <5>2 DEF NoFreePairs
      <4>2. CASE c # nb
        <5>1. c \in h.nodes /\ s.next[c] = h.next[c] /\ h.free[c]
          BY <1>1, <3>2, <3>3, <4>2 DEF SplitAt
        <5>2. h.next[c] \in h.nodes
          BY <1>1, <5>1 DEF Linked
        <5>3. h.free[h.next[c]]
          BY <1>1, <3>2, <3>3, <5>1, <5>2 DEF SplitAt
        <5>4. QED BY <5>1, <5>3 DEF NoFreePairs
      <4>3. QED BY <4>1, <4>2
    <3>5. ASSUME NEW c \in s.nodes, s.next[c] = b PROVE ~s.free[c]
      <4>1. c # nb
        <5>1. s.next[nb] = End(h, b)
          BY <1>1, <3>2 DEF SplitAt, Linked
        <5>2. b < nb /\ nb < End(h, b) /\ nb \in Addrs
          BY <3>2 DEF SplitAt
        <5>3. h.size[b] \in Nat
          BY <1>1 DEF Shape, HeapRecord
        <5>4. b # End(h, b)
          BY <1>1, <5>3, HeapAssumption DEF End, Addrs
        <5>5. QED BY <3>5, <5>1, <5>4
      <4>2. c # b
        BY <1>1, <3>2, <3>3, <3>5 DEF SplitAt
      <4>3. c \in h.nodes /\ h.next[c] = b /\ s.free[c] = h.free[c]
        BY <1>1, <3>2, <3>3, <3>5, <4>1, <4>2 DEF SplitAt
      <4>4. QED BY <2>0, <4>3
    <3>6. Allocated(s) = Allocated(h)
      BY <1>1, <3>2, <3>3 DEF Allocated, SplitAt
    <3>7. \A a \in Allocated(h) : s.size[a] = h.size[a]
      BY <1>1, <3>2, <3>3 DEF Allocated, SplitAt
    <3>8. s.size[b] >= sz
      BY <3>2 DEF SplitAt
    <3>9. QED BY <1>1, <3>2, <3>3, <3>4, <3>5, <3>6, <3>7, <3>8
  <2>2. CASE ~Splits(h, b, sz)
    BY <1>1, <2>0, <2>2 DEF NoFreePairs, FreePairsAt
  <2>3. QED BY <2>1, <2>2
<1>3. g = Occupy(s, b)
  BY DEF Take
<1> HIDE DEF s, g
<1>4. s.nodes \subseteq Addrs
  BY <1>2 DEF Shape, HeapRecord
<1>5. /\ Shape(g)
      /\ g.nodes = s.nodes /\ g.size = s.size /\ g.next = s.next /\ g.prev = s.prev
      /\ \A a \in Addrs : g.free[a] = IF a = b THEN FALSE ELSE s.free[a]
  BY <1>2, <1>3, OccupyFields DEF MarkedAt
<1>6. NoFreePairs(g)
  <2> SUFFICES ASSUME NEW c \in g.nodes, g.free[c], g.next[c] # Null, g.free[g.next[c]]
               PROVE  FALSE
    BY DEF NoFreePairs
  <2>1. c \in s.nodes /\ s.next[c] = g.next[c] /\ s.next[c] \in s.nodes
    BY <1>2, <1>5 DEF Shape, Linked
  <2>2. c # b /\ s.free[c] /\ s.next[c] # b /\ s.free[s.next[c]]
    BY <1>4, <1>5, <2>1
  <2>3. QED BY <1>2, <2>1, <2>2 DEF FreePairsAt
<1>7. Allocated(g) = Allocated(s) \cup {b}
  BY <1>1, <1>2, <1>4, <1>5 DEF Allocated
<1>8. b \notin Allocated(h)
  BY <1>1 DEF Allocated
<1>9. QED BY <1>2, <1>5, <1>6, <1>7, <1>8 DEF g

-----------------------------------------------------------------------------
(* The invariant of the heap, and the theorems.                              *)

HeapInv ==
    /\ Shape(heap) /\ NoFreePairs(heap)
    /\ out \in Nat \X Addrs

\* A block of a well-formed list and the pointer to it lie inside the area.
LEMMA BlockInside ==
    ASSUME NEW h, Shape(h), NEW b \in h.nodes
    PROVE  /\ b \in Addrs /\ b + Hdr \in 1..HeapSize /\ h.size[b] \in 0..HeapSize
           /\ End(h, b) \in Nat /\ End(h, b) <= HeapSize
<1>1. /\ b \in Addrs /\ h.size[b] \in Nat /\ h.next[b] = b + Hdr + h.size[b]
      /\ h.next[b] \in Addrs \cup {Null}
  BY DEF Shape, HeapRecord, Linked, End
<1>2. QED BY <1>1, HeapAssumption DEF Addrs, Null, End

LEMMA HeapInvInit == Init => HeapInv
<1> SUFFICES ASSUME Init PROVE HeapInv
  OBVIOUS
<1> USE HeapAssumption
<1>1. HeapSize - Hdr \in Nat /\ 0 \in Addrs
  BY DEF Addrs
<1>2. heap \in HeapRecord
  BY <1>1 DEF Init, HeapRecord
<1>3. /\ heap.nodes = {0} /\ heap.size[0] = HeapSize - Hdr
      /\ heap.next[0] = Null /\ heap.prev[0] = NoPrev
  BY <1>1 DEF Init
<1>4. End(heap, 0) = HeapSize
  BY <1>1, <1>3 DEF End
<1>5. Linked(heap) /\ Ordered(heap) /\ NoFreePairs(heap)
  BY <1>1, <1>3, <1>4 DEF Linked, Ordered, NoFreePairs, Null
<1>6. Covers(heap)
  BY <1>3, <1>4 DEF Covers, Addrs
<1>7. out \in Nat \X Addrs
  BY <1>1 DEF Init
<1>8. QED BY <1>2, <1>5, <1>6, <1>7 DEF HeapInv, Shape

\* What a successful heap_alloc leaves behind; used by kmalloc and krealloc.
LEMMA AllocKeeps ==
    ASSUME HeapInv, NEW n \in Requests, NEW b \in heap.nodes,
           FirstFit(heap, b, AlignUp(n))
    PROVE  LET g == Take(heap, b, AlignUp(n)) IN
           /\ Shape(g) /\ NoFreePairs(g)
           /\ b \notin Allocated(heap)
           /\ Allocated(g) = Allocated(heap) \cup {b}
           /\ \A a \in Allocated(heap) : g.size[a] = heap.size[a]
           /\ g.size[b] >= n
           /\ n \in Nat /\ b + Hdr \in Addrs
<1>1. n \in Nat /\ AlignUp(n) \in Nat /\ n <= AlignUp(n) /\ n # 0
  BY HeapAssumption, AlignUpAtLeast
<1>2. Fits(heap, b, AlignUp(n))
  BY DEF FirstFit
<1> DEFINE g == Take(heap, b, AlignUp(n))
<1>3. /\ Shape(g) /\ NoFreePairs(g)
      /\ b \notin Allocated(heap)
      /\ Allocated(g) = Allocated(heap) \cup {b}
      /\ \A a \in Allocated(heap) : g.size[a] = heap.size[a]
      /\ g.size[b] >= AlignUp(n)
  BY <1>1, <1>2, TakeKeeps DEF HeapInv
<1> HIDE DEF g
<1>4. b \in g.nodes
  BY <1>3 DEF Allocated
<1>5. g.size[b] \in Nat /\ End(g, b) <= HeapSize /\ b \in Addrs
  BY <1>3, <1>4, BlockInside
<1>6. g.size[b] >= n /\ b + Hdr \in Addrs
  BY <1>1, <1>3, <1>5, HeapAssumption DEF End, Addrs
<1>7. QED BY <1>1, <1>3, <1>6 DEF g

LEMMA HeapInvNext == HeapInv /\ [Next]_vars => HeapInv'
<1> SUFFICES ASSUME HeapInv, [Next]_vars PROVE HeapInv'
  OBVIOUS
<1>1. ASSUME NEW n \in Requests, Kmalloc(n) PROVE HeapInv'
  <2>0. n \in Nat /\ 0 \in Addrs
    BY HeapAssumption DEF Addrs
  <2>1. CASE \E b \in heap.nodes :
               /\ FirstFit(heap, b, AlignUp(n))
               /\ heap' = Take(heap, b, AlignUp(n))
               /\ out' = <<n, b + Hdr>>
    BY <2>0, <2>1, AllocKeeps DEF HeapInv
  <2>2. CASE NoFit(n) /\ out' = <<n, 0>> /\ UNCHANGED heap
    BY <2>0, <2>2 DEF HeapInv
  <2>3. QED BY <1>1, <2>1, <2>2 DEF Kmalloc
<1>2. ASSUME NEW b \in heap.nodes, Kfree(b) PROVE HeapInv'
  BY <1>2, ReleaseKeeps DEF HeapInv, Kfree
<1>3. ASSUME NEW b \in heap.nodes, NEW n \in Requests, Krealloc(b, n) PROVE HeapInv'
  <2>0. n \in Nat /\ 0 \in Addrs /\ b \in Allocated(heap)
    BY <1>3, HeapAssumption DEF Addrs, Krealloc
  <2>1. CASE heap.size[b] >= n /\ out' = <<n, b + Hdr>> /\ UNCHANGED heap
    <3>1. b + Hdr \in Addrs
      <4>1. n > 0
        BY HeapAssumption
      <4>2. heap.size[b] \in Nat /\ End(heap, b) <= HeapSize /\ b \in Addrs
        BY BlockInside DEF HeapInv
      <4>3. QED BY <2>0, <2>1, <4>1, <4>2, HeapAssumption DEF End, Addrs
    <3>2. QED BY <2>0, <2>1, <3>1 DEF HeapInv
  <2>2. CASE \E c \in heap.nodes :
               /\ FirstFit(heap, c, AlignUp(n))
               /\ heap' = Release(Take(heap, c, AlignUp(n)), b)
               /\ out' = <<n, c + Hdr>>
    <3>1. PICK c \in heap.nodes :
               /\ FirstFit(heap, c, AlignUp(n))
               /\ heap' = Release(Take(heap, c, AlignUp(n)), b)
               /\ out' = <<n, c + Hdr>>
      BY <2>2
    <3> DEFINE g == Take(heap, c, AlignUp(n))
    <3>2. /\ Shape(g) /\ NoFreePairs(g) /\ b \in Allocated(g) /\ c + Hdr \in Addrs
      BY <2>0, <3>1, AllocKeeps
    <3> HIDE DEF g
    <3>3. heap' = Release(g, b)
      BY <3>1 DEF g
    <3>4. Shape(heap') /\ NoFreePairs(heap')
      BY <3>2, <3>3, ReleaseKeeps
    <3>5. QED BY <2>0, <3>1, <3>2, <3>4 DEF HeapInv
  <2>3. CASE NoFit(n) /\ out' = <<n, 0>> /\ UNCHANGED heap
    BY <2>0, <2>3 DEF HeapInv
  <2>4. QED BY <1>3, <2>1, <2>2, <2>3 DEF Krealloc
<1>4. CASE UNCHANGED vars
  BY <1>4 DEF vars, HeapInv
<1>5. QED BY <1>1, <1>2, <1>3, <1>4 DEF Next

\* The inductive invariant of the block list holds after any calls: headers,
\* links, what callers hold and coalescing agree.
THEOREM HeapInvAlways == Spec => []HeapInv
<1>1. QED BY HeapInvInit, HeapInvNext, PTL DEF Spec

\* The free list is typed, tiles the area and is fully coalesced.
THEOREM HeapTypes == Spec => []TypeOK
<1>1. HeapInv => TypeOK
  BY BlockInside DEF HeapInv, TypeOK, Shape, HeapRecord
<1>2. QED BY <1>1, HeapInvAlways, PTL

\* The blocks tile the area and their links are inverse, after any splits and
\* merges (split_block, merge_with_next).
THEOREM HeapTiles == Spec => []Tiling
<1>1. HeapInv => Tiling
  BY DEF HeapInv, Tiling, Shape, Linked
<1>2. QED BY <1>1, HeapInvAlways, PTL

\* kfree merges both ways, so that no two neighbours are ever both free.
THEOREM HeapCoalesced == Spec => []NoAdjacentFree
<1>1. HeapInv => NoAdjacentFree
  BY DEF HeapInv, NoFreePairs, NoAdjacentFree
<1>2. QED BY <1>1, HeapInvAlways, PTL

-----------------------------------------------------------------------------
(* heap_used(): the bytes in use are a sum over the allocated blocks, and    *)
(* each operation adds to it or takes from it what it puts into the set.     *)

Weights(h) == [a \in Addrs |-> h.size[a] + Hdr]
Counted(h) == h.used = SumOf(Weights(h), Allocated(h))

LEMMA AllocatedFinite ==
    ASSUME NEW h, Shape(h)
    PROVE  /\ IsFiniteSet(Allocated(h)) /\ Allocated(h) \subseteq Addrs
           /\ \A a \in Addrs : Weights(h)[a] = h.size[a] + Hdr /\ Weights(h)[a] \in Int
<1>1. IsFiniteSet(Addrs)
  BY HeapAssumption, FS_Interval DEF Addrs
<1>2. Allocated(h) \subseteq Addrs
  BY DEF Shape, HeapRecord, Allocated
<1>3. \A a \in Addrs : h.size[a] \in Nat
  BY DEF Shape, HeapRecord
<1>4. \A a \in Addrs : Weights(h)[a] = h.size[a] + Hdr /\ Weights(h)[a] \in Int
  BY <1>3, HeapAssumption DEF Weights
<1>5. QED BY <1>1, <1>2, <1>4, FS_Subset

\* The sum UsedIsExact speaks of.
LEMMA BytesAreSum ==
    ASSUME NEW h, Shape(h)
    PROVE  MapThenSumSet(LAMBDA b : h.size[b] + Hdr, Allocated(h)) = SumOf(Weights(h), Allocated(h))
<1> DEFINE A == Allocated(h)
           w == Weights(h)
           Bytes(f) == f = [s \in SUBSET A |->
                              IF s = {} THEN 0
                              ELSE (h.size[CHOOSE x \in s : TRUE] + Hdr) + f[s \ {CHOOSE x \in s : TRUE}]]
<1>1. MapThenSumSet(LAMBDA b : h.size[b] + Hdr, A) = (CHOOSE f : Bytes(f))[A]
  BY DEF MapThenSumSet, MapThenFoldSet
<1>2. /\ IsFiniteSet(A) /\ A \subseteq Addrs /\ \A a \in A : w[a] \in Int
      /\ \A a \in A : w[a] = h.size[a] + Hdr
  BY AllocatedFinite
<1> HIDE DEF A, w
<1>3. ASSUME NEW f PROVE Bytes(f) <=> Sums(f, A, w)
  <2>1. ASSUME NEW s \in SUBSET A, s # {}
        PROVE  w[Some(s)] = h.size[CHOOSE x \in s : TRUE] + Hdr
    <3>1. Some(s) \in A
      BY <2>1 DEF Some
    <3>2. w[Some(s)] = h.size[Some(s)] + Hdr
      BY <1>2, <3>1
    <3>3. QED BY <3>2 DEF Some
  <2>2. [s \in SUBSET A |-> IF s = {} THEN 0 ELSE w[Some(s)] + f[s \ {Some(s)}]]
      = [s \in SUBSET A |-> IF s = {} THEN 0
                            ELSE (h.size[CHOOSE x \in s : TRUE] + Hdr) + f[s \ {CHOOSE x \in s : TRUE}]]
    BY <2>1 DEF Some
  <2>3. QED BY <2>2 DEF Sums
<1> DEFINE g == CHOOSE f : Bytes(f)
<1>4. Sums(g, A, w)
  <2> HIDE DEF Bytes
  <2>1. \E f : Bytes(f)
    BY <1>2, <1>3, SumsExist
  <2>2. QED BY <1>3, <2>1
<1> HIDE DEF g
<1>5. PICK f \in [SUBSET A -> Int] : Sums(f, A, w) /\ SumOf(w, A) = f[A]
  BY <1>2, SumOfDef
<1>6. \A s \in SUBSET A : g[s] = f[s]
  <2>1. A \subseteq A /\ \A a \in A : w[a] = w[a]
    OBVIOUS
  <2>2. IsFiniteSet(A) /\ Sums(f, A, w)
    BY <1>2, <1>5
  <2>3. QED BY <1>4, <2>1, <2>2, SumsAgree
<1>7. g[A] = SumOf(w, A)
  BY <1>5, <1>6
<1>8. QED BY <1>1, <1>7 DEF g, A, w

LEMMA TakeCounts ==
    ASSUME NEW h, Shape(h), NoFreePairs(h), NEW sz \in Nat, NEW b, Fits(h, b, sz), Counted(h)
    PROVE  Counted(Take(h, b, sz))
<1> DEFINE g == Take(h, b, sz)
           A == Allocated(h)
<1>1. /\ Shape(g) /\ b \notin A /\ Allocated(g) = A \cup {b}
      /\ \A a \in A : g.size[a] = h.size[a]
  BY TakeKeeps
<1>2. g.used = h.used + g.size[b] + Hdr
  BY DEF Take, Occupy, Split
<1> HIDE DEF g
<1>3. /\ IsFiniteSet(A) /\ b \in Addrs
      /\ \A a \in A : Weights(h)[a] \in Int /\ Weights(g)[a] = Weights(h)[a]
      /\ Weights(g)[b] = g.size[b] + Hdr /\ Weights(g)[b] \in Int
  BY <1>1, AllocatedFinite
<1>4. SumOf(Weights(g), A) = SumOf(Weights(h), A)
  BY <1>3, SumOfSame
<1>5. /\ SumOf(Weights(g), A \cup {b}) = SumOf(Weights(g), A) + Weights(g)[b]
      /\ SumOf(Weights(g), A) \in Int
  BY <1>1, <1>3, SumOfOneMore
<1>6. h.used \in Int /\ g.size[b] \in Int /\ Hdr \in Int
  BY <1>1, <1>3, HeapAssumption DEF Shape, HeapRecord
<1>7. g.used = SumOf(Weights(g), Allocated(g))
  BY <1>1, <1>2, <1>3, <1>4, <1>5, <1>6 DEF Counted
<1>8. QED BY <1>7 DEF Counted, g

LEMMA ReleaseCounts ==
    ASSUME NEW h, Shape(h), NoFreePairs(h), NEW b \in Allocated(h), Counted(h)
    PROVE  Counted(Release(h, b))
<1> DEFINE g == Release(h, b)
           A == Allocated(g)
<1>1. /\ Shape(g) /\ b \notin A /\ Allocated(h) = A \cup {b}
      /\ \A a \in A : g.size[a] = h.size[a]
  BY ReleaseKeeps
<1>2. g.used = h.used - (h.size[b] + Hdr)
  BY DEF Release, Coalesce, MergePrev, MergeNext, Absorb, Vacate
<1> HIDE DEF g
<1>3. /\ IsFiniteSet(A) /\ b \in Addrs
      /\ \A a \in A : Weights(h)[a] \in Int /\ Weights(g)[a] = Weights(h)[a]
      /\ Weights(h)[b] = h.size[b] + Hdr /\ Weights(h)[b] \in Int
  BY <1>1, AllocatedFinite
<1>4. SumOf(Weights(g), A) = SumOf(Weights(h), A)
  BY <1>3, SumOfSame
<1>5. /\ SumOf(Weights(h), A \cup {b}) = SumOf(Weights(h), A) + Weights(h)[b]
      /\ SumOf(Weights(h), A) \in Int
  BY <1>1, <1>3, SumOfOneMore
<1>6. h.used \in Int /\ h.size[b] \in Int /\ Hdr \in Int
  BY <1>3, HeapAssumption DEF Shape, HeapRecord
<1>7. g.used = SumOf(Weights(g), Allocated(g))
  <2>1. h.used = SumOf(Weights(h), A \cup {b})
    BY <1>1 DEF Counted
  <2>2. h.used = SumOf(Weights(g), A) + (h.size[b] + Hdr)
    BY <1>3, <1>4, <1>5, <2>1
  <2>3. SumOf(Weights(g), A) \in Int
    BY <1>4, <1>5
  <2>4. QED BY <1>2, <1>6, <2>2, <2>3
<1>8. QED BY <1>7 DEF Counted, g

LEMMA CountedInit == Init => Counted(heap)
<1> SUFFICES ASSUME Init PROVE Counted(heap)
  OBVIOUS
<1>1. Allocated(heap) = {} /\ heap.used = 0
  <2>1. heap.nodes = {0} /\ heap.used = 0 /\ heap.free = [a \in Addrs |-> a = 0]
    BY DEF Init
  <2>2. heap.free[0]
    <3>1. 0 \in Addrs
      BY HeapAssumption DEF Addrs
    <3>2. QED BY <2>1, <3>1, Zenon
  <2>3. QED BY <2>1, <2>2 DEF Allocated
<1>2. QED BY <1>1, SumOfNone DEF Counted

LEMMA CountedNext == HeapInv /\ Counted(heap) /\ [Next]_vars => Counted(heap')
<1> SUFFICES ASSUME HeapInv, Counted(heap), [Next]_vars PROVE Counted(heap')
  OBVIOUS
<1>1. \A n \in Requests : AlignUp(n) \in Nat
  BY HeapAssumption, AlignUpAtLeast
<1>2. ASSUME NEW n \in Requests, Kmalloc(n) PROVE Counted(heap')
  <2>1. CASE UNCHANGED heap
    BY <2>1
  <2>2. CASE \E b \in heap.nodes : FirstFit(heap, b, AlignUp(n)) /\ heap' = Take(heap, b, AlignUp(n))
    BY <1>1, <2>2, TakeCounts DEF HeapInv, FirstFit
  <2>3. QED BY <1>2, <2>1, <2>2 DEF Kmalloc
<1>3. ASSUME NEW b \in heap.nodes, Kfree(b) PROVE Counted(heap')
  BY <1>3, ReleaseCounts DEF HeapInv, Kfree
<1>4. ASSUME NEW b \in heap.nodes, NEW n \in Requests, Krealloc(b, n) PROVE Counted(heap')
  <2>1. CASE UNCHANGED heap
    BY <2>1
  <2>2. CASE \E c \in heap.nodes : /\ FirstFit(heap, c, AlignUp(n))
                                   /\ heap' = Release(Take(heap, c, AlignUp(n)), b)
    <3>1. PICK c \in heap.nodes : /\ FirstFit(heap, c, AlignUp(n))
                                  /\ heap' = Release(Take(heap, c, AlignUp(n)), b)
      BY <2>2
    <3> DEFINE g == Take(heap, c, AlignUp(n))
    <3>2. b \in Allocated(heap)
      BY <1>4 DEF Krealloc
    <3>3. Shape(g) /\ NoFreePairs(g) /\ b \in Allocated(g)
      BY <3>1, <3>2, AllocKeeps
    <3>4. Counted(g)
      BY <1>1, <3>1, TakeCounts DEF HeapInv, FirstFit
    <3>5. heap' = Release(g, b)
      BY <3>1
    <3> HIDE DEF g
    <3>6. QED BY <3>3, <3>4, <3>5, ReleaseCounts
  <2>3. QED BY <1>4, <2>1, <2>2 DEF Krealloc
<1>5. CASE UNCHANGED vars
  BY <1>5 DEF vars
<1>6. QED BY <1>2, <1>3, <1>4, <1>5 DEF Next

\* heap_used() is, after any calls, exactly the bytes of the allocated blocks
\* and their headers.
THEOREM HeapUsedIsExact == Spec => []UsedIsExact
<1>1. Init => HeapInv /\ Counted(heap)
  BY HeapInvInit, CountedInit
<1>2. HeapInv /\ Counted(heap) /\ [Next]_vars => (HeapInv /\ Counted(heap))'
  BY HeapInvNext, CountedNext
<1>3. HeapInv /\ Counted(heap) => UsedIsExact
  BY BytesAreSum DEF HeapInv, Counted, UsedIsExact
<1>4. QED BY <1>1, <1>2, <1>3, PTL DEF Spec

-----------------------------------------------------------------------------
(* Refinement of Allocator.tla.                                              *)

\* Unoccupied, in terms of headers.
LEMMA LiveUnoccupied ==
    ASSUME NEW h, Shape(h), NEW lo \in Int, NEW hi \in Int
    PROVE  Promise!Unoccupied(lo, hi, Live(h))
             <=> \A c \in Allocated(h) : hi <= c \/ End(h, c) <= lo
<1>1. \A c \in Allocated(h) : c \in Int /\ h.size[c] \in Int /\ Hdr \in Int
  BY HeapAssumption DEF Allocated, Shape, HeapRecord, Addrs
<1>2. \A c \in Allocated(h) : (c + Hdr) - Hdr = c /\ (c + Hdr) + h.size[c] = End(h, c)
  BY <1>1 DEF End
<1>3. ASSUME Promise!Unoccupied(lo, hi, Live(h)), NEW c \in Allocated(h)
      PROVE  hi <= c \/ End(h, c) <= lo
  <2>1. <<c + Hdr, h.size[c]>> \in Live(h)
    BY DEF Live
  <2>2. hi <= (c + Hdr) - Hdr \/ (c + Hdr) + h.size[c] <= lo
    BY <1>3, <2>1 DEF Promise!Unoccupied
  <2>3. QED BY <1>2, <2>2
<1>4. ASSUME \A c \in Allocated(h) : hi <= c \/ End(h, c) <= lo, NEW x \in Live(h)
      PROVE  hi <= x[1] - Hdr \/ x[1] + x[2] <= lo
  <2>1. PICK c \in Allocated(h) : x = <<c + Hdr, h.size[c]>>
    BY DEF Live
  <2>2. QED BY <1>2, <1>4, <2>1
<1>5. QED BY <1>3, <1>4 DEF Promise!Unoccupied

\* A request that fits no free block fits no hole at all: a hole starts inside
\* some block, which is free; it cannot reach past that block's end, because
\* the next block is not free as well.
LEMMA NoFitNoHole ==
    ASSUME HeapInv, NEW n \in Requests, NoFit(n)
    PROVE  ~Promise!HasHole(n, Live(heap))
<1> DEFINE sz == AlignUp(n)
<1>0. sz \in Nat /\ Promise!Rounded(n) = sz /\ Hdr \in Nat \ {0} /\ HeapSize \in Nat
  BY HeapAssumption, AlignUpAtLeast DEF AlignUp, Promise!Rounded
<1>1. \A b \in heap.nodes : heap.free[b] => ~(heap.size[b] >= sz)
  BY DEF NoFit, Fits
<1> HIDE DEF sz
<1>2. /\ heap.nodes \subseteq Addrs /\ Linked(heap) /\ Covers(heap)
      /\ \A b \in heap.nodes : heap.size[b] \in Nat
  BY DEF HeapInv, Shape, HeapRecord
<1> SUFFICES ASSUME NEW a \in 0..(HeapSize - Hdr - sz),
                    Promise!Unoccupied(a, a + Hdr + sz, Live(heap))
             PROVE  FALSE
  BY <1>0 DEF Promise!HasHole
<1>3. a \in Addrs /\ a + Hdr + sz \in Nat /\ a + Hdr + sz <= HeapSize
  BY <1>0 DEF Addrs
<1>4. \A c \in Allocated(heap) : a + Hdr + sz <= c \/ End(heap, c) <= a
  BY <1>3, LiveUnoccupied DEF HeapInv, Addrs
<1>5. PICK b \in heap.nodes : b <= a /\ a < End(heap, b)
  BY <1>2, <1>3 DEF Covers
<1>6. heap.free[b]
  BY <1>0, <1>2, <1>3, <1>4, <1>5 DEF Allocated, Addrs, End
<1>7. a + Hdr + sz > End(heap, b)
  BY <1>0, <1>1, <1>2, <1>3, <1>5, <1>6 DEF End, Addrs
<1>8. End(heap, b) # Null /\ End(heap, b) = heap.next[b]
  BY <1>0, <1>2, <1>3, <1>7 DEF Null, Linked, End, Addrs
<1>9. heap.next[b] \in Allocated(heap)
  BY <1>2, <1>6, <1>8 DEF HeapInv, NoFreePairs, Allocated, Linked
<1>10. heap.next[b] \in Addrs /\ heap.size[heap.next[b]] \in Nat
  BY <1>2, <1>9 DEF Allocated
<1>11. QED BY <1>0, <1>3, <1>4, <1>5, <1>7, <1>8, <1>9, <1>10 DEF End, Addrs

\* A block of the list is a legal place next to every other allocated block.
LEMMA TakenIsPlaced ==
    ASSUME NEW h, NEW g, Shape(h), Shape(g), NEW b, b \notin Allocated(h),
           Allocated(g) = Allocated(h) \cup {b},
           \A a \in Allocated(h) : g.size[a] = h.size[a],
           NEW n, n <= g.size[b]
    PROVE  Promise!Places(b + Hdr, g.size[b], n, Live(h))
<1>1. b \in g.nodes /\ b \in Addrs /\ g.size[b] \in Nat /\ End(g, b) <= HeapSize
  BY BlockInside DEF Allocated
<1>2. /\ (b + Hdr) - Hdr = b /\ (b + Hdr) + g.size[b] = End(g, b)
      /\ Hdr <= b + Hdr /\ End(g, b) \in Int /\ b \in Int
  BY <1>1, HeapAssumption DEF End, Addrs
<1>3. \A c \in Allocated(h) : End(g, b) <= c \/ End(h, c) <= b
  <2> SUFFICES ASSUME NEW c \in Allocated(h) PROVE End(g, b) <= c \/ End(h, c) <= b
    OBVIOUS
  <2>1. c \in g.nodes /\ c # b /\ c \in Addrs /\ End(g, c) = End(h, c)
    BY DEF Allocated, Shape, HeapRecord, End
  <2>2. CASE c < b
    BY <1>1, <2>1, <2>2 DEF Shape, Ordered
  <2>3. CASE b < c
    BY <1>1, <2>1, <2>3 DEF Shape, Ordered
  <2>4. QED BY <1>1, <2>1, <2>2, <2>3 DEF Addrs
<1>4. Promise!Unoccupied(b, End(g, b), Live(h))
  BY <1>2, <1>3, LiveUnoccupied
<1>5. QED BY <1>1, <1>2, <1>4 DEF Promise!Places

\* Freeing a block takes it, and nothing else, from what callers hold.
LEMMA LiveShrinks ==
    ASSUME NEW h, Shape(h), NEW g, NEW b \in Allocated(h),
           Allocated(g) = Allocated(h) \ {b},
           \A a \in Allocated(h) \ {b} : g.size[a] = h.size[a]
    PROVE  Live(g) = Live(h) \ {<<b + Hdr, h.size[b]>>}
<1>1. \A a \in Allocated(h) : a \in Int
  BY DEF Allocated, Shape, HeapRecord, Addrs
<1>2. \A a \in Allocated(h) \ {b} :
        <<a + Hdr, h.size[a]>> # <<b + Hdr, h.size[b]>>
  BY <1>1, HeapAssumption
<1>3. Live(g) = {<<a + Hdr, h.size[a]>> : a \in Allocated(h) \ {b}}
  BY DEF Live
<1>4. QED BY <1>2, <1>3 DEF Live

\* heap_alloc finding a place, and heap_dealloc, as the abstract allocator
\* sees them.
LEMMA AllocPlaces ==
    ASSUME HeapInv, NEW n \in Requests, NEW c \in heap.nodes,
           FirstFit(heap, c, AlignUp(n))
    PROVE  LET g == Take(heap, c, AlignUp(n)) IN
           /\ c + Hdr \in 1..HeapSize /\ g.size[c] \in 0..HeapSize
           /\ Promise!Places(c + Hdr, g.size[c], n, Live(heap))
           /\ Live(g) = Live(heap) \cup {<<c + Hdr, g.size[c]>>}
<1> DEFINE g == Take(heap, c, AlignUp(n))
<1>1. /\ Shape(g) /\ c \notin Allocated(heap)
      /\ Allocated(g) = Allocated(heap) \cup {c}
      /\ \A a \in Allocated(heap) : g.size[a] = heap.size[a]
      /\ n <= g.size[c]
  <2>1. /\ Shape(g) /\ c \notin Allocated(heap)
        /\ Allocated(g) = Allocated(heap) \cup {c}
        /\ \A a \in Allocated(heap) : g.size[a] = heap.size[a]
        /\ g.size[c] >= n /\ n \in Nat
    BY AllocKeeps
  <2> HIDE DEF g
  <2>2. g.size[c] \in Nat
    BY <2>1, BlockInside DEF Allocated
  <2>3. QED BY <2>1, <2>2
<1> HIDE DEF g
<1>2. c \in g.nodes
  BY <1>1 DEF Allocated
<1>3. c + Hdr \in 1..HeapSize /\ g.size[c] \in 0..HeapSize
  BY <1>1, <1>2, BlockInside
<1>4. Promise!Places(c + Hdr, g.size[c], n, Live(heap))
  BY <1>1, TakenIsPlaced DEF HeapInv
<1>5. Live(g) = Live(heap) \cup {<<c + Hdr, g.size[c]>>}
  BY <1>1 DEF Live
<1>6. QED BY <1>3, <1>4, <1>5 DEF g

LEMMA KmallocIsAlloc ==
    ASSUME HeapInv, NEW n \in Requests, Kmalloc(n)
    PROVE  Promise!Alloc(n)
<1>1. CASE \E b \in heap.nodes :
             /\ FirstFit(heap, b, AlignUp(n))
             /\ heap' = Take(heap, b, AlignUp(n))
             /\ out' = <<n, b + Hdr>>
  <2>1. PICK b \in heap.nodes :
             /\ FirstFit(heap, b, AlignUp(n))
             /\ heap' = Take(heap, b, AlignUp(n))
             /\ out' = <<n, b + Hdr>>
    BY <1>1
  <2>2. /\ b + Hdr \in 1..HeapSize /\ heap'.size[b] \in 0..HeapSize
        /\ Promise!Places(b + Hdr, heap'.size[b], n, Live(heap))
        /\ Live(heap') = Live(heap) \cup {<<b + Hdr, heap'.size[b]>>}
    BY <2>1, AllocPlaces
  <2>3. QED BY <2>1, <2>2 DEF Promise!Alloc
<1>2. CASE NoFit(n) /\ out' = <<n, 0>> /\ UNCHANGED heap
  <2>1. ~Promise!HasHole(n, Live(heap))
    BY <1>2, NoFitNoHole
  <2>2. QED BY <1>2, <2>1 DEF Promise!Alloc, Promise!Null
<1>3. QED BY <1>1, <1>2 DEF Kmalloc

LEMMA KfreeIsFree ==
    ASSUME HeapInv, NEW b \in heap.nodes, Kfree(b)
    PROVE  \E x \in Live(heap) : Promise!Free(x)
<1>1. b \in Allocated(heap) /\ heap' = Release(heap, b) /\ UNCHANGED out
  BY DEF Kfree
<1>2. /\ Allocated(heap') = Allocated(heap) \ {b}
      /\ \A a \in Allocated(heap) \ {b} : heap'.size[a] = heap.size[a]
  BY <1>1, ReleaseKeeps DEF HeapInv
<1>3. Live(heap') = Live(heap) \ {<<b + Hdr, heap.size[b]>>}
  BY <1>1, <1>2, LiveShrinks DEF HeapInv
<1>4. <<b + Hdr, heap.size[b]>> \in Live(heap)
  BY <1>1 DEF Live
<1>5. QED BY <1>1, <1>3, <1>4 DEF Promise!Free

LEMMA KreallocIsRealloc ==
    ASSUME HeapInv, NEW b \in heap.nodes, NEW n \in Requests, Krealloc(b, n)
    PROVE  \E x \in Live(heap) : Promise!Realloc(x, n)
<1> DEFINE x == <<b + Hdr, heap.size[b]>>
<1>0. /\ b \in Allocated(heap) /\ x \in Live(heap)
      /\ heap.size[b] \in Nat /\ n \in Nat
  BY BlockInside, HeapAssumption DEF Krealloc, Live, HeapInv
<1>1. CASE heap.size[b] >= n /\ out' = <<n, b + Hdr>> /\ UNCHANGED heap
  <2>1. Promise!Realloc(x, n)
    BY <1>0, <1>1 DEF Promise!Realloc
  <2>2. QED BY <1>0, <2>1
<1>2. CASE \E c \in heap.nodes :
             /\ FirstFit(heap, c, AlignUp(n))
             /\ heap' = Release(Take(heap, c, AlignUp(n)), b)
             /\ out' = <<n, c + Hdr>>
  <2>1. PICK c \in heap.nodes :
             /\ FirstFit(heap, c, AlignUp(n))
             /\ heap' = Release(Take(heap, c, AlignUp(n)), b)
             /\ out' = <<n, c + Hdr>>
    BY <1>2
  <2> DEFINE g == Take(heap, c, AlignUp(n))
             y == <<c + Hdr, g.size[c]>>
  <2>2. /\ c + Hdr \in 1..HeapSize /\ g.size[c] \in 0..HeapSize
        /\ Promise!Places(c + Hdr, g.size[c], n, Live(heap))
        /\ Live(g) = Live(heap) \cup {y}
    BY <2>1, AllocPlaces
  <2>3. /\ Shape(g) /\ NoFreePairs(g) /\ b \in Allocated(g)
        /\ c # b /\ g.size[b] = heap.size[b]
    BY <1>0, <2>1, AllocKeeps
  <2>4. heap' = Release(g, b)
    BY <2>1
  <2> HIDE DEF g
  <2>5. Live(heap') = Live(g) \ {x}
    BY <2>3, <2>4, ReleaseKeeps, LiveShrinks
  <2>6. y # x
    <3>1. b \in Int /\ c \in Int
      BY DEF HeapInv, Shape, HeapRecord, Addrs
    <3>2. QED BY <2>3, <3>1, HeapAssumption
  <2>7. Live(heap') = (Live(heap) \ {x}) \cup {y}
    BY <2>2, <2>5, <2>6
  <2>8. Promise!Realloc(x, n)
    BY <2>1, <2>2, <2>7 DEF Promise!Realloc
  <2>9. QED BY <1>0, <2>8
<1>3. CASE heap.size[b] < n /\ NoFit(n) /\ out' = <<n, 0>> /\ UNCHANGED heap
  <2>1. ~Promise!HasHole(n, Live(heap))
    BY <1>3, NoFitNoHole
  <2>2. Promise!Realloc(x, n)
    BY <1>0, <1>3, <2>1 DEF Promise!Realloc, Promise!Null
  <2>3. QED BY <1>0, <2>2
<1>4. QED BY <1>1, <1>2, <1>3 DEF Krealloc

\* The heap of heap.c keeps the promise of Allocator.tla: blocks as large as
\* asked for that never overlap, failure only without a hole, and a krealloc
\* that fails without losing its block.
THEOREM HeapKeepsPromise == Spec => KeepsPromise
<1>1. Init => Promise!Init
  <2> SUFFICES ASSUME Init PROVE Promise!Init
    OBVIOUS
  <2>1. heap.nodes = {0} /\ heap.free[0]
    <3>1. 0 \in Addrs
      BY HeapAssumption DEF Addrs
    <3>2. QED BY <3>1 DEF Init
  <2>2. Live(heap) = {}
    BY <2>1 DEF Live, Allocated
  <2>3. QED BY <2>2 DEF Promise!Init, Promise!Null, Init
<1>2. HeapInv /\ [Next]_vars => [Promise!Next]_(Promise!vars)
  <2> SUFFICES ASSUME HeapInv, [Next]_vars
               PROVE  [Promise!Next]_(Promise!vars)
    OBVIOUS
  <2>1. ASSUME NEW n \in Requests, Kmalloc(n) PROVE Promise!Next
    BY <2>1, KmallocIsAlloc DEF Promise!Next
  <2>2. ASSUME NEW b \in heap.nodes, Kfree(b) PROVE Promise!Next
    BY <2>2, KfreeIsFree DEF Promise!Next
  <2>3. ASSUME NEW b \in heap.nodes, NEW n \in Requests, Krealloc(b, n)
        PROVE  Promise!Next
    BY <2>3, KreallocIsRealloc DEF Promise!Next
  <2>4. CASE UNCHANGED vars
    BY <2>4 DEF vars, Promise!vars
  <2>5. QED BY <2>1, <2>2, <2>3, <2>4 DEF Next
<1>3. QED BY <1>1, <1>2, HeapInvAlways, PTL DEF Spec, KeepsPromise, Promise!Spec

-----------------------------------------------------------------------------
(* Physical frames.                                                        *)


\* What a loader may pass.
Infos == {[flag |-> "mmap", map |-> m] : m \in Maps}
            \cup {[flag |-> "mem", end |-> e] : e \in MemUppers}
            \cup {[flag |-> "none"]}

\* The frames on offer after pmm_init.
Offered(i) == Available(i) \ Reserved

\* The frames below total_frames that are marked used.
Marked == {f \in 0..(totalFrames - 1) : used[f]}

-----------------------------------------------------------------------------
(* Arithmetic.                                                               *)

LEMMA MaxOf ==
    ASSUME NEW S \in SUBSET Int, NEW x \in S, \A y \in S : y <= x
    PROVE  Max(S) = x
<1>1. \A y \in S : x >= y
  OBVIOUS
<1>2. Max(S) \in S /\ \A y \in S : Max(S) >= y
  BY <1>1 DEF Max
<1>3. Max(S) \in Int /\ x \in Int /\ Max(S) >= x /\ Max(S) <= x
  BY <1>2
<1> QED BY <1>3

LEMMA MinOf ==
    ASSUME NEW S \in SUBSET Int, NEW x \in S, \A y \in S : x <= y
    PROVE  Min(S) = x
<1>1. \A y \in S : x =< y
  OBVIOUS
<1>2. Min(S) \in S /\ \A y \in S : Min(S) =< y
  BY <1>1 DEF Min
<1>3. Min(S) \in Int /\ x \in Int /\ Min(S) <= x /\ Min(S) >= x
  BY <1>2
<1> QED BY <1>3

\* A quotient and its remainder.
LEMMA Quotient ==
    ASSUME NEW N \in Nat \ {0}, NEW x \in Nat
    PROVE  /\ x \div N \in Nat
           /\ N * (x \div N) <= x
           /\ x < N * (x \div N) + N
           /\ x = N * (x \div N) + (x % N)
<1>1. x \div N \in Int /\ x % N \in 0..N - 1 /\ x = N * (x \div N) + (x % N)
  OBVIOUS
<1>2. x \div N >= 0
  <2>1. CASE x \div N <= -1
    <3>1. N * (x \div N) <= -N
      BY <1>1, <2>1
    <3> QED BY <1>1, <3>1
  <2> QED BY <1>1, <2>1
<1> QED BY <1>1, <1>2

\* A multiple has its factor for quotient.
LEMMA WholeQuotient ==
    ASSUME NEW N \in Nat \ {0}, NEW q \in Nat
    PROVE  (N * q) \div N = q
<1> DEFINE p == (N * q) \div N
<1>1. p \in Nat /\ N * p <= N * q /\ N * q < N * p + N
  <2>1. N * q \in Nat
    OBVIOUS
  <2> QED BY <2>1, Quotient
<1>2. CASE p >= q + 1
  <2>1. N * p >= N * (q + 1)
    BY <1>1, <1>2
  <2>2. N * (q + 1) = N * q + N
    OBVIOUS
  <2> QED BY <1>1, <2>1, <2>2
<1>3. CASE p <= q - 1
  <2>1. N * p <= N * (q - 1)
    BY <1>1, <1>3
  <2>2. N * (q - 1) = N * q - N
    OBVIOUS
  <2> QED BY <1>1, <2>1, <2>2
<1> QED BY <1>1, <1>2, <1>3

-----------------------------------------------------------------------------
(* What pmm_init offers.                                                     *)

\* total_frames is a number of frames the bitmap holds.
LEMMA TotalFits ==
    ASSUME NEW i \in Infos
    PROVE  Total(i) \in 0..MaxFrames
<1> USE PmmAssumption
<1>1. MaxAddr(i) \in Nat
  <2> DEFINE floor == MinFrames * PageSize
  <2>0. floor \in Nat
    OBVIOUS
  <2>1. ASSUME NEW m \in Maps, i = [flag |-> "mmap", map |-> m] PROVE MaxAddr(i) \in Nat
    <3> DEFINE ends == {r.end : r \in m} \cup {floor}
    <3>1. ends \in SUBSET Int /\ floor \in ends
      BY <2>0
    <3>2. \E x \in ends : \A y \in ends : y <= x
      <4>1. CASE m = {}
        BY <2>0, <4>1
      <4>2. CASE m # {}
        <5>1. PICK last \in m : \A r \in m : r.end <= last.end
          BY <4>2
        <5>2. last.end \in Nat /\ last.end \in ends
          OBVIOUS
        <5>3. CASE last.end <= floor
          BY <2>0, <5>1, <5>2, <5>3
        <5>4. CASE last.end > floor
          BY <2>0, <5>1, <5>2, <5>4
        <5> QED BY <2>0, <5>2, <5>3, <5>4
      <4> QED BY <4>1, <4>2
    <3>3. PICK x \in ends : \A y \in ends : y <= x
      BY <3>2
    <3>4. Max(ends) = x
      BY <3>1, <3>3, MaxOf
    <3>5. x \in Nat
      BY <2>0
    <3>6. MaxAddr(i) = Max(ends)
      BY <2>1 DEF MaxAddr
    <3> QED BY <3>4, <3>5, <3>6
  <2>2. ASSUME NEW e \in MemUppers, i = [flag |-> "mem", end |-> e] PROVE MaxAddr(i) \in Nat
    BY <2>2 DEF MaxAddr
  <2>3. ASSUME i = [flag |-> "none"] PROVE MaxAddr(i) \in Nat
    BY <2>0, <2>3 DEF MaxAddr
  <2> QED BY <2>1, <2>2, <2>3 DEF Infos
<1>2. MaxAddr(i) \div PageSize \in Nat
  BY <1>1, Quotient
<1>3. CASE MaxAddr(i) \div PageSize <= MaxFrames
  BY <1>2, <1>3, MinOf DEF Total
<1>4. CASE MaxAddr(i) \div PageSize > MaxFrames
  BY <1>2, <1>4, MinOf DEF Total
<1> QED BY <1>2, <1>3, <1>4

\* What is on offer is neither low memory nor the kernel.
LEMMA OfferIsSafe ==
    ASSUME NEW i \in Infos, NEW f \in Offered(i)
    PROVE  /\ f \in 0..(Total(i) - 1)
           /\ f >= LowFrames /\ f * PageSize >= KernelEnd
<1> USE PmmAssumption
<1> DEFINE kend == (KernelEnd + PageSize - 1) \div PageSize
<1>1. Total(i) \in Nat
  BY TotalFits
<1>2. f \in 0..(Total(i) - 1) /\ f \notin Reserved
  BY DEF Offered, Available
<1>3. kend \in Nat /\ KernelEnd + PageSize - 1 < PageSize * kend + PageSize
  <2>1. KernelEnd + PageSize - 1 \in Nat
    OBVIOUS
  <2> QED BY <2>1, Quotient
<1>4. PICK top \in {kend, LowFrames} : kend <= top /\ LowFrames <= top
  BY <1>3
<1>5. Max({kend, LowFrames}) = top
  BY <1>3, <1>4, MaxOf
<1>6. f >= top
  BY <1>1, <1>2, <1>3, <1>5 DEF Reserved
<1>7. f >= kend /\ f >= LowFrames /\ f \in Nat
  BY <1>1, <1>2, <1>3, <1>4, <1>6
<1>8. PageSize * f >= PageSize * kend
  BY <1>3, <1>7
<1>9. PageSize * f = f * PageSize /\ PageSize * f \in Nat /\ PageSize * kend \in Nat
  BY <1>3, <1>7
<1> QED BY <1>2, <1>3, <1>7, <1>8, <1>9

\* Under a page-aligned map it is RAM from its first byte to its last.
LEMMA OfferIsRam ==
    ASSUME NEW i \in Infos, NEW f \in Offered(i), i.flag = "mmap",
           \A r \in i.map : r.start % PageSize = 0
    PROVE  \E r \in i.map : r.start <= f * PageSize /\ (f + 1) * PageSize <= r.end
<1> USE PmmAssumption
<1>1. i.map \in Maps
  BY DEF Infos
<1>2. PICK r \in i.map : f \in RegionFrames(r)
  BY DEF Offered, Available
<1>3. r.start \in Nat /\ r.end \in Nat /\ r.start <= r.end /\ r.start % PageSize = 0
  BY <1>1, <1>2
<1> DEFINE q == r.start \div PageSize
           n == (r.end - r.start) \div PageSize
<1>4. q \in Nat /\ r.start = PageSize * q
  <2>1. q \in Nat /\ r.start = PageSize * q + (r.start % PageSize)
    BY <1>3, Quotient
  <2> QED BY <1>3, <2>1
<1>5. n \in Nat /\ PageSize * n <= r.end - r.start
  <2>1. r.end - r.start \in Nat
    BY <1>3
  <2> QED BY <2>1, Quotient
<1>6. PICK k \in 0..(n - 1) : f = (r.start + k * PageSize) \div PageSize
  BY <1>2 DEF RegionFrames
<1>7. f = q + k
  <2>1. q + k \in Nat
    BY <1>4, <1>5
  <2>2. PageSize * (q + k) = PageSize * q + k * PageSize
    BY <1>4, <1>5
  <2> QED BY <1>4, <1>6, <2>1, <2>2, WholeQuotient
<1>8. f * PageSize = r.start + k * PageSize /\ k * PageSize \in Nat
  BY <1>4, <1>5, <1>7
<1>9. (f + 1) * PageSize = f * PageSize + PageSize
  BY <1>4, <1>5, <1>7
<1>10. k * PageSize + PageSize <= PageSize * n
  <2>1. PageSize * (k + 1) <= PageSize * n
    BY <1>5
  <2>2. PageSize * (k + 1) = k * PageSize + PageSize
    BY <1>5
  <2> QED BY <2>1, <2>2
<1> QED BY <1>2, <1>3, <1>5, <1>8, <1>9, <1>10

-----------------------------------------------------------------------------
(* The invariant.                                                            *)

PmmInv ==
    /\ info \in Infos
    /\ totalFrames = Total(info)
    /\ used \in [Frames -> BOOLEAN]
    /\ held \subseteq Offered(info)
    /\ \A f \in Frames : f >= totalFrames => used[f]
    /\ FramesAccounted
    /\ CountIsExact

\* What follows from the state alone: the indices are in range.
LEMMA Ranges ==
    ASSUME PmmInv
    PROVE  /\ totalFrames \in 0..MaxFrames
           /\ 0..(totalFrames - 1) \subseteq Frames
           /\ Offered(info) \subseteq 0..(totalFrames - 1)
           /\ IsFiniteSet(Marked) /\ Cardinality(Marked) \in 0..totalFrames
           /\ usedFrames = Cardinality(Marked)
<1>1. totalFrames \in 0..MaxFrames
  BY TotalFits DEF PmmInv
<1>2. 0..(totalFrames - 1) \subseteq Frames
  BY <1>1, PmmAssumption DEF Frames
<1>3. Offered(info) \subseteq 0..(totalFrames - 1)
  BY DEF PmmInv, Offered, Available
<1>4. IsFiniteSet(Marked) /\ Cardinality(Marked) \in 0..totalFrames
  <2>1. /\ IsFiniteSet(0..(totalFrames - 1))
        /\ Cardinality(0..(totalFrames - 1)) = totalFrames
    BY <1>1, FS_Interval
  <2>2. Marked \in SUBSET (0..(totalFrames - 1))
    BY DEF Marked
  <2>3. IsFiniteSet(Marked) /\ Cardinality(Marked) <= totalFrames
    BY <2>1, <2>2, FS_Subset
  <2>4. Cardinality(Marked) \in Nat
    BY <2>3, FS_CardinalityType
  <2> QED BY <1>1, <2>3, <2>4
<1>5. usedFrames = Cardinality(Marked)
  BY DEF PmmInv, CountIsExact, Marked
<1> QED BY <1>1, <1>2, <1>3, <1>4, <1>5

LEMMA PmmInvInit == PmmBoot => PmmInv
<1> SUFFICES ASSUME NEW i \in Infos, PmmInit(i) PROVE PmmInv
  BY DEF PmmBoot, Infos
<1>1. /\ info = i /\ totalFrames = Total(i) /\ held = {}
      /\ used = [f \in Frames |-> f \notin Offered(i)]
      /\ usedFrames = Total(i) - Cardinality(Offered(i))
  BY DEF PmmInit, Offered
<1>2. Total(i) \in 0..MaxFrames
  BY TotalFits
<1> DEFINE all == 0..(Total(i) - 1)
<1>3. all \subseteq Frames /\ Offered(i) \in SUBSET all
  BY <1>2, PmmAssumption DEF Frames, Offered, Available
<1>4. FramesAccounted
  BY <1>1, <1>3 DEF FramesAccounted, Offered
<1>5. \A f \in Frames : f >= totalFrames => used[f]
  <2> SUFFICES ASSUME NEW f \in Frames, f >= Total(i) PROVE used[f]
    BY <1>1
  <2>1. f \notin all
    BY <1>2
  <2> QED BY <1>1, <1>3, <2>1
<1>6. CountIsExact
  <2>1. IsFiniteSet(all) /\ Cardinality(all) = Total(i)
    BY <1>2, FS_Interval
  <2>2. Cardinality(all \ Offered(i)) = Cardinality(all) - Cardinality(all \cap Offered(i))
    BY <2>1, FS_Difference
  <2>3. all \cap Offered(i) = Offered(i)
    BY <1>3
  <2>4. Cardinality(all \ Offered(i)) = Total(i) - Cardinality(Offered(i))
    BY <2>1, <2>2, <2>3
  <2>5. {f \in 0..(totalFrames - 1) : used[f]} = all \ Offered(i)
    BY <1>1, <1>3
  <2> QED BY <1>1, <2>4, <2>5 DEF CountIsExact
<1> QED BY <1>1, <1>4, <1>5, <1>6 DEF PmmInv

\* Allocation marks a frame that was on offer and that nobody held.
LEMMA AllocStep ==
    ASSUME PmmInv, AllocFrame
    PROVE  PmmInv'
<1>1. PICK f \in 0..(totalFrames - 1) :
        /\ ~used[f]
        /\ used' = [used EXCEPT ![f] = TRUE]
        /\ usedFrames' = usedFrames + 1
        /\ held' = held \cup {f}
        /\ info' = info /\ totalFrames' = totalFrames
  BY DEF AllocFrame
<1>2. /\ 0..(totalFrames - 1) \subseteq Frames
      /\ IsFiniteSet(Marked) /\ Cardinality(Marked) \in Nat
      /\ usedFrames = Cardinality(Marked)
      /\ totalFrames \in Nat
  BY Ranges, PmmAssumption
<1>3. f \in Offered(info) /\ f \notin held
  BY <1>1 DEF PmmInv, FramesAccounted, Offered
<1>4. /\ used' \in [Frames -> BOOLEAN]
      /\ used'[f] /\ \A g \in Frames : g # f => used'[g] = used[g]
  BY <1>1, <1>2 DEF PmmInv
<1>5. FramesAccounted'
  <2> SUFFICES ASSUME NEW g \in 0..(totalFrames - 1)
               PROVE  used'[g] <=> g \in held' \/ g \notin Offered(info)
    BY <1>1 DEF FramesAccounted, Offered, Available, Reserved, Total, MaxAddr
  <2>1. used[g] <=> g \in held \/ g \notin Offered(info)
    BY DEF PmmInv, FramesAccounted, Offered
  <2> QED BY <1>1, <1>2, <1>3, <1>4, <2>1
<1>6. CountIsExact'
  <2>1. Marked' = Marked \cup {f} /\ f \notin Marked
    BY <1>1, <1>2, <1>4 DEF Marked
  <2>2. Cardinality(Marked') = Cardinality(Marked) + 1
    BY <1>2, <2>1, FS_AddElement
  <2> QED BY <1>1, <1>2, <2>2 DEF CountIsExact, Marked
<1>7. \A g \in Frames : g >= totalFrames => used'[g]
  BY <1>1, <1>2, <1>4 DEF PmmInv
<1> QED BY <1>1, <1>3, <1>4, <1>5, <1>6, <1>7
        DEF PmmInv, Offered, Available, Reserved, Total, MaxAddr

\* A held frame goes back on offer.
LEMMA FreeStep ==
    ASSUME PmmInv, NEW f \in Frames, FreeFrame(f)
    PROVE  PmmInv'
<1>1. /\ f \in held /\ MarkFree(f)
      /\ held' = held \ {f}
      /\ info' = info /\ totalFrames' = totalFrames
  BY DEF FreeFrame
<1>2. /\ 0..(totalFrames - 1) \subseteq Frames
      /\ IsFiniteSet(Marked) /\ Cardinality(Marked) \in Nat
      /\ usedFrames = Cardinality(Marked)
      /\ totalFrames \in Nat
      /\ Offered(info) \subseteq 0..(totalFrames - 1)
  BY Ranges, PmmAssumption
<1>3. f \in Offered(info) /\ f \in 0..(totalFrames - 1) /\ used[f]
  BY <1>1, <1>2 DEF PmmInv, FramesAccounted
<1>4. used' = [used EXCEPT ![f] = FALSE] /\ usedFrames' = usedFrames - 1
  BY <1>1, <1>2, <1>3 DEF MarkFree
<1>5. /\ used' \in [Frames -> BOOLEAN]
      /\ ~used'[f] /\ \A g \in Frames : g # f => used'[g] = used[g]
  BY <1>4 DEF PmmInv
<1>6. FramesAccounted'
  <2> SUFFICES ASSUME NEW g \in 0..(totalFrames - 1)
               PROVE  used'[g] <=> g \in held' \/ g \notin Offered(info)
    BY <1>1 DEF FramesAccounted, Offered, Available, Reserved, Total, MaxAddr
  <2>1. used[g] <=> g \in held \/ g \notin Offered(info)
    BY DEF PmmInv, FramesAccounted, Offered
  <2> QED BY <1>1, <1>2, <1>3, <1>5, <2>1
<1>7. CountIsExact'
  <2>1. Marked' = Marked \ {f} /\ f \in Marked
    BY <1>1, <1>2, <1>3, <1>5 DEF Marked
  <2>2. Cardinality(Marked') = Cardinality(Marked) - 1
    BY <1>2, <2>1, FS_RemoveElement
  <2> QED BY <1>2, <1>4, <2>2 DEF CountIsExact, Marked
<1>8. \A g \in Frames : g >= totalFrames => used'[g]
  BY <1>1, <1>2, <1>3, <1>5 DEF PmmInv
<1> QED BY <1>1, <1>5, <1>6, <1>7, <1>8
        DEF PmmInv, Offered, Available, Reserved, Total, MaxAddr

\* When nothing changes, nothing changes.
LEMMA SameStep ==
    ASSUME PmmInv, UNCHANGED pmmVars
    PROVE  PmmInv'
BY DEF pmmVars, PmmInv, FramesAccounted, CountIsExact, Offered, Available, Reserved, Total, MaxAddr

\* pmm.c keeps the invariant through every sequence of calls.
LEMMA PmmInvHolds == PmmSpec => []PmmInv
<1>1. PmmInv /\ [PmmNext]_pmmVars => PmmInv'
  <2> SUFFICES ASSUME PmmInv, [PmmNext]_pmmVars PROVE PmmInv'
    OBVIOUS
  <2>1. CASE AllocFrame
    BY <2>1, AllocStep
  <2>2. ASSUME NEW f \in Frames, FreeFrame(f) PROVE PmmInv'
    BY <2>2, FreeStep
  <2>3. ASSUME NEW f \in Frames, FreeAgain(f) PROVE PmmInv'
    <3>1. UNCHANGED pmmVars
      <4>1. f >= totalFrames \/ ~used[f]
        BY <2>3 DEF FreeAgain
      <4>2. ~(f < totalFrames /\ used[f])
        BY <4>1, Ranges, PmmAssumption DEF Frames
      <4> QED BY <2>3, <4>2 DEF FreeAgain, MarkFree, pmmVars
    <3> QED BY <3>1, SameStep
  <2>4. CASE UNCHANGED pmmVars
    BY <2>4, SameStep
  <2> QED BY <2>1, <2>2, <2>3, <2>4 DEF PmmNext
<1> QED BY <1>1, PmmInvInit, PTL DEF PmmSpec

-----------------------------------------------------------------------------
(* The theorems.                                                             *)

\* The counters stay within memory and callers hold frames of it.
THEOREM PmmTypes == PmmSpec => []PmmTypeOK
<1>1. PmmInv => PmmTypeOK
  BY Ranges DEF PmmInv, PmmTypeOK
<1> QED BY <1>1, PmmInvHolds, PTL

\* pmm_alloc_frame, pmm_free_frame: used_frames is the number of bits set,
\* whatever is freed, freed twice or freed outside memory.
THEOREM CountHolds == PmmSpec => []CountIsExact
<1>1. PmmInv => CountIsExact
  BY DEF PmmInv
<1> QED BY <1>1, PmmInvHolds, PTL

\* Frames neither leak nor are given to two callers.
THEOREM FramesAreAccounted == PmmSpec => []FramesAccounted
<1>1. PmmInv => FramesAccounted
  BY DEF PmmInv
<1> QED BY <1>1, PmmInvHolds, PTL

\* pmm_init and pmm_alloc_frame: a frame that is given out is above the kernel
\* and the low memory, and RAM throughout if the regions are page-aligned.
THEOREM FramesAreUsable == PmmSpec => []GivenOutUsable
<1>1. ASSUME PmmInv PROVE GivenOutUsable
  <2> SUFFICES ASSUME NEW f \in Frames, ~used[f] \/ f \in held
               PROVE  /\ f >= LowFrames /\ f * PageSize >= KernelEnd
                      /\ info.flag = "mmap" /\ (\A r \in info.map : r.start % PageSize = 0)
                            => InRam(f)
    BY DEF GivenOutUsable
  <2>1. info \in Infos
    BY <1>1 DEF PmmInv
  <2>2. f \in Offered(info)
    <3>1. CASE f \in held
      BY <1>1, <3>1 DEF PmmInv
    <3>2. CASE ~used[f]
      <4>1. f \in 0..(totalFrames - 1)
        BY <1>1, <3>2, Ranges, PmmAssumption DEF PmmInv, Frames
      <4> QED BY <1>1, <3>2, <4>1 DEF PmmInv, FramesAccounted, Offered
    <3> QED BY <3>1, <3>2
  <2> QED BY <2>1, <2>2, OfferIsSafe, OfferIsRam DEF InRam
<1> QED BY <1>1, PmmInvHolds, PTL
=============================================================================
