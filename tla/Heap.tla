-------------------------------- MODULE Heap --------------------------------
(***************************************************************************)
(* The first-fit, coalescing kernel heap of kernel/mm/heap.c.  Every entry *)
(* point runs with interrupts off (irq_save .. irq_restore), so each call  *)
(* is one step; the free list is one record and the static functions of    *)
(* heap.c are operators from record to record.                             *)
(*                                                                         *)
(* A block is named by the offset of its header in heap_area.  Null, the   *)
(* offset just past the area, is the null pointer of next; a prev field    *)
(* is NoPrev when null.  The fields of headers that coalescing has dropped *)
(* from the list, now payload bytes, are kept zeroed.                      *)
(***************************************************************************)
EXTENDS Integers, FiniteSetsExt

CONSTANTS
    HeapSize,   \* HEAP_SIZE
    Hdr,        \* HDR, sizeof(block_t)
    Align,      \* ALIGN
    Requests    \* bound: the sizes callers ask for

Addrs == 0..(HeapSize - 1)
Null == HeapSize
NoPrev == -1

\* A request is positive (size 0 returns null at once) and far enough from
\* SIZE_MAX for align_up not to wrap, as all the kernel's requests are.
ASSUME HeapAssumption ==
    /\ Align \in Nat \ {0}
    /\ Hdr \in Nat \ {0}
    /\ HeapSize \in Nat /\ HeapSize > Hdr
    /\ Requests \subseteq Nat \ {0}

VARIABLES
    heap,   \* the free list: head is always 0
    out     \* the last request and what it returned (0: the null pointer)

vars == <<heap, out>>

-----------------------------------------------------------------------------
\* Mutant: the size is rounded down.
AlignDown(n) == (n \div Align) * Align

AlignUp(n) == ((n + Align - 1) \div Align) * Align

\* heap_alloc's loop: the first block in list order, which is address order,
\* that is free and large enough.
Fits(h, b, sz) == b \in h.nodes /\ h.free[b] /\ h.size[b] >= sz
FirstFit(h, b, sz) == Fits(h, b, sz) /\ \A c \in h.nodes : c < b => ~Fits(h, c, sz)

\* Mutant: the room for a new header and payload is forgotten.
SplitsAlways(h, b, sz) == h.size[b] >= sz

\* There is room for another header and a minimal payload.
Splits(h, b, sz) == h.size[b] >= sz + Hdr + Align

\* Cut the tail off b as a new free block.
Split(h, b, sz) ==
    LET nb == b + Hdr + sz IN
    [nodes |-> h.nodes \cup {nb},
     size  |-> [h.size EXCEPT ![nb] = h.size[b] - sz - Hdr, ![b] = sz],
     free  |-> [h.free EXCEPT ![nb] = TRUE],
     next  |-> [h.next EXCEPT ![nb] = h.next[b], ![b] = nb],
     prev  |-> [a \in Addrs |-> IF a = nb THEN b
                                ELSE IF a = h.next[b] THEN nb ELSE h.prev[a]],
     used  |-> h.used]

\* Mutant: only the payload is counted.
OccupyPayload(h, b) ==
    [h EXCEPT !.free = [h.free EXCEPT ![b] = FALSE], !.used = h.used + h.size[b]]

\* Mark b allocated and count it.
Occupy(h, b) ==
    [h EXCEPT !.free = [h.free EXCEPT ![b] = FALSE], !.used = h.used + h.size[b] + Hdr]

\* heap_alloc once it has found b.
Take(h, b, sz) == Occupy(IF Splits(h, b, sz) THEN Split(h, b, sz) ELSE h, b)

\* Mutant: the block after the swallowed one keeps its prev.
AbsorbOneWay(h, b) ==
    LET n == h.next[b] IN
    [h EXCEPT !.nodes = h.nodes \ {n},
              !.size = [h.size EXCEPT ![b] = h.size[b] + Hdr + h.size[n], ![n] = 0],
              !.free = [h.free EXCEPT ![n] = FALSE],
              !.next = [h.next EXCEPT ![b] = h.next[n], ![n] = Null],
              !.prev = [h.prev EXCEPT ![n] = NoPrev]]

\* b swallows its successor: each half of coalesce.
Absorb(h, b) ==
    LET n == h.next[b] IN
    [nodes |-> h.nodes \ {n},
     size  |-> [h.size EXCEPT ![b] = h.size[b] + Hdr + h.size[n], ![n] = 0],
     free  |-> [h.free EXCEPT ![n] = FALSE],
     next  |-> [h.next EXCEPT ![b] = h.next[n], ![n] = Null],
     prev  |-> [a \in Addrs |-> IF a = n THEN NoPrev
                                ELSE IF a = h.next[n] THEN b ELSE h.prev[a]],
     used  |-> h.used]

\* Mutant: a block is merged with the next one only.
KeepPrev(h, b) == h

\* coalesce: with the next block, then with the previous one.
MergeNext(h, b) == IF h.next[b] # Null /\ h.free[h.next[b]] THEN Absorb(h, b) ELSE h
MergePrev(h, b) == IF h.prev[b] # NoPrev /\ h.free[h.prev[b]]
                   THEN Absorb(h, h.prev[b]) ELSE h
Coalesce(h, b) == MergePrev(MergeNext(h, b), b)

\* heap_dealloc of an allocated block.
Vacate(h, b) ==
    [h EXCEPT !.free = [h.free EXCEPT ![b] = TRUE], !.used = h.used - (h.size[b] + Hdr)]
Release(h, b) == Coalesce(Vacate(h, b), b)

\* The blocks callers hold.
Allocated(h) == {b \in h.nodes : ~h.free[b]}

-----------------------------------------------------------------------------
\* heap_init: one free block.
Init ==
    /\ heap = [nodes |-> {0},
               size  |-> [a \in Addrs |-> IF a = 0 THEN HeapSize - Hdr ELSE 0],
               free  |-> [a \in Addrs |-> a = 0],
               next  |-> [a \in Addrs |-> Null],
               prev  |-> [a \in Addrs |-> NoPrev],
               used  |-> 0]
    /\ out = <<0, 0>>

NoFit(n) == \A b \in heap.nodes : ~Fits(heap, b, AlignUp(n))

\* kmalloc, and kcalloc, whose memset writes into the new block only.
Kmalloc(n) ==
    \/ \E b \in heap.nodes :
        /\ FirstFit(heap, b, AlignUp(n))
        /\ heap' = Take(heap, b, AlignUp(n))
        /\ out' = <<n, b + Hdr>>
    \/ NoFit(n) /\ out' = <<n, 0>> /\ UNCHANGED heap

\* kfree of a block its caller holds, and krealloc with size 0.
Kfree(b) ==
    /\ b \in Allocated(heap)
    /\ heap' = Release(heap, b)
    /\ UNCHANGED out

\* krealloc: the old block stays in place unless a new one was found for it.
Krealloc(b, n) ==
    /\ b \in Allocated(heap)
    /\ \/ /\ heap.size[b] >= n
          /\ out' = <<n, b + Hdr>> /\ UNCHANGED heap
       \/ /\ heap.size[b] < n
          /\ \E c \in heap.nodes :
              /\ FirstFit(heap, c, AlignUp(n))
              /\ heap' = Release(Take(heap, c, AlignUp(n)), b)
              /\ out' = <<n, c + Hdr>>
       \/ /\ heap.size[b] < n /\ NoFit(n)
          /\ out' = <<n, 0>> /\ UNCHANGED heap

Next ==
    \/ \E n \in Requests : Kmalloc(n)
    \/ \E b \in heap.nodes : Kfree(b) \/ \E n \in Requests : Krealloc(b, n)

Spec == Init /\ [][Next]_vars

-----------------------------------------------------------------------------
(* Properties.                                                               *)

End(h, b) == b + Hdr + h.size[b]

TypeOK ==
    /\ heap.nodes \subseteq Addrs
    /\ heap.size \in [Addrs -> Nat]
    /\ heap.free \in [Addrs -> BOOLEAN]
    /\ heap.next \in [Addrs -> Addrs \cup {Null}]
    /\ heap.prev \in [Addrs -> Addrs \cup {NoPrev}]
    /\ heap.used \in Int
    /\ out \in (Nat \X Addrs)

\* The list is the area: blocks follow each other without gap or overlap, and
\* next and prev are inverse, through every split, merge and move.
Tiling ==
    /\ 0 \in heap.nodes /\ heap.prev[0] = NoPrev
    /\ \A b \in heap.nodes :
        /\ heap.next[b] = End(heap, b)
        /\ heap.next[b] # Null => /\ heap.next[b] \in heap.nodes
                                  /\ heap.prev[heap.next[b]] = b
        /\ b # 0 => /\ heap.prev[b] \in heap.nodes
                    /\ heap.next[heap.prev[b]] = b

\* Coalescing is complete: no two neighbours are both free, so what is freed
\* comes back as one block however the frees are ordered.
NoAdjacentFree ==
    \A b \in heap.nodes :
        heap.free[b] /\ heap.next[b] # Null => ~heap.free[heap.next[b]]

\* heap_used() is the bytes of the allocated blocks and their headers.
UsedIsExact ==
    heap.used = MapThenSumSet(LAMBDA b : heap.size[b] + Hdr, Allocated(heap))

\* The free list implements the allocator of Allocator.tla.
Live(h) == {<<b + Hdr, h.size[b]>> : b \in Allocated(h)}
Promise == INSTANCE Allocator WITH live <- Live(heap)

KeepsPromise == Promise!Spec
=============================================================================
