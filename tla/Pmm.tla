-------------------------------- MODULE Pmm --------------------------------
(***************************************************************************)
(* The physical frame bitmap of kernel/mm/pmm.c: built once from the       *)
(* Multiboot information, then used through pmm_alloc_frame and            *)
(* pmm_free_frame, each inside irq_save .. irq_restore.                    *)
(***************************************************************************)
EXTENDS Integers, FiniteSetsExt

CONSTANTS
    PageSize,   \* PAGE_SIZE
    MaxFrames,  \* MAX_FRAMES, the bits of the bitmap
    MinFrames,  \* the 16 MB the kernel assumes, in frames
    LowFrames,  \* the low 1 MB, 256 frames
    KernelEnd,  \* &kernel_end
    Maps,       \* bound: the memory maps a loader may pass, sets of regions
    MemUppers   \* bound: the ends of memory a loader without a map may report

ASSUME PmmAssumption ==
    /\ PageSize \in Nat \ {0}
    /\ MaxFrames \in Nat /\ MinFrames \in 1..MaxFrames
    /\ LowFrames \in 1..MinFrames
    /\ KernelEnd \in Nat
    /\ \A m \in Maps : \A r \in m : r.start \in Nat /\ r.end \in Nat /\ r.start <= r.end
    \* A map is a finite list: one of its regions ends last.
    /\ \A m \in Maps : m = {} \/ \E last \in m : \A r \in m : r.end <= last.end
    /\ MemUppers \subseteq Nat

VARIABLES
    info,           \* what the loader passed: the flag and the map or the size
    used,           \* bitmap
    totalFrames,    \* total_frames
    usedFrames,     \* used_frames
    held            \* the frames callers have been given and not freed

pmmVars == <<info, used, totalFrames, usedFrames, held>>

Frames == 0..(MaxFrames - 1)

-----------------------------------------------------------------------------
(* pmm_init. *)

\* The maximum of the ends of memory it knows of.
MaxAddr(i) ==
    IF i.flag = "mmap" THEN Max({r.end : r \in i.map} \cup {MinFrames * PageSize})
    ELSE IF i.flag = "mem" THEN i.end
    ELSE MinFrames * PageSize

\* Mutant of Total: memory beyond the bitmap is counted.
TotalUncapped(i) == MaxAddr(i) \div PageSize

Total(i) == Min({MaxAddr(i) \div PageSize, MaxFrames})

\* Mutant of RegionFrames: the last frame counts even when it is cut off.
RegionFramesRoundedUp(r) == (r.start \div PageSize)..((r.end - 1) \div PageSize)

\* The frames an available region frees: one for every full page from start on.
RegionFrames(r) ==
    {(r.start + k * PageSize) \div PageSize : k \in 0..((r.end - r.start) \div PageSize - 1)}

Available(i) ==
    (IF i.flag = "mmap" THEN UNION {RegionFrames(r) : r \in i.map} ELSE LowFrames..(Total(i) - 1))
        \cap 0..(Total(i) - 1)

\* Mutant of Reserved: the kernel image is forgotten.
LowOnly == 0..(LowFrames - 1)

\* The low 1 MB and the kernel image with its static heap.
Reserved == 0..(Max({(KernelEnd + PageSize - 1) \div PageSize, LowFrames}) - 1)

\* Beyond total_frames the bits stay 1: mark_used and mark_free return early.
PmmInit(i) ==
    /\ info = i
    /\ totalFrames = Total(i)
    /\ used = [f \in Frames |-> f \notin Available(i) \ Reserved]
    /\ usedFrames = Total(i) - Cardinality(Available(i) \ Reserved)
    /\ held = {}

PmmBoot == \/ \E m \in Maps : PmmInit([flag |-> "mmap", map |-> m])
        \/ \E e \in MemUppers : PmmInit([flag |-> "mem", end |-> e])
        \/ PmmInit([flag |-> "none"])

-----------------------------------------------------------------------------
\* Mutant of AllocFrame: the bit is not set.
AllocUnmarked ==
    \E f \in 0..(totalFrames - 1) :
        /\ ~used[f] /\ \A g \in 0..(f - 1) : used[g]
        /\ held' = held \cup {f}
        /\ UNCHANGED <<info, used, totalFrames, usedFrames>>

\* pmm_alloc_frame: the lowest free frame; 0, the null result, when there is
\* none, which changes nothing.
AllocFrame ==
    \E f \in 0..(totalFrames - 1) :
        /\ ~used[f] /\ \A g \in 0..(f - 1) : used[g]
        /\ used' = [used EXCEPT ![f] = TRUE]
        /\ usedFrames' = usedFrames + 1
        /\ held' = held \cup {f}
        /\ UNCHANGED <<info, totalFrames>>

\* Mutant of MarkFree: the count drops for a frame that is free already.
MarkFreeAlways(f) ==
    IF f < totalFrames
    THEN used' = [used EXCEPT ![f] = FALSE] /\ usedFrames' = usedFrames - 1
    ELSE UNCHANGED <<used, usedFrames>>

MarkFree(f) ==
    IF f < totalFrames /\ used[f]
    THEN used' = [used EXCEPT ![f] = FALSE] /\ usedFrames' = usedFrames - 1
    ELSE UNCHANGED <<used, usedFrames>>

\* pmm_free_frame of an address inside a frame its caller holds.
FreeFrame(f) ==
    /\ f \in held
    /\ MarkFree(f)
    /\ held' = held \ {f}
    /\ UNCHANGED <<info, totalFrames>>

\* Freeing a frame beyond the end of memory or one that is free is ignored.
FreeAgain(f) ==
    /\ f \notin held /\ (f >= totalFrames \/ ~used[f])
    /\ MarkFree(f)
    /\ UNCHANGED <<info, totalFrames, held>>

PmmNext == AllocFrame \/ \E f \in Frames : FreeFrame(f) \/ FreeAgain(f)

PmmSpec == PmmBoot /\ [][PmmNext]_pmmVars

-----------------------------------------------------------------------------
(* Properties.                                                               *)

PmmTypeOK ==
    /\ used \in [Frames -> BOOLEAN]
    /\ totalFrames \in 0..MaxFrames
    /\ usedFrames \in 0..totalFrames
    /\ held \subseteq 0..(totalFrames - 1)

\* used_frames, behind pmm_used_bytes and pmm_free_bytes, is the number of set
\* bits, through repeated frees and frees of addresses beyond memory.
CountIsExact == usedFrames = Cardinality({f \in 0..(totalFrames - 1) : used[f]})

\* Frames neither leak nor are shared: what is used is what some caller holds
\* and what was never on offer.
FramesAccounted ==
    \A f \in 0..(totalFrames - 1) :
        used[f] <=> f \in held \/ f \notin Available(info) \ Reserved

\* The bytes of a frame, as the regions of the map see them.
InRam(f) == \E r \in info.map : r.start <= f * PageSize /\ (f + 1) * PageSize <= r.end

\* What is given out can be used: it is neither low memory nor the kernel (so
\* that 0, the address of frame 0, can mean failure), and it is RAM from its
\* first byte to its last, for a map whose regions begin on page boundaries (an
\* unaligned one frees its first, partial frame: RegionFrames rounds the start
\* down).
GivenOutUsable ==
    \A f \in Frames : ~used[f] \/ f \in held =>
        /\ f >= LowFrames /\ f * PageSize >= KernelEnd
        /\ info.flag = "mmap" /\ (\A r \in info.map : r.start % PageSize = 0) => InRam(f)
=============================================================================
