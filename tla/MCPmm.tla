------------------------------- MODULE MCPmm -------------------------------
(***************************************************************************)
(* Pmm for TLC: eight frames of four bytes, of which two are low memory    *)
(* and the kernel ends inside the third.  The maps have a hole, an end     *)
(* inside a page, memory beyond the bitmap, and an unaligned start.        *)
(***************************************************************************)
EXTENDS Pmm

Region(s, e) == [start |-> s, end |-> e]

MCMaps == { {Region(0, 7), Region(8, 30)},
            {Region(0, 8), Region(12, 19), Region(24, 32)},
            {Region(8, 40)},
            {Region(4, 8), Region(14, 30)},
            {} }
=============================================================================
