------------------------------ MODULE Allocator ------------------------------
(***************************************************************************)
(* What a kernel heap promises to its callers, whatever its free list      *)
(* looks like: every block handed out is as large as asked for, lies       *)
(* inside the area with the Hdr bytes in front of it, and overlaps no      *)
(* other live block or header; a request fails only when the area has no   *)
(* hole of the needed length; a failed krealloc leaves its block alone.    *)
(***************************************************************************)
EXTENDS Integers

CONSTANTS
    HeapSize,   \* bytes of the area
    Hdr,        \* bytes of bookkeeping in front of every block
    Align,      \* what lengths are rounded up to
    Requests    \* the request sizes

VARIABLES
    live,   \* the blocks callers hold, as <<pointer, length>>
    out     \* the last request and the pointer it returned

vars == <<live, out>>

Null == 0   \* the pointer returned on failure; no block starts there

Rounded(n) == ((n + Align - 1) \div Align) * Align

\* The bytes from lo up to hi, hi excluded, meet no block of bs or its header.
Unoccupied(lo, hi, bs) == \A b \in bs : hi <= b[1] - Hdr \/ b[1] + b[2] <= lo

\* Some hole takes a request for n bytes while the blocks bs are live.
HasHole(n, bs) ==
    \E a \in 0..(HeapSize - Hdr - Rounded(n)) :
        Unoccupied(a, a + Hdr + Rounded(n), bs)

\* p is where a block of len bytes, enough for n, can be put.
Places(p, len, n, bs) ==
    /\ n <= len
    /\ Hdr <= p /\ p + len <= HeapSize
    /\ Unoccupied(p - Hdr, p + len, bs)

Init == live = {} /\ out = <<0, Null>>

Alloc(n) ==
    \/ \E p \in 1..HeapSize, len \in 0..HeapSize :
        /\ Places(p, len, n, live)
        /\ live' = live \cup {<<p, len>>}
        /\ out' = <<n, p>>
    \/ /\ ~HasHole(n, live)
       /\ out' = <<n, Null>>
       /\ UNCHANGED live

Free(b) == live' = live \ {b} /\ UNCHANGED out

\* The new block is found while the old one is still there.
Realloc(b, n) ==
    \/ n <= b[2] /\ out' = <<n, b[1]>> /\ UNCHANGED live
    \/ \E p \in 1..HeapSize, len \in 0..HeapSize :
        /\ Places(p, len, n, live)
        /\ live' = (live \ {b}) \cup {<<p, len>>}
        /\ out' = <<n, p>>
    \/ /\ n > b[2] /\ ~HasHole(n, live)
       /\ out' = <<n, Null>>
       /\ UNCHANGED live

Next ==
    \/ \E n \in Requests : Alloc(n)
    \/ \E b \in live : Free(b) \/ \E n \in Requests : Realloc(b, n)

Spec == Init /\ [][Next]_vars
=============================================================================
