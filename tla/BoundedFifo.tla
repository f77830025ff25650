---------------------------- MODULE BoundedFifo ----------------------------
(***************************************************************************)
(* What the keyboard buffer promises: what is put comes out once, in the   *)
(* order it was put, and is refused only when Capacity items are waiting.  *)
(***************************************************************************)
EXTENDS Integers, Sequences

CONSTANTS
    Capacity,   \* how many items wait at most
    Items,      \* what can be put
    Nothing     \* not an item

VARIABLES
    items,      \* those waiting, oldest first
    got         \* the last one taken

vars == <<items, got>>

Init == items = <<>> /\ got = Nothing

Put(k) ==
    /\ Len(items) < Capacity
    /\ items' = Append(items, k)
    /\ UNCHANGED got

Refuse == Len(items) = Capacity /\ UNCHANGED vars

Get ==
    /\ items # <<>>
    /\ got' = Head(items)
    /\ items' = Tail(items)

Next == (\E k \in Items : Put(k)) \/ Refuse \/ Get

Spec == Init /\ [][Next]_vars
=============================================================================
