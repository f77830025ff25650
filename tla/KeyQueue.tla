------------------------------ MODULE KeyQueue ------------------------------
(***************************************************************************)
(* The ring buffer between the keyboard interrupt and the task that reads  *)
(* keys (kernel/drivers/keyboard.c).  There is no lock: push runs inside   *)
(* IRQ1 and is one step, keyboard_getc_nonblock runs with interrupts on    *)
(* and can be interrupted between reading buf[tail] and storing tail.      *)
(***************************************************************************)
EXTENDS Integers, Sequences

CONSTANTS
    BufSize,    \* BUF_SIZE
    Keys,       \* the codes that are pushed
    NoKey       \* -1

ASSUME KeyQueueAssumption ==
    /\ BufSize \in Nat /\ BufSize >= 2
    /\ NoKey \notin Keys

Index == 0..(BufSize - 1)

VARIABLES
    buf, head, tail,    \* the ring; head is where the next key goes
    c,                  \* local of keyboard_getc_nonblock: the key read, or NoKey
    got                 \* the last key it returned

ring == <<buf, head, tail, c, got>>

RingInit ==
    /\ buf \in [Index -> {NoKey}]
    /\ head = 0 /\ tail = 0
    /\ c = NoKey /\ got = NoKey

\* Mutant of HasRoom: the ring is never full.
HasRoomAlways == TRUE

\* push: one slot always stays empty, so that full and empty differ.
HasRoom == (head + 1) % BufSize # tail

Push(k) ==
    /\ IF HasRoom
       THEN buf' = [buf EXCEPT ![head] = k] /\ head' = (head + 1) % BufSize
       ELSE UNCHANGED <<buf, head>>
    /\ UNCHANGED <<tail, c, got>>

\* keyboard_getc_nonblock, first half, when head # tail.
Peek ==
    /\ c = NoKey /\ head # tail
    /\ c' = buf[tail]
    /\ UNCHANGED <<buf, head, tail, got>>

\* Mutant of Advance: tail runs past the end of the ring.
AdvanceWithoutWrap ==
    /\ c # NoKey
    /\ tail' = tail + 1
    /\ got' = c /\ c' = NoKey
    /\ UNCHANGED <<buf, head>>

\* Second half: only now can the slot be reused.
Advance ==
    /\ c # NoKey
    /\ tail' = (tail + 1) % BufSize
    /\ got' = c /\ c' = NoKey
    /\ UNCHANGED <<buf, head>>

RingNext == (\E k \in Keys : Push(k)) \/ Peek \/ Advance

RingSpec == RingInit /\ [][RingNext]_ring

-----------------------------------------------------------------------------
RingTypeOK ==
    /\ buf \in [Index -> Keys \cup {NoKey}]
    /\ head \in Index /\ tail \in Index
    /\ c \in Keys \cup {NoKey}
    /\ got \in Keys \cup {NoKey}

\* The keys waiting, oldest first.
Waiting ==
    [i \in 1..((head - tail) % BufSize) |-> buf[(tail + i - 1) % BufSize]]

Fifo == INSTANCE BoundedFifo
            WITH items <- Waiting, Capacity <- BufSize - 1, Items <- Keys, Nothing <- NoKey

\* The key a reader holds is still the oldest one in the ring, however many
\* interrupts came in between.
PeekedIsOldest == c # NoKey => head # tail /\ c = buf[tail]

\* The ring is a bounded FIFO: nothing is lost, doubled or reordered short of
\* the refusal of a key that finds BUF_SIZE - 1 waiting.
KeysInOrder == Fifo!Spec
=============================================================================
