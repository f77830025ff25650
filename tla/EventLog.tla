------------------------------ MODULE EventLog ------------------------------
(***************************************************************************)
(* The ring of system events of kernel/core/events.c.  Only the boot task  *)
(* logs, with interrupts on but with nobody to interfere, so a call is one *)
(* step.  An entry's time stamp and text are its message.                  *)
(***************************************************************************)
EXTENDS Integers, SequencesExt

CONSTANTS
    EV_MAX,     \* entries of the ring
    Messages,
    Blank       \* what an entry holds before it is first written

ASSUME EventLogAssumption == EV_MAX \in Nat \ {0}

VARIABLES
    log,        \* [ring, head, total] : ring, ev_head and ev_total
    said        \* history: every message logged, in order

logVars == <<log, said>>

\* Mutant of Logged: the slot after the head is written.
LoggedAhead(l, m) ==
    [ring |-> [l.ring EXCEPT ![(l.head + 1) % EV_MAX] = m],
     head |-> (l.head + 1) % EV_MAX, total |-> l.total + 1]

\* event_log.
Logged(l, m) ==
    [ring |-> [l.ring EXCEPT ![l.head] = m],
     head |-> (l.head + 1) % EV_MAX, total |-> l.total + 1]

EmptyLog == [ring |-> [s \in 0..EV_MAX - 1 |-> Blank], head |-> 0, total |-> 0]

-----------------------------------------------------------------------------
(* events_dump: with max = 0 all that is left, else at most the last max.  *)

Shown(max) ==
    LET n == IF log.total < EV_MAX THEN log.total ELSE EV_MAX
    IN IF max > 0 /\ max < n THEN max ELSE n

Dump(max) ==
    LET start == (log.head - Shown(max) + EV_MAX) % EV_MAX
    IN [i \in 1..Shown(max) |-> log.ring[(start + (i - 1)) % EV_MAX]]

\* However often the ring has wrapped, a dump of any length shows the last
\* messages in the order they were logged, and a full dump loses none that the
\* ring has room for.
DumpShowsLast ==
    \A max \in -1..EV_MAX + 1 :
        Dump(max) = [i \in 1..Shown(max) |-> said[(Len(said) - Shown(max)) + i]]
=============================================================================
