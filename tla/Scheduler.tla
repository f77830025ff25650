------------------------------ MODULE Scheduler ------------------------------
(***************************************************************************)
(* The preemptive round-robin scheduler of kernel/process/process.c, with  *)
(* the two things around it that decide when it runs: the interrupt path   *)
(* (irq_common -> irq_handler -> timer_callback -> scheduler_tick, the EOI *)
(* only after the handler returned) and switch_context, which resumes a    *)
(* task wherever that task was suspended.                                  *)
(*                                                                         *)
(* Every scheduler entry point runs with interrupts disabled, so each call *)
(* is one atomic step.  A task is suspended in one of three places and     *)
(* resume[t] says in which: at its entry point (a frame task_create        *)
(* built), inside the timer interrupt (it still owes the PIC its EOI), or  *)
(* inside its own call of task_yield / task_sleep.                         *)
(*                                                                         *)
(* Time: wake_tick is kept as its distance delay[t] from the current tick. *)
(* cpu_ticks, names, pids of single tasks and stacks are left out.         *)
(***************************************************************************)
EXTENDS Integers, FiniteSets

CONSTANTS
    MaxTasks,   \* MAX_TASKS, the number of PCB slots
    Quantum,    \* SCHED_QUANTUM, ticks per slice
    MaxDelay,   \* bound: the longest sleep, in ticks
    MaxPid,     \* bound: task_create is called while next_pid < MaxPid
    Blocking,   \* the slots whose program calls task_yield and task_sleep
    Exiting     \* the slots whose program may end (task_exit)

Slots == 0..(MaxTasks - 1)

ASSUME SchedulerAssumption ==
    /\ MaxTasks \in Nat \ {0}
    /\ Quantum \in Nat \ {0}
    /\ MaxDelay \in Nat
    /\ MaxPid \in Nat
    /\ Blocking \subseteq Slots
    /\ Exiting \subseteq Slots

RingHead == 0           \* ring_head: the boot flow, task 0
Null == MaxTasks    \* the null pointer in a next field

VARIABLES
    state,      \* tasks[t].state; a zeroed PCB reads as "ready" (TASK_READY is 0)
    used,       \* slot_used[t]
    next,       \* tasks[t].next
    delay,      \* ticks until tasks[t].wake_tick
    resume,     \* what tasks[t].esp points into
    current,    \* the task that has the CPU
    quantum,    \* ticks left of the running slice
    nextPid,    \* next_pid
    inService,  \* IRQ0 is in service in the 8259: no further IRQ is delivered
    ended,      \* the tasks whose program has called task_exit
    lost,       \* the CPU loops for ever in a list walk, or jumped through a bad esp
    reclaimed   \* history: the slot of a dead task was given out again

vars == <<state, used, next, delay, resume, current, quantum, nextPid,
          inService, ended, lost, reclaimed>>

TaskState == {"ready", "running", "sleeping", "dead"}
Resume == {"none", "entry", "irq", "call"}

-----------------------------------------------------------------------------
(* Walks along the next pointers. *)

\* The slots met from start on, Null once a null pointer was followed.
Chain(start) ==
    LET hop[i \in 0..MaxTasks] ==
            IF i = 0 THEN start
            ELSE IF hop[i - 1] \in Slots THEN next[hop[i - 1]] ELSE Null
    IN hop

\* The do-while loop over the ring (scheduler_tick, task_foreach) terminates.
RingCloses == \E i \in 1..MaxTasks : Chain(RingHead)[i] = RingHead

\* The tasks such a loop visits.
Queue == {t \in Slots : \E i \in 0..MaxTasks : Chain(RingHead)[i] = t}

\* Mutant of FirstReady: the search starts behind ring_head every time.
FirstReadyFromHead(st, n) ==
    \E i \in 0..MaxTasks :
        /\ Chain(next[RingHead])[i] = n
        /\ st[n] = "ready"
        /\ \A j \in 0..(i - 1) : st[Chain(next[RingHead])[j]] # "ready"

\* n is the first READY task after the current one, task states being st.
FirstReady(st, n) ==
    \E i \in 0..MaxTasks :
        /\ Chain(next[current])[i] = n
        /\ st[n] = "ready"
        /\ \A j \in 0..(i - 1) : /\ Chain(next[current])[j] \in Slots
                                 /\ st[Chain(next[current])[j]] # "ready"

\* The walk of schedule() follows a null pointer before it finds a READY task.
FallsOff(st) ==
    \E i \in 0..MaxTasks :
        /\ Chain(next[current])[i] \notin Slots
        /\ \A j \in 0..(i - 1) : /\ Chain(next[current])[j] \in Slots
                                 /\ st[Chain(next[current])[j]] # "ready"

-----------------------------------------------------------------------------
(* schedule() and switch_context().  st is the task states its caller left,  *)
(* how is where the outgoing task is suspended: "irq" or "call".             *)

\* Mutant of SwitchTo: the outgoing task is left RUNNING.
SwitchToLeavingPrev(n, st, how) ==
    /\ resume[n] # "none"
    /\ state' = [st EXCEPT ![n] = "running"]
    /\ current' = n
    /\ resume' = [resume EXCEPT ![current] = how]
    /\ inService' = (resume[n] # "irq" /\ (how = "irq" \/ inService))
    /\ UNCHANGED lost

\* Mutant of SwitchTo: no EOI after a handler that switched tasks.
SwitchToWithoutEoi(n, st, how) ==
    /\ resume[n] # "none"
    /\ state' = [st EXCEPT ![current] = IF @ = "running" THEN "ready" ELSE @,
                           ![n] = "running"]
    /\ current' = n
    /\ resume' = [resume EXCEPT ![current] = how]
    /\ inService' = (how = "irq" \/ inService)
    /\ UNCHANGED lost

\* The incoming task n returns from its own switch_context: out of the timer
\* interrupt it sends the EOI it owes, anywhere else IRQ0 stays in service.
SwitchTo(n, st, how) ==
    /\ resume[n] # "none"
    /\ state' = [st EXCEPT ![current] = IF @ = "running" THEN "ready" ELSE @,
                           ![n] = "running"]
    /\ current' = n
    /\ resume' = [resume EXCEPT ![current] = how]
    /\ inService' = (resume[n] # "irq" /\ (how = "irq" \/ inService))
    /\ UNCHANGED lost

\* Nobody else is READY: the current task goes on, even from SLEEPING or DEAD.
KeepRunning(st, how) ==
    /\ ~FallsOff(st)
    /\ \A n \in Slots : ~FirstReady(st, n)
    /\ state' = [st EXCEPT ![current] = "running"]
    /\ inService' = (how # "irq" /\ inService)
    /\ UNCHANGED <<current, resume, lost>>

\* The walk left the ring, or found a zeroed PCB whose esp is null.
LoseControl(st, how) ==
    /\ \/ FallsOff(st)
       \/ \E n \in Slots : FirstReady(st, n) /\ resume[n] = "none"
    /\ lost' = TRUE
    /\ state' = st
    /\ inService' = (how = "irq" \/ inService)
    /\ UNCHANGED <<current, resume>>

Schedule(st, how) ==
    \/ \E n \in Slots : FirstReady(st, n) /\ SwitchTo(n, st, how)
    \/ KeepRunning(st, how)
    \/ LoseControl(st, how)

-----------------------------------------------------------------------------
(* scheduler_init: the boot flow becomes task 0, every other slot is zeroed. *)

Init ==
    /\ state = [t \in Slots |-> IF t = RingHead THEN "running" ELSE "ready"]
    /\ used = [t \in Slots |-> t = RingHead]
    /\ next = [t \in Slots |-> IF t = RingHead THEN RingHead ELSE Null]
    /\ delay = [t \in Slots |-> 0]
    /\ resume = [t \in Slots |-> "none"]
    /\ current = RingHead
    /\ quantum = Quantum
    /\ nextPid = 1
    /\ inService = FALSE
    /\ ended = {}
    /\ lost = FALSE
    /\ reclaimed = FALSE

\* The slot alloc_pcb returns: the first unused one, else the first dead one.
Allocates(s) ==
    \/ ~used[s] /\ \A r \in 0..(s - 1) : used[r]
    \/ /\ \A r \in Slots : used[r]
       /\ state[s] = "dead"
       /\ \A r \in 0..(s - 1) : state[r] # "dead"

\* What alloc_pcb does to slot s in both cases: the memset of its PCB.
ClearSlot(s) ==
    /\ delay' = [delay EXCEPT ![s] = 0]
    /\ ended' = ended \ {s}
    /\ reclaimed' = (reclaimed \/ used[s])

\* Mutant of Link: the new task closes the ring by itself.
LinkLosingRest(s) == next' = [next EXCEPT ![s] = RingHead, ![RingHead] = s]

\* task_create's insertion right after the kernel task.
Link(s) == next' = [next EXCEPT ![s] = next[RingHead], ![RingHead] = s]

\* task_create, called by task 0.  With no slot at all it changes nothing.
Create ==
    /\ ~lost
    /\ current = RingHead /\ current \notin ended
    /\ nextPid < MaxPid
    /\ nextPid' = nextPid + 1
    /\ \E s \in Slots :
        /\ Allocates(s)
        /\ ClearSlot(s)
        /\ state' = [state EXCEPT ![s] = "ready"]
        /\ \/ /\ used' = [used EXCEPT ![s] = TRUE]
              /\ Link(s)
              /\ resume' = [resume EXCEPT ![s] = "entry"]
           \/ /\ used' = [used EXCEPT ![s] = FALSE]     \* kmalloc failed
              /\ next' = [next EXCEPT ![s] = Null]
              /\ resume' = [resume EXCEPT ![s] = "none"]
    /\ UNCHANGED <<current, quantum, inService, lost>>

\* Mutant of Woken: one tick early.
WokenEarly ==
    [t \in Slots |-> IF t \in Queue /\ state[t] = "sleeping" /\ delay[t] <= 2
                     THEN "ready" ELSE state[t]]

\* The states after the wake-up loop of scheduler_tick.
Woken ==
    [t \in Slots |-> IF t \in Queue /\ state[t] = "sleeping" /\ delay[t] <= 1
                     THEN "ready" ELSE state[t]]

\* Mutant of CountDown: the distance of a wake_tick that has passed goes on.
CountDownPastZero == delay' = [t \in Slots |-> delay[t] - 1]

\* ticks++, seen from every wake_tick; one that has passed stays passed.
CountDown == delay' = [t \in Slots |-> IF delay[t] = 0 THEN 0 ELSE delay[t] - 1]

\* IRQ0: timer_callback counts the tick and calls scheduler_tick; the EOI
\* follows when the handler returns.
Tick ==
    /\ ~lost /\ ~inService
    /\ CountDown
    /\ \/ /\ ~RingCloses                    \* the wake-up loop never ends
          /\ lost' = TRUE /\ inService' = TRUE
          /\ UNCHANGED <<state, current, resume, quantum>>
       \/ /\ RingCloses /\ quantum > 1
          /\ quantum' = quantum - 1
          /\ state' = Woken
          /\ UNCHANGED <<current, resume, inService, lost>>
       \/ /\ RingCloses /\ quantum = 1
          /\ quantum' = Quantum
          /\ Schedule(Woken, "irq")
    /\ UNCHANGED <<used, next, nextPid, ended, reclaimed>>

\* task_yield, also SYS_YIELD.
Yield ==
    /\ ~lost
    /\ current \in Blocking \ ended
    /\ Schedule(state, "call")
    /\ UNCHANGED <<used, next, delay, quantum, nextPid, ended, reclaimed>>

\* task_sleep, also SYS_SLEEP, for d ticks (0 when ms * freq / 1000 rounds to 0).
Sleep(d) ==
    /\ ~lost
    /\ current \in Blocking \ ended
    /\ delay' = [delay EXCEPT ![current] = d]
    /\ Schedule([state EXCEPT ![current] = "sleeping"], "call")
    /\ UNCHANGED <<used, next, quantum, nextPid, ended, reclaimed>>

\* task_exit, also SYS_EXIT and the return address of every entry function.
Exit ==
    /\ ~lost
    /\ current \in Exiting \ ended
    /\ ended' = ended \cup {current}
    /\ Schedule([state EXCEPT ![current] = "dead"], "call")
    /\ UNCHANGED <<used, next, delay, quantum, nextPid, reclaimed>>

Next ==
    \/ Create
    \/ Tick
    \/ Yield
    \/ \E d \in 0..MaxDelay : Sleep(d)
    \/ Exit

Spec == Init /\ [][Next]_vars

\* Task t, when it runs, comes to its next scheduler call.
GivesUp(t) ==
    /\ current = t
    /\ Yield \/ (\E d \in 0..MaxDelay : Sleep(d)) \/ Exit

\* The PIT keeps interrupting, and every Blocking task is a loop around
\* task_sleep, as the four workers of main.c are.
FairSpec == Spec /\ WF_vars(Tick) /\ \A t \in Blocking : WF_vars(GivesUp(t))

-----------------------------------------------------------------------------
(* Properties.                                                               *)

TypeOK ==
    /\ state \in [Slots -> TaskState]
    /\ used \in [Slots -> BOOLEAN]
    /\ next \in [Slots -> Slots \cup {Null}]
    /\ delay \in [Slots -> 0..MaxDelay]
    /\ resume \in [Slots -> Resume]
    /\ current \in Slots
    /\ quantum \in 1..Quantum
    /\ nextPid \in Nat
    /\ inService \in BOOLEAN
    /\ ended \subseteq Slots
    /\ lost \in BOOLEAN
    /\ reclaimed \in BOOLEAN

\* The CPU has exactly one task in state RUNNING and it is current, through
\* every wake-up, switch, exit and slot reuse.
OneRunning == ~lost => \A t \in Slots : state[t] = "running" <=> t = current

\* An unacknowledged timer interrupt is never forgotten: while IRQ0 is in
\* service, some task suspended inside that interrupt is READY, so that the
\* EOI after its handler is still going to be sent.
EoiOwed ==
    ~lost /\ inService => \E t \in Slots : state[t] = "ready" /\ resume[t] = "irq"

\* Until a dead task's slot is given out again, a walk from ring_head returns
\* to it and meets every allocated task: nobody is lost to the scheduler, to
\* the wake-up loop or to ps.
RingWhole == ~reclaimed => ~lost /\ RingCloses /\ Queue = {t \in Slots : used[t]}

\* Who is off the CPU stays off it: a task that is READY or RUNNING has no
\* wake-up time left in the future, and one that has called task_exit never
\* comes back.  (It needs a task that never blocks, such as the boot task, on
\* the ring: a sole sleeper is put back on the CPU at once, and so would be the
\* last one to exit, as task_exit's comment fears.)
OffStaysOff ==
    ~reclaimed => /\ \A t \in Slots : delay[t] > 0 => state[t] \in {"sleeping", "dead"}
                  /\ \A t \in ended : state[t] = "dead"

\* Nobody starves: until a dead task's slot is given out again, a READY task
\* gets the CPU and a sleeper wakes up and gets it, although no tick comes
\* while IRQ0 is in service.
NobodyStarves == \A t \in Slots :
    (used[t] /\ state[t] \in {"ready", "sleeping"})
        ~> (state[t] = "running" \/ reclaimed)

\* What process.h says of the scheduler, "preemptive round-robin" and
\* "preemption is driven by the timer IRQ": a task does not keep the CPU for
\* ever while another one is READY.
PreemptedByTimer == \A t \in Slots :
    (state[t] = "running" /\ \E u \in Slots : used[u] /\ state[u] = "ready")
        ~> (state[t] # "running")

\* What process.h:28 says of the next field, "circular run-queue", and what
\* the loops of scheduler_tick and task_foreach count on.
RingCircular == RingCloses
=============================================================================
