--------------------------- MODULE SchedulerProofs ---------------------------
(***************************************************************************)
(* Proofs about the scheduler, for any number of slots, any quantum, any   *)
(* sleeps and any programs (Blocking and Exiting arbitrary): its types,    *)
(* that exactly one task runs, that the EOI of a timer interrupt that      *)
(* switched tasks is never forgotten, and, by induction over the walks     *)
(* along the next fields, that the ring stays whole and that who is off    *)
(* the CPU stays off it.                                                   *)
(***************************************************************************)
EXTENDS Scheduler, Induction, TLAPS

-----------------------------------------------------------------------------
(* Types.                                                                    *)

\* FirstReady only ever names a READY task.
LEMMA FirstReadyIsReady ==
    ASSUME NEW st, NEW n \in Slots, FirstReady(st, n)
    PROVE  st[n] = "ready"
BY DEF FirstReady

\* Whatever states its caller leaves, schedule() keeps the types.
LEMMA ScheduleTypes ==
    ASSUME TypeOK, NEW st \in [Slots -> TaskState],
           NEW how \in {"irq", "call"}, Schedule(st, how)
    PROVE  /\ state' \in [Slots -> TaskState]
           /\ current' \in Slots
           /\ resume' \in [Slots -> Resume]
           /\ inService' \in BOOLEAN
           /\ lost' \in BOOLEAN
<1>1. CASE \E n \in Slots : FirstReady(st, n) /\ SwitchTo(n, st, how)
  BY <1>1 DEF SwitchTo, TypeOK, TaskState, Resume
<1>2. CASE KeepRunning(st, how)
  BY <1>2 DEF KeepRunning, TypeOK, TaskState, Resume
<1>3. CASE LoseControl(st, how)
  BY <1>3 DEF LoseControl, TypeOK
<1>4. QED BY <1>1, <1>2, <1>3 DEF Schedule

\* The wake-up loop writes task states and nothing else.
LEMMA WokenTypes == TypeOK => Woken \in [Slots -> TaskState]
BY DEF Woken, TypeOK, TaskState

\* Every reachable state is well typed: no PCB field, slot index, quantum or
\* interrupt flag leaves its range.
THEOREM TypeCorrect == Spec => []TypeOK
<1>1. Init => TypeOK
  <2> SUFFICES ASSUME Init PROVE TypeOK
    OBVIOUS
  <2>1. RingHead \in Slots
    BY SchedulerAssumption DEF RingHead, Slots
  <2>2. /\ quantum \in 1..Quantum
        /\ nextPid \in Nat
        /\ \A t \in Slots : delay[t] \in 0..MaxDelay
    BY SchedulerAssumption DEF Init
  <2>3. QED BY <2>1, <2>2 DEF Init, TypeOK, TaskState, Resume
<1>2. TypeOK /\ [Next]_vars => TypeOK'
  <2> SUFFICES ASSUME TypeOK, [Next]_vars PROVE TypeOK'
    OBVIOUS
  <2> USE SchedulerAssumption
  <2>1. CASE Create
    <3>1. PICK s \in Slots :
            /\ ClearSlot(s)
            /\ state' = [state EXCEPT ![s] = "ready"]
            /\ \/ /\ used' = [used EXCEPT ![s] = TRUE]
                  /\ Link(s)
                  /\ resume' = [resume EXCEPT ![s] = "entry"]
               \/ /\ used' = [used EXCEPT ![s] = FALSE]
                  /\ next' = [next EXCEPT ![s] = Null]
                  /\ resume' = [resume EXCEPT ![s] = "none"]
      BY <2>1 DEF Create
    <3>2. /\ state' \in [Slots -> TaskState]
          /\ used' \in [Slots -> BOOLEAN]
          /\ resume' \in [Slots -> Resume]
      BY <3>1 DEF TypeOK, TaskState, Resume
    <3>3. next' \in [Slots -> Slots \cup {Null}]
      BY <3>1 DEF TypeOK, Link, RingHead, Slots
    <3>4. /\ delay' \in [Slots -> 0..MaxDelay]
          /\ ended' \subseteq Slots
          /\ reclaimed' \in BOOLEAN
      BY <3>1 DEF TypeOK, ClearSlot
    <3>5. QED BY <2>1, <3>2, <3>3, <3>4 DEF Create, TypeOK
  <2>2. CASE Tick
    <3>1. delay' \in [Slots -> 0..MaxDelay]
      BY <2>2 DEF Tick, CountDown, TypeOK
    <3>2. CASE ~RingCloses
      BY <2>2, <3>1, <3>2 DEF Tick, TypeOK
    <3>3. CASE RingCloses /\ quantum > 1
      BY <2>2, <3>1, <3>3, WokenTypes DEF Tick, TypeOK
    <3>4. CASE RingCloses /\ quantum = 1
      BY <2>2, <3>1, <3>4, WokenTypes, ScheduleTypes DEF Tick, TypeOK
    <3>5. QED BY <3>2, <3>3, <3>4 DEF TypeOK
  <2>3. CASE Yield
    BY <2>3, ScheduleTypes DEF Yield, TypeOK
  <2>4. ASSUME NEW d \in 0..MaxDelay, Sleep(d) PROVE TypeOK'
    <3>1. [state EXCEPT ![current] = "sleeping"] \in [Slots -> TaskState]
      BY DEF TypeOK, TaskState
    <3>2. QED BY <2>4, <3>1, ScheduleTypes DEF Sleep, TypeOK
  <2>5. CASE Exit
    <3>1. [state EXCEPT ![current] = "dead"] \in [Slots -> TaskState]
      BY DEF TypeOK, TaskState
    <3>2. QED BY <2>5, <3>1, ScheduleTypes DEF Exit, TypeOK
  <2>6. CASE UNCHANGED vars
    BY <2>6 DEF vars, TypeOK
  <2>7. QED BY <2>1, <2>2, <2>3, <2>4, <2>5, <2>6 DEF Next
<1>3. QED BY <1>1, <1>2, PTL DEF Spec

-----------------------------------------------------------------------------
(* One running task.                                                         *)

\* schedule() leaves one task RUNNING, the current one, provided no task but
\* the old current one was RUNNING when it was called.
LEMMA ScheduleOneRunning ==
    ASSUME TypeOK, NEW st \in [Slots -> TaskState], NEW how,
           \A t \in Slots : st[t] = "running" => t = current,
           Schedule(st, how), ~lost'
    PROVE  \A t \in Slots : state'[t] = "running" <=> t = current'
<1>1. CASE \E n \in Slots : FirstReady(st, n) /\ SwitchTo(n, st, how)
  <2>1. PICK n \in Slots : FirstReady(st, n) /\ SwitchTo(n, st, how)
    BY <1>1
  <2>2. current \in Slots /\ st[n] = "ready"
    BY <2>1, FirstReadyIsReady DEF TypeOK
  <2>3. QED BY <2>1, <2>2 DEF SwitchTo
<1>2. CASE KeepRunning(st, how)
  BY <1>2 DEF KeepRunning, TypeOK
<1>3. CASE LoseControl(st, how)
  BY <1>3 DEF LoseControl
<1>4. QED BY <1>1, <1>2, <1>3 DEF Schedule

-----------------------------------------------------------------------------
(* The EOI, and the invariant that makes both properties inductive.          *)

\* The tasks that are READY and will send an EOI when they are switched to.
Debtors(st, res) == {t \in Slots : st[t] = "ready" /\ res[t] = "irq"}

\* A task that runs or can be resumed owns its slot, so that alloc_pcb, which
\* takes unused and dead slots, never clears the PCB of the running task or
\* of a task that owes an EOI.
SlotsOwned ==
    ~lost => /\ used[current]
             /\ \A t \in Slots : ~used[t] => resume[t] = "none"

SchedInv == TypeOK /\ OneRunning /\ SlotsOwned /\ EoiOwed

\* switch_context only enters slots that are owned.
LEMMA ScheduleOwned ==
    ASSUME SchedInv, ~lost, NEW st \in [Slots -> TaskState],
           NEW how, Schedule(st, how), used' = used
    PROVE  SlotsOwned'
<1> USE DEF SchedInv, SlotsOwned
<1>1. CASE \E n \in Slots : FirstReady(st, n) /\ SwitchTo(n, st, how)
  <2>1. PICK n \in Slots : SwitchTo(n, st, how)
    BY <1>1
  <2>2. used[n]
    BY <2>1 DEF SwitchTo
  <2>3. QED BY <2>1, <2>2 DEF SwitchTo, TypeOK
<1>2. CASE KeepRunning(st, how)
  BY <1>2 DEF KeepRunning
<1>3. CASE LoseControl(st, how)
  BY <1>3 DEF LoseControl
<1>4. QED BY <1>1, <1>2, <1>3 DEF Schedule

\* After schedule() every unsent EOI has a debtor: called from the timer
\* interrupt, the preempted task becomes one; called by a task, the debtors
\* there were are still READY, but for the one that is resumed and pays.
LEMMA ScheduleEoi ==
    ASSUME TypeOK, ~lost, NEW st \in [Slots -> TaskState],
           NEW how \in {"irq", "call"}, Schedule(st, how), ~lost',
           st[current] # "ready",
           how = "irq" => st[current] = "running",
           how = "call" /\ inService => Debtors(st, resume) # {}
    PROVE  inService' => Debtors(state', resume') # {}
<1>1. CASE \E n \in Slots : FirstReady(st, n) /\ SwitchTo(n, st, how)
  <2>1. PICK n \in Slots : FirstReady(st, n) /\ SwitchTo(n, st, how)
    BY <1>1
  <2>2. current \in Slots /\ st[n] = "ready" /\ n # current
    BY <2>1, FirstReadyIsReady DEF TypeOK
  <2>3. CASE how = "irq"
    <3>1. state'[current] = "ready" /\ resume'[current] = "irq"
      BY <2>1, <2>2, <2>3 DEF SwitchTo, TypeOK
    <3>2. QED BY <2>2, <3>1 DEF Debtors
  <2>4. CASE how = "call"
    <3>1. SUFFICES ASSUME inService'
                   PROVE  Debtors(state', resume') # {}
      OBVIOUS
    <3>2. inService /\ resume[n] # "irq"
      BY <2>1, <2>4, <3>1 DEF SwitchTo
    <3>3. PICK t \in Slots : st[t] = "ready" /\ resume[t] = "irq"
      BY <2>4, <3>2 DEF Debtors
    <3>4. t # n /\ t # current
      BY <3>2, <3>3
    <3>5. state'[t] = "ready" /\ resume'[t] = "irq"
      BY <2>1, <3>3, <3>4 DEF SwitchTo, TypeOK
    <3>6. QED BY <3>5 DEF Debtors
  <2>5. QED BY <2>3, <2>4
<1>2. CASE KeepRunning(st, how)
  <2>1. SUFFICES ASSUME inService'
                 PROVE  Debtors(state', resume') # {}
    OBVIOUS
  <2>2. how = "call" /\ inService
    BY <1>2, <2>1 DEF KeepRunning
  <2>3. PICK t \in Slots : st[t] = "ready" /\ resume[t] = "irq"
    BY <2>2 DEF Debtors
  <2>4. state'[t] = "ready" /\ resume'[t] = "irq"
    BY <1>2, <2>3 DEF KeepRunning, TypeOK
  <2>5. QED BY <2>4 DEF Debtors
<1>3. CASE LoseControl(st, how)
  BY <1>3 DEF LoseControl
<1>4. QED BY <1>1, <1>2, <1>3 DEF Schedule

\* The three scheduler calls and the tick, once the caller has set the states:
\* it only changed its own state, or woke sleepers.
LEMMA ScheduleKeeps ==
    ASSUME SchedInv, ~lost, TypeOK', NEW st \in [Slots -> TaskState],
           NEW how \in {"irq", "call"}, Schedule(st, how), used' = used,
           st[current] # "ready",
           how = "irq" => st[current] = "running" /\ ~inService,
           \A t \in Slots \ {current} : st[t] # "running",
           \A t \in Slots \ {current} : state[t] = "ready" => st[t] = "ready"
    PROVE  SchedInv'
<1>1. \A t \in Slots : st[t] = "running" => t = current
  OBVIOUS
<1>2. OneRunning'
  BY <1>1, ScheduleOneRunning DEF SchedInv, OneRunning
<1>3. SlotsOwned'
  BY ScheduleOwned
<1>4. how = "call" /\ inService => Debtors(st, resume) # {}
  <2> SUFFICES ASSUME how = "call", inService PROVE Debtors(st, resume) # {}
    OBVIOUS
  <2>1. PICK t \in Slots : state[t] = "ready" /\ resume[t] = "irq"
    BY DEF SchedInv, EoiOwed
  <2>2. t # current
    BY <2>1 DEF SchedInv, OneRunning
  <2>3. QED BY <2>1, <2>2 DEF Debtors
<1>5. EoiOwed'
  BY <1>4, ScheduleEoi DEF SchedInv, EoiOwed, Debtors
<1>6. QED BY <1>2, <1>3, <1>5 DEF SchedInv

\* A wake-up loop changes sleepers only, and the running task is not one.
LEMMA WokenKeeps ==
    ASSUME SchedInv, ~lost
    PROVE  /\ Woken[current] = "running"
           /\ \A t \in Slots \ {current} : Woken[t] # "running"
           /\ \A t \in Slots : state[t] = "ready" => Woken[t] = "ready"
BY DEF SchedInv, OneRunning, Woken, TypeOK

LEMMA SchedInvInit == Init => SchedInv
<1> SUFFICES ASSUME Init PROVE SchedInv
  OBVIOUS
<1>1. RingHead \in Slots
  BY SchedulerAssumption DEF RingHead, Slots
<1>2. TypeOK
  <2>1. /\ quantum \in 1..Quantum
        /\ nextPid \in Nat
        /\ \A t \in Slots : delay[t] \in 0..MaxDelay
    BY SchedulerAssumption DEF Init
  <2>2. QED BY <1>1, <2>1 DEF Init, TypeOK, TaskState, Resume
<1>3. OneRunning /\ SlotsOwned /\ EoiOwed
  BY <1>1 DEF Init, OneRunning, SlotsOwned, EoiOwed
<1>4. QED BY <1>2, <1>3 DEF SchedInv

LEMMA SchedInvNext == SchedInv /\ TypeOK' /\ [Next]_vars => SchedInv'
<1> SUFFICES ASSUME SchedInv, TypeOK', [Next]_vars PROVE SchedInv'
  OBVIOUS
<1>1. CASE Create
  <2>1. PICK s \in Slots :
          /\ Allocates(s)
          /\ state' = [state EXCEPT ![s] = "ready"]
          /\ \/ /\ used' = [used EXCEPT ![s] = TRUE]
                /\ resume' = [resume EXCEPT ![s] = "entry"]
             \/ /\ used' = [used EXCEPT ![s] = FALSE]
                /\ resume' = [resume EXCEPT ![s] = "none"]
    BY <1>1 DEF Create
  <2>2. ~lost /\ ~lost' /\ current' = current /\ inService' = inService
    BY <1>1 DEF Create
  <2>3. current \in Slots /\ state[current] = "running" /\ used[current]
    BY <2>2 DEF SchedInv, OneRunning, SlotsOwned, TypeOK
  <2>4. ~used[s] \/ state[s] = "dead"
    BY <2>1 DEF Allocates
  <2>5. s # current
    BY <2>3, <2>4
  <2>6. OneRunning'
    BY <2>1, <2>2, <2>5 DEF SchedInv, OneRunning, TypeOK
  <2>7. SlotsOwned'
    BY <2>1, <2>2, <2>5 DEF SchedInv, SlotsOwned, TypeOK
  <2>8. EoiOwed'
    <3> SUFFICES ASSUME inService
                 PROVE  \E t \in Slots : state'[t] = "ready" /\ resume'[t] = "irq"
      BY <2>2 DEF EoiOwed
    <3>1. PICK t \in Slots : state[t] = "ready" /\ resume[t] = "irq"
      BY <2>2 DEF SchedInv, EoiOwed
    <3>2. t # s
      BY <2>2, <2>4, <3>1 DEF SchedInv, SlotsOwned
    <3>3. state'[t] = "ready" /\ resume'[t] = "irq"
      BY <2>1, <3>1, <3>2 DEF SchedInv, TypeOK
    <3>4. QED BY <3>3
  <2>9. QED BY <2>6, <2>7, <2>8 DEF SchedInv
<1>2. CASE Tick
  <2>1. CASE ~RingCloses
    BY <1>2, <2>1 DEF Tick, SchedInv, OneRunning, SlotsOwned, EoiOwed
  <2>2. CASE RingCloses /\ quantum > 1
    <3>1. /\ ~lost /\ ~lost' /\ ~inService' /\ state' = Woken
          /\ current' = current /\ resume' = resume /\ used' = used
      BY <1>2, <2>2 DEF Tick
    <3>2. OneRunning'
      BY <3>1, WokenKeeps DEF OneRunning
    <3>3. QED BY <3>1, <3>2 DEF SchedInv, SlotsOwned, EoiOwed
  <2>3. CASE RingCloses /\ quantum = 1
    <3>1. ~lost /\ ~inService /\ Schedule(Woken, "irq") /\ used' = used
      BY <1>2, <2>3 DEF Tick
    <3>2. Woken \in [Slots -> TaskState]
      BY WokenTypes DEF SchedInv
    <3>3. QED BY <3>1, <3>2, WokenKeeps, ScheduleKeeps
  <2>4. QED BY <1>2, <2>1, <2>2, <2>3 DEF Tick
<1>3. CASE Yield
  <2>1. ~lost /\ Schedule(state, "call") /\ used' = used
    BY <1>3 DEF Yield
  <2>2. /\ state \in [Slots -> TaskState]
        /\ \A t \in Slots : state[t] = "running" <=> t = current
        /\ current \in Slots
    BY <2>1 DEF SchedInv, OneRunning, TypeOK
  <2>3. QED BY <2>1, <2>2, ScheduleKeeps
<1>4. ASSUME NEW d \in 0..MaxDelay, Sleep(d) PROVE SchedInv'
  <2> DEFINE st == [state EXCEPT ![current] = "sleeping"]
  <2>1. ~lost /\ Schedule(st, "call") /\ used' = used
    BY <1>4 DEF Sleep
  <2>2. /\ st \in [Slots -> TaskState]
        /\ st[current] = "sleeping"
        /\ \A t \in Slots \ {current} : st[t] = state[t] /\ st[t] # "running"
    BY <2>1 DEF SchedInv, OneRunning, TypeOK, TaskState
  <2> HIDE DEF st
  <2>3. QED BY <2>1, <2>2, ScheduleKeeps
<1>5. CASE Exit
  <2> DEFINE st == [state EXCEPT ![current] = "dead"]
  <2>1. ~lost /\ Schedule(st, "call") /\ used' = used
    BY <1>5 DEF Exit
  <2>2. /\ st \in [Slots -> TaskState]
        /\ st[current] = "dead"
        /\ \A t \in Slots \ {current} : st[t] = state[t] /\ st[t] # "running"
    BY <2>1 DEF SchedInv, OneRunning, TypeOK, TaskState
  <2> HIDE DEF st
  <2>3. QED BY <2>1, <2>2, ScheduleKeeps
<1>6. CASE UNCHANGED vars
  BY <1>6 DEF vars, SchedInv, OneRunning, SlotsOwned, EoiOwed
<1>7. QED BY <1>1, <1>2, <1>3, <1>4, <1>5, <1>6 DEF Next

LEMMA SchedInvAlways == Spec => []SchedInv
<1>1. Init => SchedInv
  BY SchedInvInit
<1>2. SchedInv /\ TypeOK' /\ [Next]_vars => SchedInv'
  BY SchedInvNext
<1>3. QED BY <1>1, <1>2, TypeCorrect, PTL DEF Spec

\* Exactly one task is RUNNING, and it is the current one.
THEOREM OneTaskRuns == Spec => []OneRunning
<1>1. SchedInv => OneRunning
  BY DEF SchedInv
<1>2. QED BY <1>1, SchedInvAlways, PTL

\* The EOI of a timer interrupt that switched tasks is never forgotten: while
\* IRQ0 is in service, a task that will send it is READY.
THEOREM EoiIsOwed == Spec => []EoiOwed
<1>1. SchedInv => EoiOwed
  BY DEF SchedInv
<1>2. QED BY <1>1, SchedInvAlways, PTL

-----------------------------------------------------------------------------
(* The walks along the ring.                                                 *)

\* A walk is a function over 0..MaxTasks: it begins at start and goes to the
\* next slot, or stays at the null pointer.
LEMMA ChainStep ==
    ASSUME TypeOK, NEW start \in Slots \cup {Null}
    PROVE  /\ Chain(start) \in [0..MaxTasks -> Slots \cup {Null}]
           /\ Chain(start)[0] = start
           /\ \A i \in 1..MaxTasks :
                Chain(start)[i] = IF Chain(start)[i - 1] \in Slots
                                  THEN next[Chain(start)[i - 1]] ELSE Null
<1> DEFINE D == Slots \cup {Null}
           F == [p \in D \X Nat |-> IF p[1] \in Slots THEN next[p[1]] ELSE Null]
           Hops(f) == f = [i \in 0..MaxTasks |->
                             IF i = 0 THEN start
                             ELSE IF f[i - 1] \in Slots THEN next[f[i - 1]] ELSE Null]
<1>1. MaxTasks \in Nat
  BY SchedulerAssumption
<1>2. F \in [D \X Nat -> D]
  BY DEF TypeOK
<1>3. PICK f \in [0..MaxTasks -> D] : Recurs(f, MaxTasks, start, F)
  <2> HIDE DEF F, D
  <2>1. start \in D
    BY DEF D
  <2>2. QED BY <1>1, <1>2, <2>1, RecursionUpTo
<1>4. Hops(f)
  <2>1. ASSUME NEW i \in 0..MaxTasks
        PROVE  f[i] = IF i = 0 THEN start
                      ELSE IF f[i - 1] \in Slots THEN next[f[i - 1]] ELSE Null
    <3>1. CASE i = 0
      BY <3>1, <1>3 DEF Recurs
    <3>2. CASE i # 0
      <4>1. i - 1 \in 0..MaxTasks /\ i \in Nat /\ f[i - 1] \in D
        BY <1>1, <3>2
      <4>2. f[i] = F[<<f[i - 1], i>>]
        <5> HIDE DEF F
        <5>1. QED BY <3>2, <1>3 DEF Recurs
      <4>3. QED BY <3>2, <4>1, <4>2
    <3>3. QED BY <3>1, <3>2
  <2>2. f = [i \in 0..MaxTasks |-> f[i]]
    OBVIOUS
  <2>3. QED BY <2>1, <2>2
<1>5. Chain(start) = CHOOSE h : Hops(h)
  BY DEF Chain
<1>6. Hops(Chain(start))
  <2> HIDE DEF Hops
  <2>1. QED BY <1>4, <1>5
<1> DEFINE c == Chain(start)
<1>7. c = [i \in 0..MaxTasks |-> IF i = 0 THEN start
                                 ELSE IF c[i - 1] \in Slots THEN next[c[i - 1]] ELSE Null]
  BY <1>6
<1> HIDE DEF c, Hops
<1>8. /\ DOMAIN c = 0..MaxTasks
      /\ c[0] = start
      /\ \A i \in 1..MaxTasks : c[i] = IF c[i - 1] \in Slots THEN next[c[i - 1]] ELSE Null
  BY <1>1, <1>7
<1>9. \A i \in 0..MaxTasks : c[i] \in D
  <2> DEFINE S == {i \in 0..MaxTasks : c[i] \in D}
  <2>1. 0 \in S
    BY <1>1, <1>8
  <2>2. ASSUME NEW i \in 0..(MaxTasks - 1), i \in S PROVE i + 1 \in S
    <3>1. i + 1 \in 1..MaxTasks /\ (i + 1) - 1 = i
      BY <1>1
    <3>2. c[i + 1] = IF c[i] \in Slots THEN next[c[i]] ELSE Null
      BY <1>8, <3>1
    <3>3. QED BY <3>1, <3>2, <1>1 DEF TypeOK
  <2>3. 0..MaxTasks \subseteq S
    <3> HIDE DEF S
    <3>1. QED BY <1>1, <2>1, <2>2, InductionUpTo
  <2>4. QED BY <2>3
<1>10. c = [i \in 0..MaxTasks |-> c[i]]
  BY <1>7
<1>11. c \in [0..MaxTasks -> D]
  BY <1>9, <1>10
<1>12. QED BY <1>8, <1>11 DEF c

\* The ring as alloc_pcb and task_create build it: slots are taken in order,
\* and each new task goes behind ring_head, so the ring runs from 0 to the
\* newest task and from each task down to the one before.
RingIs(n) ==
    /\ \A t \in Slots : used[t] <=> t < n
    /\ next[RingHead] = n - 1
    /\ \A t \in 1..(n - 1) : next[t] = t - 1

\* A walk from an allocated task meets allocated tasks only.
LEMMA WalkStaysOn ==
    ASSUME TypeOK, NEW n \in 1..MaxTasks, RingIs(n), NEW t \in 0..(n - 1)
    PROVE  \A i \in 0..MaxTasks : Chain(t)[i] \in 0..(n - 1)
<1> USE SchedulerAssumption
<1> DEFINE c == Chain(t)
           S == {i \in 0..MaxTasks : c[i] \in 0..(n - 1)}
<1>1. t \in Slots \cup {Null} /\ \A u \in 0..(n - 1) : u \in Slots
  BY DEF Slots
<1>2. c[0] = t /\ \A i \in 1..MaxTasks : c[i] = IF c[i - 1] \in Slots THEN next[c[i - 1]] ELSE Null
  BY <1>1, ChainStep
<1> HIDE DEF c
<1>3. 0 \in S
  BY <1>2
<1>4. ASSUME NEW i \in 0..(MaxTasks - 1), i \in S PROVE i + 1 \in S
  <2>1. i + 1 \in 1..MaxTasks /\ (i + 1) - 1 = i /\ c[i] \in 0..(n - 1)
    BY <1>4
  <2>2. c[i + 1] = next[c[i]]
    BY <1>1, <1>2, <2>1
  <2>3. next[c[i]] \in 0..(n - 1)
    BY <2>1 DEF RingIs, RingHead
  <2>4. QED BY <2>1, <2>2, <2>3
<1>5. 0..MaxTasks \subseteq S
  <2> HIDE DEF S
  <2>1. QED BY <1>3, <1>4, InductionUpTo
<1>6. QED BY <1>5 DEF c

\* From task t the walk goes down, t steps to ring_head.
LEMMA WalkGoesDown ==
    ASSUME TypeOK, NEW n \in 1..MaxTasks, RingIs(n), NEW t \in 0..(n - 1)
    PROVE  \A i \in 0..t : Chain(t)[i] = t - i
<1> USE SchedulerAssumption
<1> DEFINE c == Chain(t)
           S == {i \in 0..t : c[i] = t - i}
<1>1. t \in Slots \cup {Null} /\ \A u \in 0..(n - 1) : u \in Slots
  BY DEF Slots
<1>2. c[0] = t /\ \A i \in 1..MaxTasks : c[i] = IF c[i - 1] \in Slots THEN next[c[i - 1]] ELSE Null
  BY <1>1, ChainStep
<1> HIDE DEF c
<1>3. 0 \in S
  BY <1>2
<1>4. ASSUME NEW i \in 0..(t - 1), i \in S PROVE i + 1 \in S
  <2>1. i + 1 \in 1..MaxTasks /\ (i + 1) - 1 = i /\ c[i] = t - i /\ t - i \in 1..(n - 1)
    BY <1>4
  <2>2. c[i + 1] = next[t - i]
    BY <1>1, <1>2, <2>1
  <2>3. next[t - i] = (t - i) - 1
    BY <2>1 DEF RingIs
  <2>4. QED BY <1>4, <2>1, <2>2, <2>3
<1>5. 0..t \subseteq S
  <2> HIDE DEF S
  <2>1. t \in Nat
    OBVIOUS
  <2>2. QED BY <1>3, <1>4, <2>1, InductionUpTo
<1>6. QED BY <1>5 DEF c

\* From ring_head it goes to the newest task and down.
LEMMA WalkGoesRound ==
    ASSUME TypeOK, NEW n \in 1..MaxTasks, RingIs(n)
    PROVE  \A i \in 1..n : Chain(RingHead)[i] = n - i
<1> USE SchedulerAssumption
<1> DEFINE c == Chain(RingHead)
           S == {i \in 0..(n - 1) : c[i + 1] = n - (i + 1)}
<1>1. RingHead \in Slots /\ \A u \in 0..(n - 1) : u \in Slots
  BY DEF Slots, RingHead
<1>2. /\ c[0] = RingHead
      /\ \A i \in 1..MaxTasks : c[i] = IF c[i - 1] \in Slots THEN next[c[i - 1]] ELSE Null
  BY <1>1, ChainStep
<1> HIDE DEF c
<1>3. 0 \in S
  <2>1. 1 \in 1..MaxTasks /\ 1 - 1 = 0
    OBVIOUS
  <2>2. c[1] = n - 1
    BY <1>1, <1>2, <2>1 DEF RingIs
  <2>3. QED BY <2>2
<1>4. ASSUME NEW i \in 0..((n - 1) - 1), i \in S PROVE i + 1 \in S
  <2>1. (i + 1) + 1 \in 1..MaxTasks /\ ((i + 1) + 1) - 1 = i + 1 /\ c[i + 1] = n - (i + 1)
    BY <1>4
  <2>2. n - (i + 1) \in 1..(n - 1)
    BY <1>4
  <2>3. c[(i + 1) + 1] = next[n - (i + 1)]
    BY <1>1, <1>2, <2>1, <2>2
  <2>4. next[n - (i + 1)] = n - (i + 1) - 1
    BY <2>2 DEF RingIs
  <2>5. QED BY <1>4, <2>3, <2>4
<1>5. 0..(n - 1) \subseteq S
  <2> HIDE DEF S
  <2>1. n - 1 \in Nat
    OBVIOUS
  <2>2. QED BY <1>3, <1>4, <2>1, InductionUpTo
<1>6. ASSUME NEW i \in 1..n PROVE c[i] = n - i
  <2>1. i - 1 \in 0..(n - 1) /\ (i - 1) + 1 = i
    OBVIOUS
  <2>2. i - 1 \in S
    BY <1>5, <2>1
  <2>3. c[(i - 1) + 1] = n - ((i - 1) + 1)
    BY <2>2
  <2>4. QED BY <2>1, <2>3
<1>7. QED BY <1>6 DEF c

\* Such a ring closes, and holds every allocated task.
LEMMA RingIsWhole ==
    ASSUME TypeOK, NEW n \in 1..MaxTasks, RingIs(n)
    PROVE  RingCloses /\ Queue = {t \in Slots : used[t]}
<1> USE SchedulerAssumption
<1>1. \A i \in 1..n : Chain(RingHead)[i] = n - i
  BY WalkGoesRound
<1>2. RingCloses
  <2>1. n \in 1..n /\ n - n = RingHead
    BY DEF RingHead
  <2>2. Chain(RingHead)[n] = RingHead
    BY <1>1, <2>1
  <2>3. QED BY <2>2 DEF RingCloses
<1>3. ASSUME NEW t \in Slots, used[t] PROVE t \in Queue
  <2>1. t \in Int /\ t >= 0 /\ t < n
    BY <1>3 DEF RingIs, Slots
  <2>2. n - t \in 1..n /\ n - (n - t) = t /\ n - t \in 0..MaxTasks
    BY <2>1
  <2>3. Chain(RingHead)[n - t] = t
    BY <1>1, <2>2
  <2>4. QED BY <2>2, <2>3 DEF Queue
<1>4. ASSUME NEW t \in Queue PROVE used[t]
  <2>1. PICK i \in 0..MaxTasks : Chain(RingHead)[i] = t
    BY DEF Queue
  <2>2. RingHead \in 0..(n - 1)
    BY DEF RingHead
  <2>3. t \in 0..(n - 1)
    BY <2>1, <2>2, WalkStaysOn
  <2>4. QED BY <2>3 DEF RingIs, Slots
<1>5. QED BY <1>2, <1>3, <1>4 DEF Queue

-----------------------------------------------------------------------------
(* The ring and the scheduler: until a slot is reused, no walk fails.        *)

\* Every allocated task that does not run can be switched to.
Resumable == \A t \in Slots : used[t] /\ t # current => resume[t] # "none"

RingInv == ~reclaimed => ~lost /\ Resumable /\ \E n \in 1..MaxTasks : RingIs(n)

\* On such a ring schedule() finds its way, and the task it leaves can be
\* resumed.
LEMMA ScheduleOnRing ==
    ASSUME TypeOK, ~lost, Resumable, NEW n \in 1..MaxTasks, RingIs(n), used[current],
           NEW st \in [Slots -> TaskState], st[current] # "ready",
           NEW how \in {"irq", "call"}, Schedule(st, how), used' = used
    PROVE  ~lost' /\ Resumable'
<1> USE SchedulerAssumption
<1>1. current \in 0..(n - 1) /\ next[current] \in 0..(n - 1)
  BY DEF RingIs, RingHead, Slots, TypeOK
<1>2. \A i \in 0..MaxTasks : Chain(next[current])[i] \in 0..(n - 1)
  BY <1>1, WalkStaysOn
<1>3. \A u \in 0..(n - 1) : u \in Slots /\ used[u]
  BY DEF RingIs, Slots
<1>4. ~FallsOff(st)
  BY <1>2, <1>3 DEF FallsOff
<1>5. ASSUME NEW m \in Slots, FirstReady(st, m) PROVE m # current /\ resume[m] # "none"
  <2>1. PICK i \in 0..MaxTasks : Chain(next[current])[i] = m
    BY <1>5 DEF FirstReady
  <2>2. st[m] = "ready"
    BY <1>5, FirstReadyIsReady
  <2>3. used[m]
    BY <1>2, <1>3, <2>1
  <2>4. QED BY <2>2, <2>3 DEF Resumable
<1>6. ~LoseControl(st, how)
  BY <1>4, <1>5 DEF LoseControl
<1>7. CASE \E m \in Slots : FirstReady(st, m) /\ SwitchTo(m, st, how)
  <2>1. PICK m \in Slots : SwitchTo(m, st, how)
    BY <1>7
  <2>2. /\ lost' = lost /\ current' = m
        /\ \A t \in Slots : resume'[t] = IF t = current THEN how ELSE resume[t]
    BY <2>1 DEF SwitchTo, TypeOK
  <2>3. QED BY <2>2 DEF Resumable
<1>8. CASE KeepRunning(st, how)
  BY <1>8 DEF KeepRunning, Resumable
<1>9. QED BY <1>6, <1>7, <1>8 DEF Schedule

\* task_create takes the next slot and puts it behind ring_head.
LEMMA CreateKeepsRing ==
    ASSUME SchedInv, RingInv, Create, ~reclaimed'
    PROVE  ~lost' /\ Resumable' /\ \E n \in 1..MaxTasks : RingIs(n)'
<1> USE SchedulerAssumption DEF SchedInv
<1>1. PICK s \in Slots :
        /\ Allocates(s) /\ ClearSlot(s)
        /\ \/ /\ used' = [used EXCEPT ![s] = TRUE]
              /\ Link(s)
              /\ resume' = [resume EXCEPT ![s] = "entry"]
           \/ /\ used' = [used EXCEPT ![s] = FALSE]
              /\ next' = [next EXCEPT ![s] = Null]
              /\ resume' = [resume EXCEPT ![s] = "none"]
  BY DEF Create
<1>2. ~lost /\ lost' = lost /\ current' = current
  BY DEF Create
<1>3. ~reclaimed /\ ~used[s] /\ \A r \in 0..(s - 1) : used[r]
  BY <1>1 DEF ClearSlot, Allocates
<1>4. PICK n \in 1..MaxTasks : RingIs(n)
  BY <1>3 DEF RingInv
<1>5. s = n /\ RingHead = 0 /\ RingHead \in Slots /\ s # RingHead
  <2>1. s \in Nat /\ ~(s < n)
    BY <1>3, <1>4 DEF RingIs, Slots
  <2>2. s > n => FALSE
    <3> SUFFICES ASSUME s > n PROVE FALSE
      OBVIOUS
    <3>1. n \in 0..(s - 1) /\ n \in Slots
      BY <2>1 DEF Slots
    <3>2. QED BY <1>3, <1>4, <3>1 DEF RingIs
  <2>3. QED BY <2>1, <2>2 DEF RingHead, Slots
<1>6. CASE used' = [used EXCEPT ![s] = TRUE] /\ Link(s) /\ resume' = [resume EXCEPT ![s] = "entry"]
  <2>1. n + 1 \in 1..MaxTasks
    BY <1>5 DEF Slots
  <2>2. \A t \in Slots : next'[t] = IF t = RingHead THEN n ELSE IF t = n THEN n - 1 ELSE next[t]
    BY <1>4, <1>5, <1>6 DEF Link, TypeOK, RingIs
  <2>3. \A t \in Slots : used'[t] <=> t = n \/ used[t]
    BY <1>5, <1>6 DEF TypeOK
  <2>4. RingIs(n + 1)'
    <3>1. \A t \in Slots : used'[t] <=> t < n + 1
      BY <1>4, <2>3 DEF RingIs, Slots
    <3>2. next'[RingHead] = (n + 1) - 1
      BY <1>5, <2>2
    <3>3. \A t \in 1..((n + 1) - 1) : next'[t] = t - 1
      <4> TAKE t \in 1..((n + 1) - 1)
      <4>1. t \in Slots /\ t # RingHead /\ (t # n => t \in 1..(n - 1))
        BY <1>5, <2>1 DEF Slots, RingHead
      <4>2. QED BY <1>4, <2>2, <4>1 DEF RingIs
    <3>4. QED BY <3>1, <3>2, <3>3 DEF RingIs
  <2>5. Resumable'
    BY <1>2, <1>3, <1>5, <1>6, <2>3 DEF Resumable, RingInv, TypeOK
  <2>6. QED BY <1>2, <2>1, <2>4, <2>5
<1>7. CASE /\ used' = [used EXCEPT ![s] = FALSE]
           /\ next' = [next EXCEPT ![s] = Null]
           /\ resume' = [resume EXCEPT ![s] = "none"]
  <2>1. used' = used
    BY <1>3, <1>7 DEF TypeOK
  <2>2. \A t \in Slots : t # s => next'[t] = next[t]
    BY <1>7 DEF TypeOK
  <2>3. \A t \in 1..(n - 1) : t \in Slots /\ t # s
    BY <1>5 DEF Slots
  <2>4. RingIs(n)'
    BY <1>4, <1>5, <2>1, <2>2, <2>3 DEF RingIs
  <2>5. Resumable'
    BY <1>2, <1>3, <1>7, <2>1 DEF Resumable, RingInv, TypeOK
  <2>6. QED BY <1>2, <2>4, <2>5
<1>8. QED BY <1>1, <1>6, <1>7

LEMMA RingInvInit == Init => RingInv
<1> SUFFICES ASSUME Init PROVE RingInv
  OBVIOUS
<1> USE SchedulerAssumption
<1>1. 1 \in 1..MaxTasks /\ RingHead \in Slots /\ RingHead = 0
  BY DEF RingHead, Slots
<1>2. \A t \in Slots : used[t] <=> t < 1
  <2>1. \A t \in Slots : used[t] <=> t = RingHead
    BY DEF Init
  <2>2. \A t \in Slots : t = RingHead <=> t < 1
    BY <1>1 DEF Slots
  <2>3. QED BY <2>1, <2>2
<1>3. next[RingHead] = RingHead
  BY <1>1 DEF Init
<1>4. RingIs(1)
  BY <1>1, <1>2, <1>3 DEF RingIs
<1>5. Resumable
  BY DEF Init, Resumable
<1>6. ~lost
  BY DEF Init
<1>7. QED BY <1>1, <1>4, <1>5, <1>6 DEF RingInv

\* A caller of schedule() has set task states and nothing of the ring.
LEMMA CallKeepsRing ==
    ASSUME SchedInv, RingInv, ~reclaimed, NEW st \in [Slots -> TaskState],
           st[current] # "ready", NEW how \in {"irq", "call"}, Schedule(st, how),
           used' = used, next' = next
    PROVE  RingInv'
<1>1. ~lost /\ Resumable
  BY DEF RingInv
<1>2. PICK n \in 1..MaxTasks : RingIs(n)
  BY DEF RingInv
<1>3. used[current] /\ TypeOK
  BY <1>1 DEF SchedInv, SlotsOwned
<1>4. ~lost' /\ Resumable'
  BY <1>1, <1>2, <1>3, ScheduleOnRing
<1>5. RingIs(n)'
  BY <1>2 DEF RingIs
<1>6. QED BY <1>2, <1>4, <1>5 DEF RingInv

LEMMA RingInvNext == SchedInv /\ RingInv /\ [Next]_vars => RingInv'
<1> SUFFICES ASSUME SchedInv, RingInv, [Next]_vars, ~reclaimed' PROVE RingInv'
  BY DEF RingInv
<1>1. CASE Create
  BY <1>1, CreateKeepsRing DEF RingInv
<1>2. CASE Tick
  <2>1. ~reclaimed /\ used' = used /\ next' = next
    BY <1>2 DEF Tick
  <2>2. PICK n \in 1..MaxTasks : RingIs(n)
    BY <2>1 DEF RingInv
  <2>3. RingCloses
    BY <2>2, RingIsWhole DEF SchedInv
  <2>4. CASE quantum > 1
    <3>1. lost' = lost /\ current' = current /\ resume' = resume
      BY <1>2, <2>3, <2>4 DEF Tick, SchedInv, TypeOK
    <3>2. RingIs(n)'
      BY <2>1, <2>2 DEF RingIs
    <3>3. QED BY <2>1, <3>1, <3>2 DEF RingInv, Resumable
  <2>5. CASE quantum = 1
    <3>1. ~lost /\ Schedule(Woken, "irq")
      BY <1>2, <2>3, <2>5 DEF Tick
    <3>2. Woken \in [Slots -> TaskState] /\ Woken[current] = "running"
      BY <3>1, WokenTypes, WokenKeeps DEF SchedInv
    <3> HIDE DEF Woken
    <3>3. QED BY <2>1, <3>1, <3>2, CallKeepsRing
  <2>6. QED BY <2>4, <2>5 DEF SchedInv, TypeOK
<1>3. CASE Yield
  <2>1. ~reclaimed /\ ~lost /\ used' = used /\ next' = next /\ Schedule(state, "call")
    BY <1>3 DEF Yield
  <2>2. state \in [Slots -> TaskState] /\ state[current] = "running"
    BY <2>1 DEF SchedInv, OneRunning, TypeOK
  <2>3. QED BY <2>1, <2>2, CallKeepsRing
<1>4. ASSUME NEW d \in 0..MaxDelay, Sleep(d) PROVE RingInv'
  <2> DEFINE st == [state EXCEPT ![current] = "sleeping"]
  <2>1. ~reclaimed /\ used' = used /\ next' = next /\ Schedule(st, "call")
    BY <1>4 DEF Sleep
  <2>2. st \in [Slots -> TaskState] /\ st[current] # "ready"
    BY DEF SchedInv, TypeOK, TaskState
  <2> HIDE DEF st
  <2>3. QED BY <2>1, <2>2, CallKeepsRing
<1>5. CASE Exit
  <2> DEFINE st == [state EXCEPT ![current] = "dead"]
  <2>1. ~reclaimed /\ used' = used /\ next' = next /\ Schedule(st, "call")
    BY <1>5 DEF Exit
  <2>2. st \in [Slots -> TaskState] /\ st[current] # "ready"
    BY DEF SchedInv, TypeOK, TaskState
  <2> HIDE DEF st
  <2>3. QED BY <2>1, <2>2, CallKeepsRing
<1>6. CASE UNCHANGED vars
  BY <1>6 DEF vars, RingInv, Resumable, RingIs
<1>7. QED BY <1>1, <1>2, <1>3, <1>4, <1>5, <1>6 DEF Next

LEMMA RingInvAlways == Spec => [](SchedInv /\ RingInv)
<1>1. Init => RingInv
  BY RingInvInit
<1>2. SchedInv /\ RingInv /\ [Next]_vars => RingInv'
  BY RingInvNext
<1>3. QED BY <1>1, <1>2, SchedInvAlways, PTL DEF Spec

\* Until a dead task's slot is given out again, the CPU is never lost in a walk
\* along the next fields, the loops over the ring end, and they meet every
\* allocated task and nothing else.
THEOREM RingStaysWhole == Spec => []RingWhole
<1>1. SchedInv /\ RingInv => RingWhole
  <2> SUFFICES ASSUME SchedInv, RingInv, ~reclaimed
               PROVE  ~lost /\ RingCloses /\ Queue = {t \in Slots : used[t]}
    BY DEF RingWhole
  <2>1. PICK n \in 1..MaxTasks : RingIs(n)
    BY DEF RingInv
  <2>2. QED BY <2>1, RingIsWhole DEF SchedInv, RingInv
<1>2. QED BY <1>1, RingInvAlways, PTL

\* The next fields permute the allocated slots: each points to an allocated
\* task and no two point to the same one.
RingPermutes ==
    /\ used[RingHead]
    /\ \A t \in Slots : used[t] =>
        /\ next[t] \in Slots /\ used[next[t]]
        /\ \A u \in Slots : used[u] /\ next[u] = next[t] => u = t

\* As long as no dead slot was handed out again, every allocated task has one
\* predecessor and one successor in the ring.  (With the first reuse it fails:
\* alloc_pcb clears a PCB that its predecessor still points to.)
THEOREM RingStaysLinked == Spec => [](~reclaimed => RingPermutes)
<1>1. RingInv => (~reclaimed => RingPermutes)
  <2> SUFFICES ASSUME RingInv, ~reclaimed PROVE RingPermutes
    OBVIOUS
  <2> USE SchedulerAssumption
  <2>1. PICK n \in 1..MaxTasks : RingIs(n)
    BY DEF RingInv
  <2>2. ASSUME NEW t \in Slots, used[t]
        PROVE  t \in 0..(n - 1) /\ next[t] = IF t = 0 THEN n - 1 ELSE t - 1
    BY <2>1, <2>2 DEF RingIs, RingHead, Slots
  <2>3. \A t \in 0..(n - 1) : t \in Slots /\ used[t]
    BY <2>1 DEF RingIs, Slots
  <2>4. ASSUME NEW t \in Slots, used[t] PROVE next[t] \in 0..(n - 1)
    BY <2>2, <2>4
  <2>5. ASSUME NEW t \in Slots, used[t], NEW u \in Slots, used[u], next[u] = next[t]
        PROVE  u = t
    BY <2>2, <2>5
  <2>6. used[RingHead]
    BY <2>3 DEF RingHead
  <2>7. QED BY <2>3, <2>4, <2>5, <2>6 DEF RingPermutes
<1>2. QED BY <1>1, RingInvAlways, PTL

-----------------------------------------------------------------------------
(* Who is off the CPU.  The boot task is what keeps schedule() from putting  *)
(* a sleeping or dead task back: it is on the ring and never blocks.         *)

\* As in kmain, where task 0 ends up in the shell.
BootTaskStays == RingHead \notin Blocking \cup Exiting

\* schedule(), called by another task, finds at least the boot task.
LEMMA SomebodyReady ==
    ASSUME TypeOK, NEW n \in 1..MaxTasks, RingIs(n), used[current], current # RingHead,
           NEW st \in [Slots -> TaskState], st[RingHead] = "ready"
    PROVE  \E m \in Slots : FirstReady(st, m)
<1> USE SchedulerAssumption
<1> DEFINE c == Chain(next[current])
           T == {i \in 0..MaxTasks : st[c[i]] = "ready"}
<1>1. current \in 1..(n - 1) /\ next[current] = current - 1 /\ next[current] \in 0..(n - 1)
  BY DEF RingIs, RingHead, Slots, TypeOK
<1>2. \A i \in 0..MaxTasks : c[i] \in 0..(n - 1)
  BY <1>1, WalkStaysOn
<1>3. c[current - 1] = RingHead
  <2>1. current - 1 \in 0..(n - 1) /\ current - 1 \in 0..(current - 1)
    BY <1>1
  <2>2. Chain(current - 1)[current - 1] = (current - 1) - (current - 1)
    BY <2>1, WalkGoesDown
  <2>3. QED BY <1>1, <2>2 DEF RingHead
<1>4. \A i \in 0..MaxTasks : c[i] \in Slots
  BY <1>2 DEF Slots
<1> HIDE DEF c
<1>5. T \in SUBSET Nat /\ T # {}
  BY <1>1, <1>3
<1>6. PICK i \in T : \A j \in T : i <= j
  <2> HIDE DEF T
  <2>1. QED BY <1>5, LeastElement
<1>7. \A j \in 0..(i - 1) : j \in 0..MaxTasks /\ st[c[j]] # "ready"
  BY <1>6
<1>8. FirstReady(st, c[i])
  BY <1>4, <1>6, <1>7 DEF FirstReady, c
<1>9. QED BY <1>4, <1>8

OffInv ==
    ~reclaimed => /\ state[RingHead] \in {"ready", "running"} /\ RingHead \notin ended
                  /\ \A t \in Slots : delay[t] > 0 => state[t] \in {"sleeping", "dead"}
                  /\ \A t \in ended : state[t] = "dead"

\* What schedule() may do with states of which the caller says where a wake-up
\* time is left and who is dead: a READY task gets the CPU, nobody else.
LEMMA ScheduleKeepsOff ==
    ASSUME SchedInv, RingInv, ~reclaimed, NEW st \in [Slots -> TaskState], NEW how,
           Schedule(st, how), ~lost', NEW wait, NEW gone \in SUBSET Slots,
           st[RingHead] \in {"ready", "running"}, RingHead \notin gone,
           current # RingHead => st[RingHead] = "ready",
           st[current] \in {"running", "sleeping", "dead"},
           current = RingHead => st[current] = "running",
           \A t \in Slots : wait[t] > 0 => st[t] \in {"sleeping", "dead"},
           \A t \in gone : st[t] = "dead"
    PROVE  /\ state'[RingHead] \in {"ready", "running"}
           /\ \A t \in Slots : wait[t] > 0 => state'[t] \in {"sleeping", "dead"}
           /\ \A t \in gone : state'[t] = "dead"
<1>1. /\ TypeOK /\ used[current] /\ current \in Slots /\ RingHead \in Slots
      /\ \E n \in 1..MaxTasks : RingIs(n)
  BY SchedulerAssumption DEF SchedInv, SlotsOwned, RingInv, TypeOK, RingHead, Slots
<1>2. CASE \E m \in Slots : FirstReady(st, m) /\ SwitchTo(m, st, how)
  <2>1. PICK m \in Slots : FirstReady(st, m) /\ SwitchTo(m, st, how)
    BY <1>2
  <2>2. st[m] = "ready" /\ m # current
    BY <2>1, FirstReadyIsReady
  <2>3. \A t \in Slots : state'[t] = IF t = m THEN "running"
                                     ELSE IF t = current /\ st[t] = "running" THEN "ready"
                                     ELSE st[t]
    BY <1>1, <2>1, <2>2 DEF SwitchTo
  <2>4. QED BY <1>1, <2>2, <2>3
<1>3. CASE KeepRunning(st, how)
  <2>1. current = RingHead
    BY <1>1, <1>3, SomebodyReady DEF KeepRunning
  <2>2. state' = st
    <3>1. state' = [st EXCEPT ![current] = "running"] /\ st[current] = "running"
      BY <1>3, <2>1 DEF KeepRunning
    <3>2. QED BY <3>1
  <2>3. QED BY <2>2
<1>4. CASE LoseControl(st, how)
  BY <1>4 DEF LoseControl
<1>5. QED BY <1>2, <1>3, <1>4 DEF Schedule

LEMMA OffInvNext ==
    ASSUME BootTaskStays, SchedInv, RingInv, OffInv, [Next]_vars
    PROVE  OffInv'
<1> SUFFICES ASSUME ~reclaimed' PROVE OffInv'
  BY DEF OffInv
<1> USE SchedulerAssumption
<1>1. CASE Create
  <2>1. PICK s \in Slots : /\ Allocates(s) /\ ClearSlot(s)
                           /\ state' = [state EXCEPT ![s] = "ready"]
    BY <1>1 DEF Create
  <2>2. ~reclaimed /\ current \in Slots /\ RingHead \in Slots
    BY <2>1 DEF ClearSlot, SchedInv, TypeOK, RingHead, Slots
  <2>3. /\ \A t \in Slots : state'[t] = IF t = s THEN "ready" ELSE state[t]
        /\ \A t \in Slots : delay'[t] = IF t = s THEN 0 ELSE delay[t]
        /\ ended' = ended \ {s} /\ ended \subseteq Slots
    BY <2>1 DEF ClearSlot, SchedInv, TypeOK
  <2>4. QED BY <2>2, <2>3 DEF OffInv
<1>2. CASE Tick
  <2>1. ~lost /\ ~reclaimed /\ ended' = ended
    BY <1>2 DEF Tick
  <2>2. PICK n \in 1..MaxTasks : RingIs(n)
    BY <2>1 DEF RingInv
  <2>3. RingCloses /\ Queue = {t \in Slots : used[t]}
    BY <2>2, RingIsWhole DEF SchedInv
  <2>4. /\ Woken \in [Slots -> TaskState]
        /\ \A t \in Slots : delay[t] \in Nat /\ state[t] \in TaskState
        /\ current \in Slots /\ RingHead \in Slots /\ ended \in SUBSET Slots
        /\ state[current] = "running"
        /\ current # RingHead => state[RingHead] # "running"
    BY <2>1, WokenTypes DEF SchedInv, TypeOK, OneRunning, RingHead, Slots
  <2>5. \A t \in Slots : delay'[t] = IF delay[t] = 0 THEN 0 ELSE delay[t] - 1
    BY <1>2 DEF Tick, CountDown
  <2>6. \A t \in Slots : Woken[t] = IF used[t] /\ state[t] = "sleeping" /\ delay[t] <= 1
                                    THEN "ready" ELSE state[t]
    BY <2>3 DEF Woken
  <2> HIDE DEF Woken
  <2>7. /\ \A t \in Slots : delay'[t] > 0 => Woken[t] \in {"sleeping", "dead"}
        /\ \A t \in ended : Woken[t] = "dead"
        /\ Woken[RingHead] = state[RingHead]
        /\ Woken[current] = "running"
    <3>1. ASSUME NEW t \in Slots, delay'[t] > 0 PROVE Woken[t] \in {"sleeping", "dead"}
      <4>1. delay[t] > 1 /\ state[t] \in {"sleeping", "dead"}
        BY <2>1, <2>4, <2>5, <3>1 DEF OffInv
      <4>2. QED BY <2>4, <2>6, <4>1
    <3>2. ASSUME NEW t \in ended PROVE Woken[t] = "dead"
      BY <2>1, <2>4, <2>6 DEF OffInv
    <3>3. Woken[RingHead] = state[RingHead]
      BY <2>1, <2>4, <2>6 DEF OffInv
    <3>4. Woken[current] = "running"
      BY <2>4, <2>6
    <3>5. QED BY <3>1, <3>2, <3>3, <3>4
  <2>8. CASE quantum > 1
    <3>1. state' = Woken
      BY <1>2, <2>3, <2>8 DEF Tick, SchedInv, TypeOK
    <3>2. QED BY <2>1, <2>7, <3>1 DEF OffInv
  <2>9. CASE quantum = 1
    <3>1. Schedule(Woken, "irq")
      BY <1>2, <2>3, <2>9 DEF Tick
    <3>2. ~lost'
      BY RingInvNext DEF RingInv
    <3>3. /\ state[RingHead] \in {"ready", "running"} /\ RingHead \notin ended
      BY <2>1 DEF OffInv
    <3>4. PICK w : w = delay'
      OBVIOUS
    <3>5. /\ state'[RingHead] \in {"ready", "running"}
          /\ \A t \in Slots : w[t] > 0 => state'[t] \in {"sleeping", "dead"}
          /\ \A t \in ended : state'[t] = "dead"
      BY <2>1, <2>4, <2>7, <3>1, <3>2, <3>3, <3>4, ScheduleKeepsOff
    <3>6. QED BY <2>1, <3>3, <3>4, <3>5 DEF OffInv
  <2>10. QED BY <2>8, <2>9 DEF SchedInv, TypeOK
<1>3. CASE Yield
  <2>1. /\ ~lost /\ ~reclaimed /\ ended' = ended /\ delay' = delay
        /\ current \in Blocking /\ current # RingHead /\ Schedule(state, "call")
    BY <1>3 DEF Yield, BootTaskStays
  <2>2. /\ state \in [Slots -> TaskState] /\ ended \in SUBSET Slots
        /\ state[current] = "running" /\ state[RingHead] # "running"
    BY <2>1 DEF SchedInv, OneRunning, TypeOK, RingHead, Slots
  <2>3. ~lost'
    BY RingInvNext DEF RingInv
  <2>4. /\ state[RingHead] \in {"ready", "running"} /\ RingHead \notin ended
        /\ \A t \in Slots : delay[t] > 0 => state[t] \in {"sleeping", "dead"}
        /\ \A t \in ended : state[t] = "dead"
    BY <2>1 DEF OffInv
  <2>5. /\ state'[RingHead] \in {"ready", "running"}
        /\ \A t \in Slots : delay[t] > 0 => state'[t] \in {"sleeping", "dead"}
        /\ \A t \in ended : state'[t] = "dead"
    BY <2>1, <2>2, <2>3, <2>4, ScheduleKeepsOff
  <2>6. QED BY <2>1, <2>4, <2>5 DEF OffInv
<1>4. ASSUME NEW d \in 0..MaxDelay, Sleep(d) PROVE OffInv'
  <2> DEFINE st == [state EXCEPT ![current] = "sleeping"]
             w == [delay EXCEPT ![current] = d]
  <2>1. /\ ~lost /\ ~reclaimed /\ ended' = ended /\ delay' = w
        /\ current \in Blocking \ ended /\ current # RingHead /\ Schedule(st, "call")
    BY <1>4 DEF Sleep, BootTaskStays
  <2>2. /\ state[RingHead] \in {"ready", "running"} /\ RingHead \notin ended
        /\ \A t \in Slots : delay[t] > 0 => state[t] \in {"sleeping", "dead"}
        /\ \A t \in ended : state[t] = "dead"
    BY <2>1 DEF OffInv
  <2>3. /\ st \in [Slots -> TaskState] /\ ended \in SUBSET Slots
        /\ st[current] = "sleeping" /\ st[RingHead] = "ready"
        /\ \A t \in Slots : t # current => st[t] = state[t] /\ w[t] = delay[t]
        /\ current \in Slots
    BY <2>1, <2>2 DEF SchedInv, OneRunning, TypeOK, RingHead, Slots, TaskState
  <2>4. ~lost'
    BY RingInvNext DEF RingInv
  <2> HIDE DEF st, w
  <2>5. /\ \A t \in Slots : w[t] > 0 => st[t] \in {"sleeping", "dead"}
        /\ \A t \in ended : st[t] = "dead"
    BY <2>1, <2>2, <2>3
  <2>6. /\ state'[RingHead] \in {"ready", "running"}
        /\ \A t \in Slots : w[t] > 0 => state'[t] \in {"sleeping", "dead"}
        /\ \A t \in ended : state'[t] = "dead"
    BY <2>1, <2>2, <2>3, <2>4, <2>5, ScheduleKeepsOff
  <2>7. QED BY <2>1, <2>2, <2>6 DEF OffInv
<1>5. CASE Exit
  <2> DEFINE st == [state EXCEPT ![current] = "dead"]
             gone == ended \cup {current}
  <2>1. /\ ~lost /\ ~reclaimed /\ ended' = gone /\ delay' = delay
        /\ current \in Exiting /\ current # RingHead /\ Schedule(st, "call")
    BY <1>5 DEF Exit, BootTaskStays
  <2>2. /\ state[RingHead] \in {"ready", "running"} /\ RingHead \notin ended
        /\ \A t \in Slots : delay[t] > 0 => state[t] \in {"sleeping", "dead"}
        /\ \A t \in ended : state[t] = "dead"
    BY <2>1 DEF OffInv
  <2>3. /\ st \in [Slots -> TaskState] /\ gone \in SUBSET Slots
        /\ st[current] = "dead" /\ st[RingHead] = "ready" /\ RingHead \notin gone
        /\ \A t \in Slots : t # current => st[t] = state[t]
        /\ \A t \in gone : t # current => t \in ended
        /\ current \in Slots
    BY <2>1, <2>2 DEF SchedInv, OneRunning, TypeOK, RingHead, Slots, TaskState
  <2>4. ~lost'
    BY RingInvNext DEF RingInv
  <2> HIDE DEF st, gone
  <2>5. /\ \A t \in Slots : delay[t] > 0 => st[t] \in {"sleeping", "dead"}
        /\ \A t \in gone : st[t] = "dead"
    BY <2>2, <2>3
  <2>6. /\ state'[RingHead] \in {"ready", "running"}
        /\ \A t \in Slots : delay[t] > 0 => state'[t] \in {"sleeping", "dead"}
        /\ \A t \in gone : state'[t] = "dead"
    BY <2>1, <2>3, <2>4, <2>5, ScheduleKeepsOff
  <2>7. QED BY <2>1, <2>3, <2>6 DEF OffInv
<1>6. CASE UNCHANGED vars
  BY <1>6 DEF vars, OffInv
<1>7. QED BY <1>1, <1>2, <1>3, <1>4, <1>5, <1>6 DEF Next

\* With a boot task that never blocks: until a slot is reused, nobody runs or is
\* READY before its wake-up time, and nobody comes back from task_exit.
THEOREM OffStays == BootTaskStays => (Spec => []OffStaysOff)
<1> SUFFICES ASSUME BootTaskStays PROVE Spec => []OffStaysOff
  OBVIOUS
<1>1. Init => OffInv
  BY SchedulerAssumption DEF Init, OffInv, RingHead, Slots
<1>2. SchedInv /\ RingInv /\ OffInv /\ [Next]_vars => OffInv'
  BY OffInvNext
<1>3. OffInv => OffStaysOff
  BY DEF OffInv, OffStaysOff
<1>4. QED BY <1>1, <1>2, <1>3, RingInvAlways, PTL DEF Spec
=============================================================================
