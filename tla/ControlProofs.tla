---------------------------- MODULE ControlProofs ----------------------------
(***************************************************************************)
(* Proofs about the control plane, for any commands typed, any size of the *)
(* table and of the ring of events, and however long the session is.       *)
(***************************************************************************)
EXTENDS Control, Induction, SequenceTheorems, TLAPS

-----------------------------------------------------------------------------
(* The ring of events.                                                     *)

\* A remainder whose argument is at most once around is a subtraction.
LEMMA OnceAround ==
    ASSUME NEW N \in Nat \ {0}, NEW x \in 0..2 * N - 1
    PROVE  x % N = IF x < N THEN x ELSE x - N
<1> DEFINE q == x \div N
           r == x % N
<1>1. q \in Int /\ r \in 0..N - 1 /\ x = N * q + r
  OBVIOUS
<1>2. CASE q >= 2
  <2>1. N * q >= N * 2
    BY <1>1, <1>2
  <2> QED BY <1>1, <2>1
<1>3. CASE q <= -1
  <2>1. N * q <= N * (-1)
    BY <1>1, <1>3
  <2> QED BY <1>1, <2>1
<1>4. CASE q = 0
  BY <1>1, <1>4
<1>5. CASE q = 1
  BY <1>1, <1>5
<1> QED BY <1>1, <1>2, <1>3, <1>4, <1>5

LogRec == [ring : [0..EV_MAX - 1 -> Messages \cup {Blank}], head : 0..EV_MAX - 1, total : Nat]

\* The slot k places before the head of l, counted around.
Back(l, k) == IF l.head >= k THEN l.head - k ELSE (l.head - k) + EV_MAX

\* The log l after the messages s: one that is at most EV_MAX old is in the slot
\* that many places before the head.
Remembers(l, s) ==
    /\ s \in Seq(Messages) /\ l \in LogRec
    /\ l.total = Len(s)
    /\ \A k \in 1..EV_MAX : k <= Len(s) => l.ring[Back(l, k)] = s[(Len(s) - k) + 1]

\* Writing at the head keeps every younger message one place further back.
LEMMA LoggedRemembers ==
    ASSUME NEW l, NEW s, Remembers(l, s), NEW m \in Messages
    PROVE  Remembers(Logged(l, m), Append(s, m))
<1> DEFINE n == Logged(l, m)
           t == Append(s, m)
<1>1. l.head \in 0..EV_MAX - 1 /\ l.head + 1 \in 0..2 * EV_MAX - 1
  BY EventLogAssumption DEF Remembers, LogRec
<1>2. n.head = IF l.head + 1 < EV_MAX THEN l.head + 1 ELSE 0
  <2>1. (l.head + 1) % EV_MAX
          = IF l.head + 1 < EV_MAX THEN l.head + 1 ELSE (l.head + 1) - EV_MAX
    BY <1>1, OnceAround, EventLogAssumption
  <2>2. n.head = (l.head + 1) % EV_MAX
    BY DEF Logged
  <2>3. QED BY <1>1, <2>1, <2>2, EventLogAssumption
<1>3. n.ring = [l.ring EXCEPT ![l.head] = m] /\ n.total = l.total + 1
  BY DEF Logged
<1>4. n = [ring |-> n.ring, head |-> n.head, total |-> n.total]
  BY DEF Logged
<1>5. l.ring \in [0..EV_MAX - 1 -> Messages \cup {Blank}] /\ l.total \in Nat /\ s \in Seq(Messages)
  BY DEF Remembers, LogRec
<1> HIDE DEF n
<1>6. n \in LogRec
  <2>1. n.ring \in [0..EV_MAX - 1 -> Messages \cup {Blank}]
    <3>1. m \in Messages \cup {Blank}
      OBVIOUS
    <3>2. [l.ring EXCEPT ![l.head] = m] \in [0..EV_MAX - 1 -> Messages \cup {Blank}]
      BY <1>1, <1>5, <3>1
    <3>3. QED BY <1>3, <3>2
  <2>4. n.total \in Nat
    BY <1>3, <1>5
  <2>2. n.head \in 0..EV_MAX - 1
    BY <1>1, <1>2, EventLogAssumption
  <2>5. QED BY <1>4, <2>1, <2>2, <2>4 DEF LogRec
<1>7. /\ t \in Seq(Messages) /\ Len(t) = Len(s) + 1 /\ Len(s) \in Nat
      /\ t[Len(s) + 1] = m /\ \A i \in 1..Len(s) : t[i] = s[i]
  BY <1>5
<1> HIDE DEF t
<1>8. ASSUME NEW k \in 1..EV_MAX, k <= Len(t)
      PROVE  n.ring[Back(n, k)] = t[(Len(t) - k) + 1]
  <2>1. CASE k = 1
    <3>1. Back(n, k) = l.head
      BY <1>1, <1>2, <2>1, EventLogAssumption DEF Back
    <3>2. n.ring[l.head] = m
      BY <1>1, <1>3, <1>5
    <3>3. (Len(t) - k) + 1 = Len(s) + 1
      BY <1>7, <2>1
    <3>4. QED BY <1>7, <3>1, <3>2, <3>3
  <2>2. CASE k > 1
    <3>1. k - 1 \in 1..EV_MAX /\ k - 1 <= Len(s)
      BY <1>7, <1>8, <2>2, EventLogAssumption
    <3>2. Back(n, k) = Back(l, k - 1) /\ Back(l, k - 1) \in 0..EV_MAX - 1 /\ Back(l, k - 1) # l.head
      BY <1>1, <1>2, <1>8, <2>2, EventLogAssumption DEF Back
    <3>3. n.ring[Back(l, k - 1)] = l.ring[Back(l, k - 1)]
      BY <1>3, <1>5, <3>2
    <3>4. l.ring[Back(l, k - 1)] = s[(Len(s) - (k - 1)) + 1]
      BY <3>1 DEF Remembers
    <3>5. /\ (Len(s) - (k - 1)) + 1 \in 1..Len(s)
          /\ (Len(t) - k) + 1 = (Len(s) - (k - 1)) + 1
      BY <1>7, <1>8, <2>2, <3>1
    <3>6. t[(Len(t) - k) + 1] = s[(Len(s) - (k - 1)) + 1]
      BY <1>7, <3>5
    <3>7. QED BY <3>2, <3>3, <3>4, <3>6
  <2>3. QED BY <1>8, <2>1, <2>2
<1>9. n.total = Len(t)
  BY <1>3, <1>7 DEF Remembers
<1>10. QED BY <1>6, <1>7, <1>8, <1>9 DEF Remembers, n, t

\* Logging a sequence of messages is logging them one after the other.
LEMMA LoggedSteps ==
    ASSUME NEW l \in LogRec, NEW ev \in Seq(Messages)
    PROVE  \E h \in [0..Len(ev) -> LogRec] :
                /\ h[0] = l /\ h[Len(ev)] = FoldLeft(Logged, l, ev)
                /\ \A i \in 1..Len(ev) : h[i] = Logged(h[i - 1], ev[i])
<1> DEFINE N == Len(ev)
           r == FoldLeft(Logged, l, ev)
           A == 1..N
           F == [p \in LogRec \X A |-> Logged(p[1], ev[p[2]])]
           Eq(f) == f = [s \in SUBSET A |->
                            IF s = {} THEN l ELSE Logged(f[s \ {Greatest(s)}], ev[Greatest(s)])]
           iter == CHOOSE f : Eq(f)
<1>1. N \in Nat /\ DOMAIN ev = A /\ A = 1..N /\ \A i \in A : ev[i] \in Messages
  OBVIOUS
<1> HIDE DEF N, A
<1>2. ASSUME NEW x \in LogRec, NEW i \in A PROVE Logged(x, ev[i]) \in LogRec
  <2>1. /\ ev[i] \in Messages \cup {Blank} /\ x.head \in 0..EV_MAX - 1 /\ x.total \in Nat
        /\ x.ring \in [0..EV_MAX - 1 -> Messages \cup {Blank}]
    BY <1>1 DEF LogRec
  <2>2. (x.head + 1) % EV_MAX \in 0..EV_MAX - 1
    BY <2>1, EventLogAssumption
  <2>3. [x.ring EXCEPT ![x.head] = ev[i]] \in [0..EV_MAX - 1 -> Messages \cup {Blank}]
    BY <2>1
  <2>4. QED BY <2>1, <2>2, <2>3 DEF LogRec, Logged
<1>3. /\ F \in [LogRec \X A -> LogRec]
      /\ \A x \in LogRec, i \in A : F[<<x, i>>] = Logged(x, ev[i])
  <2>1. QED BY <1>2
<1> HIDE DEF F
<1>4. Eq(iter)
  <2>1. PICK f \in [SUBSET A -> LogRec] : IsSeqFold(f, A, l, F)
    BY <1>1, <1>3, SeqFoldsExist
  <2>2. ASSUME NEW s \in SUBSET A, s # {}
        PROVE  F[<<f[s \ {Greatest(s)}], Greatest(s)>>] = Logged(f[s \ {Greatest(s)}], ev[Greatest(s)])
    <3>1. Greatest(s) \in A
      BY <1>1, <2>2, InitialSegments
    <3>2. f[s \ {Greatest(s)}] \in LogRec
      OBVIOUS
    <3>3. QED BY <1>3, <3>1, <3>2
  <2>3. Eq(f)
    BY <2>1, <2>2 DEF IsSeqFold
  <2>4. QED
    <3> HIDE DEF Eq
    <3>1. QED BY <2>3
<1>5. r = iter[A]
  BY <1>1, Zenon DEF FoldLeft, MapThenFoldSet, Max, Greatest
<1> HIDE DEF iter, r
<1>6. iter[{}] = l
  BY <1>4
<1>7. ASSUME NEW i \in 1..N, iter[1..(i - 1)] \in LogRec
      PROVE  iter[1..i] = F[<<iter[1..(i - 1)], i>>]
  <2>1. /\ 1..i \in SUBSET A /\ 1..i # {}
        /\ Greatest(1..i) = i /\ (1..i) \ {i} = 1..(i - 1)
    BY <1>1, InitialSegments
  <2>2. iter[1..i] = Logged(iter[1..(i - 1)], ev[i])
    <3>1. iter[1..i] = Logged(iter[(1..i) \ {Greatest(1..i)}], ev[Greatest(1..i)])
      BY <1>4, <2>1
    <3>2. QED BY <2>1, <3>1
  <2>3. QED BY <1>1, <1>3, <1>7, <2>2
<1>8. PICK h : Reaches(h, N, LogRec, l, F, r)
  <2> HIDE DEF Eq
  <2>1. ClimbsTo(iter, N, A, LogRec, l, F, r)
    BY <1>1, <1>3, <1>5, <1>6, <1>7 DEF ClimbsTo
  <2>2. QED BY <2>1, SeqFoldSteps
<1>9. /\ h \in [0..N -> LogRec] /\ h[0] = l /\ h[N] = r
      /\ \A i \in 1..N : h[i] = F[<<h[i - 1], i>>] /\ h[i - 1] \in LogRec
  BY <1>8 DEF Reaches
<1>10. \A i \in 1..N : h[i] = Logged(h[i - 1], ev[i])
  BY <1>1, <1>3, <1>9
<1>11. QED BY <1>9, <1>10 DEF N, r

LEMMA FunctionIsSeq ==
    ASSUME NEW n \in Nat, NEW T, NEW f \in [1..n -> T]
    PROVE  f \in Seq(T) /\ Len(f) = n
OBVIOUS

LEMMA ConcatIs ==
    ASSUME NEW T, NEW s \in Seq(T), NEW t \in Seq(T)
    PROVE  /\ s = [j \in 1..Len(s) |-> s[j]]
           /\ s \o t = [j \in 1..(Len(s) + Len(t)) |-> IF j <= Len(s) THEN s[j] ELSE t[j - Len(s)]]
<1> DEFINE c == s \o t
<1>1. c \in Seq(T) /\ Len(c) = Len(s) + Len(t)
  OBVIOUS
<1>2. \A j \in 1..(Len(s) + Len(t)) : c[j] = IF j <= Len(s) THEN s[j] ELSE t[j - Len(s)]
  OBVIOUS
<1> HIDE DEF c
<1>3. c = [j \in 1..Len(c) |-> c[j]] /\ s = [j \in 1..Len(s) |-> s[j]]
  BY <1>1
<1>4. QED BY <1>1, <1>2, <1>3 DEF c

\* A list s of messages followed by the first i of ev.
LEMMA Longer ==
    ASSUME NEW s \in Seq(Messages), NEW ev \in Seq(Messages)
    PROVE  \E t \in [0..Len(ev) -> Seq(Messages)] :
                /\ t[0] = s /\ t[Len(ev)] = s \o ev
                /\ \A i \in 0..(Len(ev) - 1) : t[i + 1] = Append(t[i], ev[i + 1])
<1> DEFINE N == Len(ev)
           m == Len(s)
           w(i) == [j \in 1..(m + i) |-> IF j <= m THEN s[j] ELSE ev[j - m]]
           t == [i \in 0..N |-> w(i)]
<1>1. N \in Nat /\ m \in Nat /\ (\A j \in 1..m : s[j] \in Messages) /\ \A j \in 1..N : ev[j] \in Messages
  OBVIOUS
<1>2. s = [j \in 1..m |-> s[j]] /\ s \o ev = [j \in 1..(m + N) |-> IF j <= m THEN s[j] ELSE ev[j - m]]
  BY ConcatIs
<1> HIDE DEF N, m
<1>3. ASSUME NEW i \in 0..N PROVE w(i) \in Seq(Messages) /\ Len(w(i)) = m + i
  <2>1. \A j \in 1..(m + i) : w(i)[j] \in Messages
    BY <1>1
  <2>2. m + i \in Nat
    BY <1>1
  <2>3. w(i) \in [1..(m + i) -> Messages]
    BY <2>1
  <2> HIDE DEF w
  <2>4. QED BY <2>2, <2>3, FunctionIsSeq
<1>4. t \in [0..N -> Seq(Messages)]
  <2> HIDE DEF w
  <2>1. QED BY <1>3
<1>5. t[0] = s
  <2>1. \A j \in 1..(m + 0) : w(0)[j] = s[j]
    BY <1>1
  <2>2. w(0) = [j \in 1..(m + 0) |-> w(0)[j]]
    OBVIOUS
  <2>3. m + 0 = m /\ t[0] = w(0)
    BY <1>1
  <2> HIDE DEF w, t
  <2>4. QED BY <1>2, <2>1, <2>2, <2>3
<1>6. t[N] = s \o ev
  BY <1>1, <1>2
<1>7. ASSUME NEW i \in 0..(N - 1) PROVE t[i + 1] = Append(t[i], ev[i + 1])
  <2>1. i \in 0..N /\ i + 1 \in 0..N
    BY <1>1
  <2>2. t[i] = w(i) /\ t[i + 1] = w(i + 1)
    BY <2>1
  <2>3. Append(w(i), ev[i + 1]) = [j \in 1..(m + i + 1) |-> IF j <= m + i THEN w(i)[j] ELSE ev[i + 1]]
    <3>1. w(i) \in Seq(Messages) /\ Len(w(i)) = m + i
      BY <1>3, <2>1
    <3> HIDE DEF w
    <3>2. QED BY <1>1, <3>1
  <2>4. ASSUME NEW j \in 1..(m + i + 1)
        PROVE  w(i + 1)[j] = IF j <= m + i THEN w(i)[j] ELSE ev[i + 1]
    <3>1. CASE j <= m + i
      BY <1>1, <2>1, <3>1
    <3>2. CASE j = m + i + 1
      BY <1>1, <2>1, <3>2
    <3>3. QED BY <1>1, <2>1, <3>1, <3>2
  <2>5. w(i + 1) = [j \in 1..(m + i + 1) |-> w(i + 1)[j]]
    <3>1. m + (i + 1) = m + i + 1
      BY <1>1
    <3>2. QED BY <3>1
  <2> HIDE DEF w, t
  <2>6. QED BY <2>2, <2>3, <2>4, <2>5
<1>8. QED
  <2> HIDE DEF t
  <2>1. QED BY <1>4, <1>5, <1>6, <1>7 DEF N

LEMMA FoldRemembers ==
    ASSUME NEW l, NEW s, Remembers(l, s), NEW ev \in Seq(Messages)
    PROVE  Remembers(FoldLeft(Logged, l, ev), s \o ev)
<1> DEFINE N == Len(ev)
<1>1. N \in Nat /\ \A i \in 1..N : ev[i] \in Messages
  OBVIOUS
<1>2. l \in LogRec /\ s \in Seq(Messages)
  BY DEF Remembers
<1>3. PICK h \in [0..N -> LogRec] :
            /\ h[0] = l /\ h[N] = FoldLeft(Logged, l, ev)
            /\ \A i \in 1..N : h[i] = Logged(h[i - 1], ev[i])
  BY <1>2, LoggedSteps
<1>4. PICK t \in [0..N -> Seq(Messages)] :
            /\ t[0] = s /\ t[N] = s \o ev
            /\ \A i \in 0..(N - 1) : t[i + 1] = Append(t[i], ev[i + 1])
  BY <1>2, Longer
<1> HIDE DEF N
<1> DEFINE S == {i \in 0..N : Remembers(h[i], t[i])}
<1>5. 0 \in S
  BY <1>1, <1>3, <1>4
<1>6. ASSUME NEW i \in 0..(N - 1), i \in S PROVE i + 1 \in S
  <2>1. i + 1 \in 1..N /\ i + 1 \in 0..N /\ (i + 1) - 1 = i
    BY <1>1
  <2>2. h[i + 1] = Logged(h[i], ev[i + 1]) /\ t[i + 1] = Append(t[i], ev[i + 1])
    BY <1>3, <1>4, <2>1
  <2>3. Remembers(h[i], t[i]) /\ ev[i + 1] \in Messages
    BY <1>1, <1>6, <2>1
  <2>4. Remembers(Logged(h[i], ev[i + 1]), Append(t[i], ev[i + 1]))
    BY <2>3, LoggedRemembers
  <2>5. QED BY <2>1, <2>2, <2>4
<1>7. N \in S
  <2> HIDE DEF S
  <2>1. 0..N \subseteq S
    BY <1>1, <1>5, <1>6, InductionUpTo
  <2>2. QED BY <1>1, <2>1
<1>8. QED BY <1>3, <1>4, <1>7

\* What a log remembers, a dump of it shows.
LEMMA DumpShows ==
    ASSUME Remembers(log, said) PROVE DumpShowsLast
<1> SUFFICES ASSUME NEW max \in -1..EV_MAX + 1
             PROVE  Dump(max) = [i \in 1..Shown(max) |-> said[(Len(said) - Shown(max)) + i]]
  BY DEF DumpShowsLast
<1> DEFINE n == Shown(max)
           start == (log.head - n + EV_MAX) % EV_MAX
<1>1. n \in 0..EV_MAX /\ n <= Len(said) /\ Len(said) \in Nat
  BY EventLogAssumption DEF Shown, Remembers, LogRec
<1> HIDE DEF n
<1>2. log.head \in 0..EV_MAX - 1 /\ log.head - n + EV_MAX \in 0..2 * EV_MAX - 1
  BY <1>1, EventLogAssumption DEF Remembers, LogRec
<1>3. start = IF log.head >= n THEN log.head - n ELSE (log.head - n) + EV_MAX
  <2> DEFINE x == log.head - n + EV_MAX
  <2>1. x \in 0..2 * EV_MAX - 1
    BY <1>2
  <2>2. x % EV_MAX = IF x < EV_MAX THEN x ELSE x - EV_MAX
    <3> HIDE DEF x
    <3> QED BY <2>1, OnceAround, EventLogAssumption
  <2>3. (x < EV_MAX <=> ~(log.head >= n)) /\ x - EV_MAX = log.head - n
    BY <1>1, <1>2, EventLogAssumption
  <2> QED BY <1>1, <1>2, <2>2, <2>3, EventLogAssumption
<1> HIDE DEF start
<1>4. ASSUME NEW i \in 1..n
      PROVE  log.ring[(start + (i - 1)) % EV_MAX] = said[(Len(said) - n) + i]
  <2> DEFINE k == (n - i) + 1
  <2>1. k \in 1..EV_MAX /\ k <= Len(said)
    BY <1>1, EventLogAssumption
  <2>2. start \in 0..EV_MAX - 1 /\ start + (i - 1) \in 0..2 * EV_MAX - 1
    <3>1. CASE log.head >= n
      BY <1>1, <1>2, <1>3, <3>1, EventLogAssumption
    <3>2. CASE ~(log.head >= n)
      <4>1. start = (log.head - n) + EV_MAX
        BY <1>3, <3>2
      <4> QED BY <1>1, <1>2, <3>2, <4>1, EventLogAssumption
    <3> QED BY <3>1, <3>2
  <2>3. (start + (i - 1)) % EV_MAX = Back(log, k)
    <3>1. (start + (i - 1)) % EV_MAX
            = IF start + (i - 1) < EV_MAX THEN start + (i - 1) ELSE (start + (i - 1)) - EV_MAX
      BY <2>2, OnceAround, EventLogAssumption
    <3>2. (IF start + (i - 1) < EV_MAX THEN start + (i - 1) ELSE (start + (i - 1)) - EV_MAX)
            = IF log.head >= k THEN log.head - k ELSE (log.head - k) + EV_MAX
      <4>1. CASE log.head >= n
        <5>1. start = log.head - n
          BY <1>3, <4>1
        <5> QED BY <1>1, <1>2, <4>1, <5>1, EventLogAssumption
      <4>2. CASE ~(log.head >= n)
        <5>1. start = (log.head - n) + EV_MAX
          BY <1>3, <4>2
        <5> QED BY <1>1, <1>2, <4>2, <5>1, EventLogAssumption
      <4> QED BY <4>1, <4>2
    <3> QED BY <3>1, <3>2 DEF Back
  <2>4. log.ring[Back(log, k)] = said[(Len(said) - k) + 1]
    BY <2>1 DEF Remembers
  <2>5. (Len(said) - k) + 1 = (Len(said) - n) + i
    BY <1>1
  <2> QED BY <2>3, <2>4, <2>5
<1> QED BY <1>4 DEF Dump, n, start

LEMMA EmptyRemembers == Remembers(EmptyLog, <<>>)
<1>1. EmptyLog \in LogRec /\ EmptyLog.total = 0
  BY EventLogAssumption DEF EmptyLog, LogRec
<1>2. <<>> \in Seq(Messages) /\ Len(<<>>) = 0
  OBVIOUS
<1>3. \A k \in 1..EV_MAX : ~(k <= Len(<<>>))
  BY <1>2, EventLogAssumption
<1>4. QED BY <1>1, <1>2, <1>3 DEF Remembers

\* A step logs nothing, or the events of one command.
LEMMA StepLogs ==
    ASSUME [Next]_vars
    PROVE  UNCHANGED logVars \/ \E events \in Seq(Messages) : Command(events)
<1>1. /\ <<"ok">> \in Seq(Messages) /\ <<"warn">> \in Seq(Messages)
      /\ <<"info">> \in Seq(Messages) /\ <<>> \in Seq(Messages)
  BY TypedAssumption
<1>2. CASE UNCHANGED vars
  BY <1>2 DEF vars
<1>3. ASSUME NEW m \in DOMAIN Irq, NEW on \in BOOLEAN, ModuleSet(m, on)
      PROVE  UNCHANGED logVars \/ \E events \in Seq(Messages) : Command(events)
  <2>1. (IF on THEN "ok" ELSE "warn") \in {"ok", "warn"}
    OBVIOUS
  <2>2. QED BY <1>1, <1>3, <2>1 DEF ModuleSet, vars
<1>4. CASE Gui \/ SaveCommand \/ (\E s \in Typed.settings : ConfigCommand(s.key, s.val))
  BY <1>1, <1>4 DEF Gui, SaveCommand, ConfigCommand
<1>5. CASE (\E p \in Typed.policies : PolicySet(p)) \/ (\E p \in Typed.prompts : PromptSet(p))
  BY <1>1, <1>5 DEF PolicySet, PromptSet, ObjectSet
<1>6. CASE ServiceStart \/ ServiceStop \/ \E y \in {"us", "es"} : LayoutSet(y)
  BY <1>1, <1>6 DEF ServiceStart, ServiceStop, LayoutSet, ObjectSet
<1>7. CASE ReloadCommand
  BY <1>1, <1>7 DEF ReloadCommand
<1>8. CASE (\E lines \in Typed.files : EditConfig(lines)) \/ EditSheet(<<>>) \/ \E t \in Texts : EditSheet(t.text)
  BY <1>1, <1>8 DEF EditConfig, EditSheet
<1>9. ASSUME NEW c \in Typed.styles, ThemeCommand(c)
      PROVE  UNCHANGED logVars \/ \E events \in Seq(Messages) : Command(events)
  <2>1. c.events \in Seq(Messages)
    BY TypedAssumption
  <2>2. QED BY <1>9, <2>1 DEF ThemeCommand, vars
<1>10. CASE \E events \in {<<>>, <<"ok">>} : ThemeReload(events)
  BY <1>1, <1>10 DEF ThemeReload
<1>11. QED
  BY <1>2, <1>3, <1>4, <1>5, <1>6, <1>7, <1>8, <1>9, <1>10 DEF Next

\* events.c: however long the session, a dump of any length shows the last
\* messages in order.
THEOREM DumpIsFaithful == Spec => []DumpShowsLast
<1> DEFINE Inv == Remembers(log, said)
<1>1. Init => Inv
  <2> SUFFICES ASSUME Init PROVE Inv
    OBVIOUS
  <2>1. BootEvents \in Seq(Messages)
    BY TypedAssumption DEF BootEvents
  <2>2. <<>> \o BootEvents = BootEvents
    BY <2>1
  <2>3. Remembers(FoldLeft(Logged, EmptyLog, BootEvents), <<>> \o BootEvents)
    BY <2>1, EmptyRemembers, FoldRemembers
  <2>4. QED BY <2>2, <2>3 DEF Init
<1>2. Inv /\ [Next]_vars => Inv'
  <2> SUFFICES ASSUME Inv, [Next]_vars PROVE Inv'
    OBVIOUS
  <2>1. CASE UNCHANGED logVars
    BY <2>1 DEF logVars, Remembers, Back
  <2>2. ASSUME NEW events \in Seq(Messages), Command(events) PROVE Inv'
    <3>1. Remembers(FoldLeft(Logged, log, events), said \o events)
      BY FoldRemembers
    <3>2. log' = FoldLeft(Logged, log, events) /\ said' = said \o events
      BY <2>2 DEF Command
    <3>3. Remembers(log', said')
      BY <3>1, <3>2
    <3>4. QED BY <3>3 DEF Remembers, Back
  <2>3. QED BY <2>1, <2>2, StepLogs
<1>3. Inv => DumpShowsLast
  BY DumpShows
<1>4. QED BY <1>1, <1>2, <1>3, PTL DEF Spec

-----------------------------------------------------------------------------
(* The table of settings.                                                  *)

Table == {t \in Seq(Entry) : Len(t) <= CFG_MAX}

\* No entry before the one found has the key; without one no entry has it.
LEMMA FindIs ==
    ASSUME NEW t \in Seq(Entry), NEW k
    PROVE  /\ Find(t, k) \in 0..Len(t)
           /\ Find(t, k) = 0 => \A i \in 1..Len(t) : t[i].key # k
           /\ Find(t, k) # 0 => /\ Find(t, k) \in 1..Len(t) /\ t[Find(t, k)].key = k
                                /\ \A i \in 1..(Find(t, k) - 1) : t[i].key # k
<1> DEFINE I == {i \in 1..Len(t) : t[i].key = k}
<1>1. Find(t, k) = IF I # {} THEN Min(I) ELSE 0
  BY DEF Find, SelectInSeq
<1>2. Len(t) \in Nat
  OBVIOUS
<1>3. CASE I = {}
  BY <1>1, <1>2, <1>3
<1>4. CASE I # {}
  <2>1. I \in SUBSET Nat
    OBVIOUS
  <2>2. PICK m \in I : \A n \in I : m <= n
    <3> HIDE DEF I
    <3>1. QED BY <1>4, <2>1, LeastElement
  <2>3. Min(I) \in I /\ \A n \in I : Min(I) <= n
    <3> HIDE DEF I
    <3>1. QED BY <2>2 DEF Min
  <2>4. Find(t, k) \in I /\ \A n \in I : Find(t, k) <= n
    BY <1>1, <1>4, <2>3
  <2>5. ASSUME NEW i \in 1..(Find(t, k) - 1) PROVE t[i].key # k
    <3>1. Find(t, k) \in Int /\ i \in Int /\ i < Find(t, k) /\ Find(t, k) <= Len(t)
      BY <1>2, <2>4
    <3>2. i \notin I
      BY <2>4, <3>1
    <3>3. i \in 1..Len(t)
      BY <1>2, <3>1
    <3>4. QED BY <3>2, <3>3
  <2>6. Find(t, k) \in 1..Len(t) /\ t[Find(t, k)].key = k
    BY <2>4
  <2>7. Find(t, k) \in 0..Len(t) /\ Find(t, k) # 0
    BY <1>2, <2>6
  <2> HIDE DEF I
  <2>8. QED BY <2>5, <2>6, <2>7
<1>5. QED BY <1>3, <1>4

\* The first entry of a key is the one found.
LEMMA FirstIsFound ==
    ASSUME NEW t \in Seq(Entry), NEW i \in 1..Len(t), \A j \in 1..(i - 1) : t[j].key # t[i].key
    PROVE  Find(t, t[i].key) = i
<1> DEFINE f == Find(t, t[i].key)
<1>1. f # 0 /\ f \in 1..Len(t) /\ t[f].key = t[i].key /\ \A j \in 1..(f - 1) : t[j].key # t[i].key
  BY FindIs
<1> HIDE DEF f
<1>2. f \in Int /\ i \in Int /\ Len(t) \in Int /\ f >= 1 /\ i >= 1
  BY <1>1
<1>3. ~(f < i) /\ ~(i < f)
  BY <1>1, <1>2
<1>4. QED BY <1>2, <1>3 DEF f

\* u is t, but for values, with entries added.
Extends(u, t) ==
    /\ Len(t) <= Len(u)
    /\ \A i \in 1..Len(t) : u[i].key = t[i].key

\* What config_set does to the table: r is t with the key k set to v.
SetTo(r, t, k, v) ==
    LET f == Find(t, k) IN
    /\ r \in Table /\ Extends(r, t)
    /\ f # 0 => /\ Len(r) = Len(t)
                /\ \A i \in 1..Len(t) : r[i].val = IF i = f THEN v ELSE t[i].val
    /\ f = 0 /\ Len(t) = CFG_MAX => r = t
    /\ f = 0 /\ Len(t) < CFG_MAX => /\ Len(r) = Len(t) + 1
                                    /\ r[Len(t) + 1] = Setting(CutKey[k], v)
                                    /\ \A i \in 1..Len(t) : r[i] = t[i]

LEMMA SetIs ==
    ASSUME NEW t \in Table, NEW k \in Keys, NEW v \in Seq(Words)
    PROVE  SetTo(ConfigSet(t, k, v), t, k, v)
<1> DEFINE f == Find(t, k)
           r == ConfigSet(t, k, v)
<1>1. t \in Seq(Entry) /\ Len(t) \in Nat /\ CFG_MAX \in Nat /\ Len(t) <= CFG_MAX
  BY ConfigAssumption DEF Table
<1>2. f \in 0..Len(t) /\ (f # 0 => f \in 1..Len(t))
  BY <1>1, FindIs
<1>3. r = IF f # 0 THEN [t EXCEPT ![f].val = v]
          ELSE IF Len(t) = CFG_MAX THEN t ELSE Append(t, Setting(CutKey[k], v))
  BY DEF ConfigSet
<1> HIDE DEF f, r
<1>4. \A i \in 1..Len(t) : t[i] \in Entry
  BY <1>1
<1>5. CASE f # 0
  <2> DEFINE e == [t[f] EXCEPT !.val = v]
  <2>1. e \in Entry /\ e.key = t[f].key /\ e.val = v
    <3>1. t[f] \in Entry
      BY <1>2, <1>4, <1>5
    <3>2. QED BY <3>1 DEF Entry
  <2>2. r = [t EXCEPT ![f] = e]
    BY <1>3, <1>5
  <2> HIDE DEF e
  <2>3. r \in Seq(Entry) /\ Len(r) = Len(t) /\ \A i \in 1..Len(t) : r[i] = IF i = f THEN e ELSE t[i]
    BY <1>1, <1>2, <1>5, <2>1, <2>2
  <2>4. r \in Table /\ Extends(r, t)
    BY <1>1, <2>1, <2>3 DEF Table, Extends
  <2>5. \A i \in 1..Len(t) : r[i].val = IF i = f THEN v ELSE t[i].val
    BY <2>1, <2>3
  <2>6. QED BY <1>5, <2>3, <2>4, <2>5 DEF SetTo, f, r
<1>6. CASE f = 0 /\ Len(t) = CFG_MAX
  <2>1. r = t
    BY <1>3, <1>6
  <2>2. Extends(r, t)
    BY <1>1, <2>1 DEF Extends
  <2>3. QED BY <1>1, <1>6, <2>1, <2>2 DEF SetTo, f, r, Table
<1>7. CASE f = 0 /\ Len(t) < CFG_MAX
  <2> DEFINE e == Setting(CutKey[k], v)
  <2>1. e \in Entry
    BY ConfigAssumption DEF Setting, Entry
  <2>2. r = Append(t, e)
    BY <1>1, <1>3, <1>7
  <2>3. e = Setting(CutKey[k], v)
    OBVIOUS
  <2> HIDE DEF e
  <2>4. /\ r \in Seq(Entry) /\ Len(r) = Len(t) + 1 /\ r[Len(t) + 1] = e
        /\ \A i \in 1..Len(t) : r[i] = t[i]
    BY <1>1, <2>1, <2>2
  <2>5. r \in Table /\ Extends(r, t)
    BY <1>1, <1>7, <2>4 DEF Table, Extends
  <2>6. QED BY <1>1, <1>7, <2>3, <2>4, <2>5 DEF SetTo, f, r
<1>8. QED BY <1>1, <1>5, <1>6, <1>7

\* Setting one key leaves what is found for another.
LEMMA GetOther ==
    ASSUME NEW t \in Table, NEW k \in Keys, NEW v \in Seq(Words), NEW q, NEW d,
           q # k, q # CutKey[k]
    PROVE  ConfigGet(ConfigSet(t, k, v), q, d) = ConfigGet(t, q, d)
<1> DEFINE r == ConfigSet(t, k, v)
           f == Find(t, q)
           z == Find(r, q)
<1>1. SetTo(r, t, k, v)
  BY SetIs
<1> HIDE DEF r
<1>2. t \in Seq(Entry) /\ r \in Seq(Entry) /\ Len(t) \in Nat /\ Len(r) \in Nat
  BY <1>1 DEF Table, SetTo
<1>3. /\ f \in 0..Len(t) /\ f = 0 => \A i \in 1..Len(t) : t[i].key # q
      /\ f # 0 => f \in 1..Len(t) /\ t[f].key = q /\ \A i \in 1..(f - 1) : t[i].key # q
  BY <1>2, FindIs
<1>4. /\ z \in 0..Len(r) /\ z = 0 => \A i \in 1..Len(r) : r[i].key # q
      /\ z # 0 => z \in 1..Len(r) /\ r[z].key = q /\ \A i \in 1..(z - 1) : r[i].key # q
  BY <1>2, FindIs
<1> HIDE DEF f, z
<1>5. Len(t) <= Len(r) /\ \A i \in 1..Len(t) : r[i].key = t[i].key
  BY <1>1 DEF SetTo, Extends
<1>6. \A i \in 1..Len(r) : i > Len(t) => r[i].key # q
  <2>1. Setting(CutKey[k], v).key = CutKey[k]
    BY DEF Setting
  <2>2. Len(r) = Len(t) \/ (Len(r) = Len(t) + 1 /\ r[Len(t) + 1] = Setting(CutKey[k], v))
    BY <1>1, <1>2, FindIs, ConfigAssumption DEF SetTo, Table
  <2>3. QED BY <1>2, <2>1, <2>2
<1>7. z = f
  <2>1. CASE f = 0
    <3>1. \A i \in 1..Len(r) : r[i].key # q
      BY <1>2, <1>3, <1>5, <1>6, <2>1
    <3>2. QED BY <1>4, <2>1, <3>1
  <2>2. CASE f # 0
    <3>1. f \in 1..Len(r) /\ r[f].key = q /\ \A i \in 1..(f - 1) : r[i].key # q
      <4>1. f \in 1..Len(t) /\ t[f].key = q /\ \A i \in 1..(f - 1) : t[i].key # q
        BY <1>3, <2>2
      <4>2. \A i \in 1..(f - 1) : i \in 1..Len(t)
        BY <1>2, <4>1
      <4>3. f \in 1..Len(r)
        BY <1>2, <1>5, <4>1
      <4>4. QED BY <1>5, <4>1, <4>2, <4>3
    <3>2. z # 0
      BY <1>4, <3>1
    <3>3. z \in Int /\ f \in Int /\ z >= 1 /\ f >= 1
      BY <1>4, <3>1, <3>2
    <3>4. ~(z < f) /\ ~(f < z)
      BY <1>4, <3>1, <3>2, <3>3
    <3>5. QED BY <3>3, <3>4
  <2>3. QED BY <2>1, <2>2
<1>8. f # 0 => r[f].val = t[f].val
  <2>1. ASSUME f # 0 PROVE r[f].val = t[f].val
    <3>1. f \in 1..Len(t) /\ t[f].key = q
      BY <1>3, <2>1
    <3>2. CASE Find(t, k) # 0
      <4>1. t[Find(t, k)].key = k
        BY <1>2, <3>2, FindIs
      <4>2. f # Find(t, k)
        BY <3>1, <4>1
      <4>3. QED BY <1>1, <3>1, <3>2, <4>2 DEF SetTo
    <3>3. CASE Find(t, k) = 0
      <4>1. r = t \/ \A i \in 1..Len(t) : r[i] = t[i]
        BY <1>1, <1>2, <3>3, ConfigAssumption DEF SetTo, Table
      <4>2. QED BY <3>1, <4>1
    <3>4. QED BY <3>2, <3>3
  <2>2. QED BY <2>1
<1>9. QED BY <1>7, <1>8 DEF ConfigGet, f, z, r

\* The key and the value that a line of the file sets.
LineKey(line) == IF line.key \in DOMAIN Halves THEN Halves[line.key][1] ELSE line.key
LineVal(line) ==
    IF line.key \in DOMAIN Halves THEN <<Halves[line.key][2], "=">> \o line.val ELSE line.val

LEMMA LineIs ==
    ASSUME NEW line \in Entry
    PROVE  /\ LineKey(line) \in Keys /\ LineVal(line) \in Seq(Words)
           /\ CutKey[line.key] = line.key => CutKey[LineKey(line)] = LineKey(line)
<1>1. line.key \in Keys /\ line.val \in Seq(Words)
  BY DEF Entry
<1>2. CASE line.key \in DOMAIN Halves
  <2> DEFINE p == Halves[line.key]
  <2>1. p \in Keys \X Words /\ (CutKey[line.key] = line.key => CutKey[p[1]] = p[1])
    BY <1>2, ConfigAssumption
  <2>2. p[1] \in Keys /\ p[2] \in Words
    BY <2>1
  <2>3. <<p[2], "=">> \in Seq(Words)
    BY <2>2, ConfigAssumption
  <2>4. <<p[2], "=">> \o line.val \in Seq(Words)
    BY <1>1, <2>3
  <2>5. LineKey(line) = p[1] /\ LineVal(line) = <<p[2], "=">> \o line.val
    BY <1>2 DEF LineKey, LineVal
  <2> HIDE DEF p
  <2>6. QED BY <2>1, <2>2, <2>4, <2>5
<1>3. CASE line.key \notin DOMAIN Halves
  BY <1>1, <1>3 DEF LineKey, LineVal
<1>4. QED BY <1>2, <1>3

\* A line is a comment or sets its key.
LEMMA LineSets ==
    ASSUME NEW t \in Table, NEW line \in Entry
    PROVE  /\ line.key \in Comments => ParseLine(t, line) = t
           /\ line.key \notin Comments => SetTo(ParseLine(t, line), t, LineKey(line), LineVal(line))
           /\ ParseLine(t, line) \in Table /\ Extends(ParseLine(t, line), t)
<1>1. CASE line.key \in Comments
  <2>1. ParseLine(t, line) = t
    BY <1>1 DEF ParseLine
  <2>2. Extends(t, t)
    BY DEF Extends, Table
  <2>3. QED BY <1>1, <2>1, <2>2
<1>2. CASE line.key \notin Comments
  <2>1. ParseLine(t, line) = ConfigSet(t, LineKey(line), LineVal(line))
    BY <1>2 DEF ParseLine, LineKey, LineVal
  <2>2. SetTo(ConfigSet(t, LineKey(line), LineVal(line)), t, LineKey(line), LineVal(line))
    BY LineIs, SetIs
  <2>3. QED BY <1>2, <2>1, <2>2 DEF SetTo
<1>3. QED BY <1>1, <1>2

LEMMA DefaultSets ==
    ASSUME NEW t \in Table, NEW e \in Entry
    PROVE  /\ Find(t, e.key) # 0 => SetDefault(t, e) = t
           /\ Find(t, e.key) = 0 => SetTo(SetDefault(t, e), t, e.key, e.val)
           /\ SetDefault(t, e) \in Table /\ Extends(SetDefault(t, e), t)
<1>1. e.key \in Keys /\ e.val \in Seq(Words)
  BY DEF Entry
<1>2. SetTo(ConfigSet(t, e.key, e.val), t, e.key, e.val)
  BY <1>1, SetIs
<1>3. Extends(t, t)
  BY DEF Extends, Table
<1>4. CASE Find(t, e.key) # 0
  BY <1>3, <1>4 DEF SetDefault
<1>5. CASE Find(t, e.key) = 0
  <2>1. SetDefault(t, e) = ConfigSet(t, e.key, e.val)
    BY <1>5 DEF SetDefault
  <2>2. QED BY <1>2, <1>5, <2>1 DEF SetTo
<1>6. QED BY <1>4, <1>5

\* Parsing a file is parsing its lines one after the other.
LEMMA ParseSteps ==
    ASSUME NEW t \in Table, NEW text \in Seq(Entry)
    PROVE  \E h \in [0..Len(text) -> Table] :
                /\ h[0] = t /\ h[Len(text)] = Parse(t, text)
                /\ \A i \in 1..Len(text) : h[i] = ParseLine(h[i - 1], text[i])
<1> DEFINE N == Len(text)
           r == Parse(t, text)
           A == 1..N
           F == [p \in Table \X A |-> ParseLine(p[1], text[p[2]])]
           Eq(f) == f = [s \in SUBSET A |->
                            IF s = {} THEN t ELSE ParseLine(f[s \ {Greatest(s)}], text[Greatest(s)])]
           iter == CHOOSE f : Eq(f)
<1>1. N \in Nat /\ DOMAIN text = A /\ A = 1..N /\ \A i \in A : text[i] \in Entry
  OBVIOUS
<1> HIDE DEF N, A
<1>2. ASSUME NEW x \in Table, NEW i \in A PROVE ParseLine(x, text[i]) \in Table
  BY <1>1, LineSets
<1>3. /\ F \in [Table \X A -> Table]
      /\ \A x \in Table, i \in A : F[<<x, i>>] = ParseLine(x, text[i])
  <2>1. QED BY <1>2
<1> HIDE DEF F
<1>4. Eq(iter)
  <2>1. PICK f \in [SUBSET A -> Table] : IsSeqFold(f, A, t, F)
    BY <1>1, <1>3, SeqFoldsExist
  <2>2. ASSUME NEW s \in SUBSET A, s # {}
        PROVE  F[<<f[s \ {Greatest(s)}], Greatest(s)>>] = ParseLine(f[s \ {Greatest(s)}], text[Greatest(s)])
    <3>1. Greatest(s) \in A
      BY <1>1, <2>2, InitialSegments
    <3>2. f[s \ {Greatest(s)}] \in Table
      OBVIOUS
    <3>3. QED BY <1>3, <3>1, <3>2
  <2>3. Eq(f)
    BY <2>1, <2>2 DEF IsSeqFold
  <2>4. QED
    <3> HIDE DEF Eq
    <3>1. QED BY <2>3
<1>5. r = iter[A]
  BY <1>1, Zenon DEF Parse, FoldLeft, MapThenFoldSet, Max, Greatest
<1> HIDE DEF iter, r
<1>6. iter[{}] = t
  BY <1>4
<1>7. ASSUME NEW i \in 1..N, iter[1..(i - 1)] \in Table
      PROVE  iter[1..i] = F[<<iter[1..(i - 1)], i>>]
  <2>1. /\ 1..i \in SUBSET A /\ 1..i # {}
        /\ Greatest(1..i) = i /\ (1..i) \ {i} = 1..(i - 1)
    BY <1>1, InitialSegments
  <2>2. iter[1..i] = ParseLine(iter[1..(i - 1)], text[i])
    <3>1. iter[1..i] = ParseLine(iter[(1..i) \ {Greatest(1..i)}], text[Greatest(1..i)])
      BY <1>4, <2>1
    <3>2. QED BY <2>1, <3>1
  <2>3. QED BY <1>1, <1>3, <1>7, <2>2
<1>8. PICK h : Reaches(h, N, Table, t, F, r)
  <2> HIDE DEF Eq
  <2>1. ClimbsTo(iter, N, A, Table, t, F, r)
    BY <1>1, <1>3, <1>5, <1>6, <1>7 DEF ClimbsTo
  <2>2. QED BY <2>1, SeqFoldSteps
<1>9. /\ h \in [0..N -> Table] /\ h[0] = t /\ h[N] = r
      /\ \A i \in 1..N : h[i] = F[<<h[i - 1], i>>] /\ h[i - 1] \in Table
  BY <1>8 DEF Reaches
<1>10. \A i \in 1..N : h[i] = ParseLine(h[i - 1], text[i])
  BY <1>1, <1>3, <1>9
<1>11. QED BY <1>9, <1>10 DEF N, r

\* The same for the defaults.
LEMMA DefaultsSteps ==
    ASSUME NEW t \in Table, NEW ds \in Seq(Entry)
    PROVE  \E h \in [0..Len(ds) -> Table] :
                /\ h[0] = t /\ h[Len(ds)] = WithDefaults(t, ds)
                /\ \A i \in 1..Len(ds) : h[i] = SetDefault(h[i - 1], ds[i])
<1> DEFINE N == Len(ds)
           r == WithDefaults(t, ds)
           A == 1..N
           F == [p \in Table \X A |-> SetDefault(p[1], ds[p[2]])]
           Eq(f) == f = [s \in SUBSET A |->
                            IF s = {} THEN t ELSE SetDefault(f[s \ {Greatest(s)}], ds[Greatest(s)])]
           iter == CHOOSE f : Eq(f)
<1>1. N \in Nat /\ DOMAIN ds = A /\ A = 1..N /\ \A i \in A : ds[i] \in Entry
  OBVIOUS
<1> HIDE DEF N, A
<1>2. ASSUME NEW x \in Table, NEW i \in A PROVE SetDefault(x, ds[i]) \in Table
  BY <1>1, DefaultSets
<1>3. /\ F \in [Table \X A -> Table]
      /\ \A x \in Table, i \in A : F[<<x, i>>] = SetDefault(x, ds[i])
  <2>1. QED BY <1>2
<1> HIDE DEF F
<1>4. Eq(iter)
  <2>1. PICK f \in [SUBSET A -> Table] : IsSeqFold(f, A, t, F)
    BY <1>1, <1>3, SeqFoldsExist
  <2>2. ASSUME NEW s \in SUBSET A, s # {}
        PROVE  F[<<f[s \ {Greatest(s)}], Greatest(s)>>] = SetDefault(f[s \ {Greatest(s)}], ds[Greatest(s)])
    <3>1. Greatest(s) \in A
      BY <1>1, <2>2, InitialSegments
    <3>2. f[s \ {Greatest(s)}] \in Table
      OBVIOUS
    <3>3. QED BY <1>3, <3>1, <3>2
  <2>3. Eq(f)
    BY <2>1, <2>2 DEF IsSeqFold
  <2>4. QED
    <3> HIDE DEF Eq
    <3>1. QED BY <2>3
<1>5. r = iter[A]
  BY <1>1, Zenon DEF WithDefaults, FoldLeft, MapThenFoldSet, Max, Greatest
<1> HIDE DEF iter, r
<1>6. iter[{}] = t
  BY <1>4
<1>7. ASSUME NEW i \in 1..N, iter[1..(i - 1)] \in Table
      PROVE  iter[1..i] = F[<<iter[1..(i - 1)], i>>]
  <2>1. /\ 1..i \in SUBSET A /\ 1..i # {}
        /\ Greatest(1..i) = i /\ (1..i) \ {i} = 1..(i - 1)
    BY <1>1, InitialSegments
  <2>2. iter[1..i] = SetDefault(iter[1..(i - 1)], ds[i])
    <3>1. iter[1..i] = SetDefault(iter[(1..i) \ {Greatest(1..i)}], ds[Greatest(1..i)])
      BY <1>4, <2>1
    <3>2. QED BY <2>1, <3>1
  <2>3. QED BY <1>1, <1>3, <1>7, <2>2
<1>8. PICK h : Reaches(h, N, Table, t, F, r)
  <2> HIDE DEF Eq
  <2>1. ClimbsTo(iter, N, A, Table, t, F, r)
    BY <1>1, <1>3, <1>5, <1>6, <1>7 DEF ClimbsTo
  <2>2. QED BY <2>1, SeqFoldSteps
<1>9. /\ h \in [0..N -> Table] /\ h[0] = t /\ h[N] = r
      /\ \A i \in 1..N : h[i] = F[<<h[i - 1], i>>] /\ h[i - 1] \in Table
  BY <1>8 DEF Reaches
<1>10. \A i \in 1..N : h[i] = SetDefault(h[i - 1], ds[i])
  BY <1>1, <1>3, <1>9
<1>11. QED BY <1>9, <1>10 DEF N, r

\* What each step extends, all of them extend.
LEMMA StepsExtend ==
    ASSUME NEW N \in Nat, NEW h \in [0..N -> Table], \A i \in 1..N : Extends(h[i], h[i - 1]),
           NEW i \in 0..N
    PROVE  \A j \in i..N : Extends(h[j], h[i])
<1> DEFINE S == {j \in 0..N : i <= j => Extends(h[j], h[i])}
<1>0. \A j \in 0..N : h[j] \in Table /\ Len(h[j]) \in Nat
  BY DEF Table
<1>1. 0 \in S
  BY <1>0 DEF Extends
<1>2. ASSUME NEW j \in 0..(N - 1), j \in S PROVE j + 1 \in S
  <2>1. j + 1 \in 1..N /\ j + 1 \in 0..N /\ (j + 1) - 1 = j /\ j \in 0..N
    OBVIOUS
  <2>2. Extends(h[j + 1], h[j])
    BY <2>1
  <2>3. CASE i <= j
    <3>1. Extends(h[j], h[i])
      BY <1>2, <2>3
    <3>2. Len(h[i]) \in Nat /\ Len(h[j]) \in Nat /\ Len(h[j + 1]) \in Nat
      BY <1>0, <2>1
    <3>3. Extends(h[j + 1], h[i])
      BY <2>2, <3>1, <3>2 DEF Extends
    <3>4. QED BY <2>1, <3>3
  <2>4. CASE i = j + 1
    <3>1. Len(h[i]) \in Nat
      BY <1>0
    <3>2. Extends(h[i], h[i])
      BY <3>1 DEF Extends
    <3>3. QED BY <2>1, <2>4, <3>2
  <2>5. CASE i > j + 1
    BY <2>1, <2>5
  <2>6. QED BY <2>1, <2>3, <2>4, <2>5
<1>3. 0..N \subseteq S
  <2> HIDE DEF S
  <2>1. QED BY <1>1, <1>2, InductionUpTo
<1>4. QED BY <1>3

LEMMA ParseExtends ==
    ASSUME NEW t \in Table, NEW text \in Seq(Entry)
    PROVE  Parse(t, text) \in Table /\ Extends(Parse(t, text), t)
<1>1. PICK h \in [0..Len(text) -> Table] :
            /\ h[0] = t /\ h[Len(text)] = Parse(t, text)
            /\ \A i \in 1..Len(text) : h[i] = ParseLine(h[i - 1], text[i])
  BY ParseSteps
<1> DEFINE N == Len(text)
<1>2. N \in Nat /\ \A i \in 1..N : text[i] \in Entry /\ i - 1 \in 0..N
  OBVIOUS
<1>3. \A i \in 1..N : Extends(h[i], h[i - 1])
  BY <1>1, <1>2, LineSets
<1>4. 0 \in 0..N /\ N \in 0..N /\ N \in 0..N
  BY <1>2
<1>5. Extends(h[N], h[0])
  <2> HIDE DEF N
  <2>1. h \in [0..N -> Table]
    BY <1>1 DEF N
  <2>2. QED BY <1>2, <1>3, <1>4, <2>1, StepsExtend
<1>6. QED BY <1>1, <1>4, <1>5

LEMMA DefaultsExtend ==
    ASSUME NEW t \in Table, NEW ds \in Seq(Entry)
    PROVE  WithDefaults(t, ds) \in Table /\ Extends(WithDefaults(t, ds), t)
<1>1. PICK h \in [0..Len(ds) -> Table] :
            /\ h[0] = t /\ h[Len(ds)] = WithDefaults(t, ds)
            /\ \A i \in 1..Len(ds) : h[i] = SetDefault(h[i - 1], ds[i])
  BY DefaultsSteps
<1> DEFINE N == Len(ds)
<1>2. N \in Nat /\ \A i \in 1..N : ds[i] \in Entry /\ i - 1 \in 0..N
  OBVIOUS
<1>3. \A i \in 1..N : Extends(h[i], h[i - 1])
  BY <1>1, <1>2, DefaultSets
<1>4. 0 \in 0..N /\ N \in 0..N
  BY <1>2
<1>5. Extends(h[N], h[0])
  <2> HIDE DEF N
  <2>1. h \in [0..N -> Table]
    BY <1>1 DEF N
  <2>2. QED BY <1>2, <1>3, <1>4, <2>1, StepsExtend
<1>6. QED BY <1>1, <1>4, <1>5

-----------------------------------------------------------------------------
(* What a session does to table and file.                                  *)

\* A key that has two entries is what is kept of a longer one.
Tidy(t) ==
    /\ t \in Table
    /\ \A i, j \in 1..Len(t) : i < j /\ t[i].key = t[j].key =>
            \E k \in Keys : CutKey[k] = t[i].key /\ CutKey[k] # k

LEMMA SetKeepsTidy ==
    ASSUME NEW t, Tidy(t), NEW k \in Keys, NEW v, NEW r, SetTo(r, t, k, v)
    PROVE  Tidy(r)
<1>1. /\ t \in Seq(Entry) /\ Len(t) \in Nat /\ Len(t) <= CFG_MAX /\ r \in Table
      /\ Len(r) \in Nat /\ CFG_MAX \in Nat /\ Extends(r, t)
  BY ConfigAssumption DEF Tidy, SetTo, Table
<1>4. ASSUME NEW i \in 1..Len(r), NEW j \in 1..Len(r), i < j, r[i].key = r[j].key
      PROVE  \E q \in Keys : CutKey[q] = r[i].key /\ CutKey[q] # q
  <2>1. CASE j \in 1..Len(t)
    <3>1. i \in 1..Len(t)
      BY <1>1, <1>4, <2>1
    <3>2. t[i].key = r[i].key /\ t[j].key = r[j].key
      BY <1>1, <2>1, <3>1 DEF Extends
    <3>3. QED BY <1>4, <2>1, <3>1, <3>2 DEF Tidy
  <2>2. CASE j \notin 1..Len(t)
    <3>1. Len(r) # Len(t)
      BY <2>2
    <3>2. Find(t, k) = 0 /\ Len(r) = Len(t) + 1 /\ r[Len(t) + 1] = Setting(CutKey[k], v)
      <4>1. Find(t, k) = 0
        BY <3>1 DEF SetTo
      <4>2. Len(t) < CFG_MAX
        BY <1>1, <3>1, <4>1 DEF SetTo
      <4>3. QED BY <4>1, <4>2 DEF SetTo
    <3>3. j = Len(t) + 1 /\ i \in 1..Len(t)
      BY <1>1, <1>4, <2>2, <3>2
    <3>4. r[j].key = CutKey[k] /\ t[i].key = r[i].key
      BY <1>1, <3>2, <3>3 DEF Extends, Setting
    <3>5. t[i].key # k
      BY <1>1, <3>2, <3>3, FindIs
    <3>6. QED BY <1>4, <3>4, <3>5
  <2>3. QED BY <2>1, <2>2
<1>5. QED BY <1>1, <1>4 DEF Tidy

LEMMA ParseKeepsTidy ==
    ASSUME NEW t, Tidy(t), NEW text \in Seq(Entry) PROVE Tidy(Parse(t, text))
<1>1. t \in Table
  BY DEF Tidy
<1> DEFINE N == Len(text)
<1>2. PICK h \in [0..N -> Table] :
            /\ h[0] = t /\ h[N] = Parse(t, text)
            /\ \A i \in 1..N : h[i] = ParseLine(h[i - 1], text[i])
  BY <1>1, ParseSteps
<1>3. N \in Nat /\ \A i \in 1..N : text[i] \in Entry
  OBVIOUS
<1> HIDE DEF N
<1> DEFINE S == {i \in 0..N : Tidy(h[i])}
<1>4. 0 \in S
  BY <1>2, <1>3
<1>5. ASSUME NEW i \in 0..(N - 1), i \in S PROVE i + 1 \in S
  <2>1. i + 1 \in 0..N /\ h[i] \in Table /\ text[i + 1] \in Entry /\ h[i + 1] = ParseLine(h[i], text[i + 1])
    BY <1>2, <1>3
  <2>2. Tidy(h[i])
    BY <1>5
  <2>3. CASE text[i + 1].key \in Comments
    BY <2>1, <2>2, <2>3, LineSets
  <2>4. CASE text[i + 1].key \notin Comments
    <3>1. SetTo(h[i + 1], h[i], LineKey(text[i + 1]), LineVal(text[i + 1])) /\ LineKey(text[i + 1]) \in Keys
      BY <2>1, <2>4, LineSets, LineIs
    <3>2. Tidy(h[i + 1])
      BY <2>2, <3>1, SetKeepsTidy
    <3>3. QED BY <2>1, <3>2
  <2>5. QED BY <2>3, <2>4
<1>6. N \in S
  <2> HIDE DEF S
  <2>1. 0..N \subseteq S
    BY <1>3, <1>4, <1>5, InductionUpTo
  <2>2. QED BY <1>3, <2>1
<1>7. QED BY <1>2, <1>6

LEMMA DefaultsKeepTidy ==
    ASSUME NEW t, Tidy(t), NEW ds \in Seq(Entry) PROVE Tidy(WithDefaults(t, ds))
<1>1. t \in Table
  BY DEF Tidy
<1> DEFINE N == Len(ds)
<1>2. PICK h \in [0..N -> Table] :
            /\ h[0] = t /\ h[N] = WithDefaults(t, ds)
            /\ \A i \in 1..N : h[i] = SetDefault(h[i - 1], ds[i])
  BY <1>1, DefaultsSteps
<1>3. N \in Nat /\ \A i \in 1..N : ds[i] \in Entry
  OBVIOUS
<1> HIDE DEF N
<1> DEFINE S == {i \in 0..N : Tidy(h[i])}
<1>4. 0 \in S
  BY <1>2, <1>3
<1>5. ASSUME NEW i \in 0..(N - 1), i \in S PROVE i + 1 \in S
  <2>1. i + 1 \in 0..N /\ h[i] \in Table /\ ds[i + 1] \in Entry /\ h[i + 1] = SetDefault(h[i], ds[i + 1])
    BY <1>2, <1>3
  <2>2. Tidy(h[i])
    BY <1>5
  <2>3. CASE Find(h[i], ds[i + 1].key) # 0
    BY <2>1, <2>2, <2>3, DefaultSets
  <2>4. CASE Find(h[i], ds[i + 1].key) = 0
    <3>1. SetTo(h[i + 1], h[i], ds[i + 1].key, ds[i + 1].val) /\ ds[i + 1].key \in Keys
      BY <2>1, <2>4, DefaultSets DEF Entry
    <3>2. Tidy(h[i + 1])
      BY <2>2, <3>1, SetKeepsTidy
    <3>3. QED BY <2>1, <3>2
  <2>5. QED BY <2>3, <2>4
<1>6. N \in S
  <2> HIDE DEF S
  <2>1. 0..N \subseteq S
    BY <1>3, <1>4, <1>5, InductionUpTo
  <2>2. QED BY <1>3, <2>1
<1>7. QED BY <1>2, <1>6

\* The table that config_init makes, and what is true of it ever after: the
\* defaults come first.
Base == WithDefaults(<<>>, DefaultConfig)

Good(t) == Tidy(t) /\ Extends(t, Base)

LEMMA BaseIsGood == Good(Base)
<1>1. <<>> \in Table /\ Len(<<>>) = 0
  BY ConfigAssumption DEF Table
<1>2. Tidy(<<>>)
  BY <1>1 DEF Tidy
<1>3. Tidy(Base)
  BY <1>2, DefaultsKeepTidy, KernelKeysAssumption DEF Base
<1>4. Extends(Base, Base)
  BY <1>3 DEF Tidy, Extends, Table
<1>5. QED BY <1>3, <1>4 DEF Good

LEMMA ExtendsTwice ==
    ASSUME NEW t \in Table, NEW u \in Table, NEW w \in Table, Extends(u, t), Extends(w, u)
    PROVE  Extends(w, t)
<1>1. Len(t) \in Nat /\ Len(u) \in Nat /\ Len(w) \in Nat
  BY DEF Table
<1>2. QED BY <1>1 DEF Extends

LEMMA ReloadKeepsGood ==
    ASSUME NEW t, Good(t), NEW text \in Seq(Entry)
    PROVE  Good(WithDefaults(t, DefaultConfig)) /\ Good(Parse(WithDefaults(t, DefaultConfig), text))
<1> DEFINE u == WithDefaults(t, DefaultConfig)
           w == Parse(u, text)
<1>1. DefaultConfig \in Seq(Entry) /\ Tidy(t) /\ t \in Table /\ Base \in Table /\ Extends(t, Base)
  BY KernelKeysAssumption, BaseIsGood DEF Good, Tidy
<1>2. Tidy(u) /\ u \in Table /\ Extends(u, t)
  BY <1>1, DefaultsKeepTidy, DefaultsExtend
<1> HIDE DEF u
<1>3. Tidy(w) /\ w \in Table /\ Extends(w, u)
  BY <1>2, ParseKeepsTidy, ParseExtends
<1> HIDE DEF w
<1>4. Extends(u, Base)
  BY <1>1, <1>2, ExtendsTwice
<1>5. Extends(w, Base)
  BY <1>1, <1>2, <1>3, <1>4, ExtendsTwice
<1>6. QED BY <1>2, <1>3, <1>4, <1>5 DEF Good, u, w

LEMMA SetKeepsGood ==
    ASSUME NEW t, Good(t), NEW k \in Keys, NEW v \in Seq(Words)
    PROVE  Good(ConfigSet(t, k, v))
<1>1. t \in Table /\ Tidy(t) /\ Base \in Table /\ Extends(t, Base)
  BY BaseIsGood DEF Good, Tidy
<1>2. SetTo(ConfigSet(t, k, v), t, k, v)
  BY <1>1, SetIs
<1>3. Tidy(ConfigSet(t, k, v))
  BY <1>1, <1>2, SetKeepsTidy
<1>4. ConfigSet(t, k, v) \in Table /\ Extends(ConfigSet(t, k, v), t)
  BY <1>2 DEF SetTo
<1>5. Extends(ConfigSet(t, k, v), Base)
  BY <1>1, <1>4, ExtendsTwice
<1>6. QED BY <1>3, <1>5 DEF Good

\* What a step does to the table, and what is in the file after it.
LEMMA TableStep ==
    ASSUME [Next]_vars, file \in Seq(Entry)
    PROVE  /\ \/ table' = table
              \/ \E k \in Keys, v \in Seq(Words) : table' = ConfigSet(table, k, v)
              \/ table' = WithDefaults(table, DefaultConfig)
              \/ table' = Parse(WithDefaults(table, DefaultConfig), file)
           /\ file' = table' \/ file' \in Seq(Entry)
<1>1. CASE UNCHANGED settings
  BY <1>1 DEF settings
<1>2. ASSUME NEW k \in Keys, NEW v \in Words, NEW ev, ObjectSet(k, v, ev)
      PROVE  /\ \E q \in Keys, w \in Seq(Words) : table' = ConfigSet(table, q, w)
             /\ file' = table' \/ file' \in Seq(Entry)
  <2>1. <<v>> \in Seq(Words)
    OBVIOUS
  <2>2. QED BY <1>2, <2>1 DEF ObjectSet, ConfigSave, Lines
<1>3. ASSUME NEW e \in Typed.settings, ConfigCommand(e.key, e.val)
      PROVE  /\ \E q \in Keys, w \in Seq(Words) : table' = ConfigSet(table, q, w)
             /\ file' = table' \/ file' \in Seq(Entry)
  <2>1. e \in Entry
    BY TypedAssumption
  <2>2. e.key \in Keys /\ e.val \in Seq(Words)
    BY <2>1 DEF Entry
  <2>3. QED BY <1>3, <2>2 DEF ConfigCommand, ConfigSave, Lines
<1>4. CASE ReloadCommand
  BY <1>4 DEF ReloadCommand, ConfigSave, Lines
<1>5. CASE SaveCommand
  BY <1>5 DEF SaveCommand, ConfigSave, Lines
<1>6. ASSUME NEW lines \in Typed.files, EditConfig(lines)
      PROVE  table' = table /\ file' \in Seq(Entry)
  BY <1>6, TypedAssumption DEF EditConfig
<1>7. /\ \A p \in Typed.policies : PolicySet(p) => ObjectSet("scheduler.policy", p, <<"ok">>)
      /\ \A p \in Typed.prompts : PromptSet(p) => ObjectSet("shell.prompt", p, <<>>)
      /\ ServiceStart => ObjectSet("net.enabled", "true", <<"ok">>)
      /\ ServiceStop => ObjectSet("net.enabled", "false", <<"warn">>)
      /\ \A y \in {"us", "es"} : LayoutSet(y) => ObjectSet("input.layout", y, <<"ok">>)
  BY DEF PolicySet, PromptSet, ServiceStart, ServiceStop, LayoutSet
<1>8. CASE \/ \E p \in Typed.policies : PolicySet(p)
           \/ \E p \in Typed.prompts : PromptSet(p)
           \/ ServiceStart \/ ServiceStop
           \/ \E y \in {"us", "es"} : LayoutSet(y)
  BY <1>2, <1>7, <1>8, TypedAssumption, KernelKeysAssumption
<1>9. CASE \/ \E m \in DOMAIN Irq, on \in BOOLEAN : ModuleSet(m, on)
           \/ Gui \/ UNCHANGED vars
           \/ \E c \in Typed.styles : ThemeCommand(c)
           \/ \E events \in {<<>>, <<"ok">>} : ThemeReload(events)
           \/ EditSheet(<<>>)
           \/ \E t \in Texts : EditSheet(t.text)
  <2>1. UNCHANGED settings
    BY <1>9 DEF ModuleSet, Gui, ThemeCommand, ThemeReload, EditSheet, vars
  <2>2. QED BY <1>1, <2>1
<1>10. QED BY <1>3, <1>4, <1>5, <1>6, <1>8, <1>9 DEF Next

TablesInv == Good(table) /\ file \in Seq(Entry)

LEMMA TablesHold == Spec => []TablesInv
<1>1. Init => TablesInv
  BY BaseIsGood DEF Init, TablesInv, Base, Lines, Good, Tidy, Table
<1>2. TablesInv /\ [Next]_vars => TablesInv'
  <2> SUFFICES ASSUME TablesInv, [Next]_vars PROVE TablesInv'
    OBVIOUS
  <2>1. Good(table) /\ file \in Seq(Entry)
    BY DEF TablesInv
  <2>2. Good(table')
    BY <2>1, TableStep, SetKeepsGood, ReloadKeepsGood
  <2>3. table' \in Seq(Entry)
    BY <2>2 DEF Good, Tidy, Table
  <2>4. file' \in Seq(Entry)
    BY <2>1, <2>3, TableStep
  <2>5. QED BY <2>2, <2>4 DEF TablesInv, Good, Tidy, Extends, Base
<1>3. QED BY <1>1, <1>2, PTL DEF Spec

-----------------------------------------------------------------------------
(* Reading back what was written.                                          *)

\* After i lines of t, parsed over the defaults that begin t: the keys are
\* those of t, and so are the first i values.
Restored(u, t, i) ==
    /\ u \in Table
    /\ Len(u) = IF i <= Len(Base) THEN Len(Base) ELSE i
    /\ \A j \in 1..Len(u) : u[j].key = t[j].key
    /\ \A j \in 1..i : u[j].val = t[j].val

\* A table whose keys are all its own is its own file.
Faithful(t) ==
    /\ \A i \in 1..Len(t) : Plain(t[i].key)
    /\ \A i, j \in 1..Len(t) : i < j => t[i].key # t[j].key

LEMMA RestoreStep ==
    ASSUME NEW t, Good(t), Faithful(t), NEW i \in 1..Len(t), NEW u, Restored(u, t, i - 1)
    PROVE  Restored(ParseLine(u, t[i]), t, i)
<1> DEFINE e == t[i]
           r == ParseLine(u, e)
           m == Len(Base)
<1>1. /\ t \in Table /\ t \in Seq(Entry) /\ Len(t) \in Nat /\ Len(t) <= CFG_MAX
      /\ u \in Table /\ u \in Seq(Entry) /\ Len(u) \in Nat /\ e \in Entry /\ m \in Nat /\ m <= Len(t)
      /\ i \in Int /\ i >= 1 /\ i <= Len(t)
  BY BaseIsGood DEF Good, Tidy, Restored, Extends, Table
<1>2. LineKey(e) = e.key /\ LineVal(e) = e.val /\ e.key \notin Comments /\ CutKey[e.key] = e.key
  BY DEF Faithful, Plain, LineKey, LineVal
<1>3. SetTo(r, u, e.key, e.val)
  BY <1>1, <1>2, LineSets
<1> HIDE DEF r
<1>4. /\ Len(u) = IF i - 1 <= m THEN m ELSE i - 1
      /\ \A j \in 1..Len(u) : u[j].key = t[j].key
      /\ \A j \in 1..(i - 1) : u[j].val = t[j].val
  BY DEF Restored
<1>5. \A j \in 1..(i - 1) : t[j].key # e.key
  BY <1>1 DEF Faithful
<1>6. r \in Table /\ \A j \in 1..Len(u) : r[j].key = u[j].key
  BY <1>3 DEF SetTo, Extends
<1> HIDE DEF m
<1>7. CASE i <= m
  <2>1. Len(u) = m /\ i \in 1..Len(u) /\ u[i].key = e.key
    BY <1>1, <1>4, <1>7
  <2>2. \A j \in 1..(i - 1) : u[j].key # u[i].key
    <3>1. \A j \in 1..(i - 1) : j \in 1..Len(u)
      BY <1>1, <2>1
    <3>2. QED BY <1>4, <1>5, <2>1, <3>1
  <2>3. Find(u, e.key) = i
    BY <1>1, <2>1, <2>2, FirstIsFound
  <2>4. Len(r) = Len(u) /\ \A j \in 1..Len(u) : r[j].val = IF j = i THEN e.val ELSE u[j].val
    BY <1>1, <1>3, <2>3 DEF SetTo
  <2>5. \A j \in 1..Len(r) : r[j].key = t[j].key
    BY <1>4, <1>6, <2>4
  <2>6. \A j \in 1..i : r[j].val = t[j].val
    <3>1. \A j \in 1..i : j \in 1..Len(u) /\ (j = i \/ j \in 1..(i - 1))
      BY <1>1, <2>1
    <3>2. QED BY <1>4, <2>4, <3>1
  <2>7. QED BY <1>6, <1>7, <2>1, <2>4, <2>5, <2>6 DEF Restored, r, m
<1>8. CASE i > m
  <2>1. Len(u) = i - 1 /\ Len(u) < CFG_MAX
    BY <1>1, <1>4, <1>8, ConfigAssumption
  <2>2. Find(u, e.key) = 0
    <3>1. \A j \in 1..Len(u) : u[j].key # e.key
      BY <1>4, <1>5, <2>1
    <3>2. QED BY <1>1, <3>1, FindIs
  <2>3. Len(r) = i /\ r[i] = Setting(e.key, e.val) /\ \A j \in 1..(i - 1) : r[j] = u[j]
    BY <1>1, <1>2, <1>3, <2>1, <2>2 DEF SetTo
  <2>4. r[i].key = e.key /\ r[i].val = e.val
    BY <2>3 DEF Setting
  <2>5. \A j \in 1..i : j = i \/ j \in 1..(i - 1)
    BY <1>1
  <2>6. \A j \in 1..i : r[j].key = t[j].key /\ r[j].val = t[j].val
    BY <1>4, <2>1, <2>3, <2>4, <2>5
  <2>7. QED BY <1>1, <1>6, <1>8, <2>3, <2>6 DEF Restored, r, m
<1>9. QED BY <1>1, <1>7, <1>8

LEMMA SameTables ==
    ASSUME NEW u \in Seq(Entry), NEW w \in Seq(Entry), Len(u) = Len(w),
           \A j \in 1..Len(u) : u[j].key = w[j].key /\ u[j].val = w[j].val
    PROVE  u = w
<1>1. \A j \in 1..Len(u) : u[j] \in Entry /\ w[j] \in Entry
  OBVIOUS
<1>2. ASSUME NEW a \in Entry, NEW b \in Entry, a.key = b.key, a.val = b.val PROVE a = b
  BY <1>2 DEF Entry
<1>3. \A j \in 1..Len(u) : u[j] = w[j]
  BY <1>1, <1>2
<1>4. QED BY <1>3

LEMMA FileIsTable ==
    ASSUME NEW t, Good(t), Faithful(t)
    PROVE  Parse(Base, t) = t
<1>1. t \in Seq(Entry) /\ t \in Table /\ Base \in Table /\ Len(Base) \in Nat /\ Len(Base) <= Len(t)
  BY BaseIsGood DEF Good, Tidy, Table, Extends
<1> DEFINE N == Len(t)
<1>2. PICK h \in [0..N -> Table] :
            /\ h[0] = Base /\ h[N] = Parse(Base, t)
            /\ \A i \in 1..N : h[i] = ParseLine(h[i - 1], t[i])
  BY <1>1, ParseSteps
<1>3. N \in Nat
  BY <1>1
<1> DEFINE S == {i \in 0..N : Restored(h[i], t, i)}
<1>4. 0 \in S
  <2>1. \A j \in 1..Len(Base) : Base[j].key = t[j].key
    BY DEF Good, Extends
  <2>2. QED BY <1>1, <1>2, <1>3, <2>1 DEF Restored
<1>5. ASSUME NEW i \in 0..(N - 1), i \in S PROVE i + 1 \in S
  <2>1. i + 1 \in 1..N /\ i + 1 \in 0..N /\ (i + 1) - 1 = i
    BY <1>3
  <2>2. h[i + 1] = ParseLine(h[i], t[i + 1])
    BY <1>2, <2>1
  <2>3. Restored(h[i + 1], t, i + 1)
    BY <1>5, <2>1, <2>2, RestoreStep
  <2>4. QED BY <2>1, <2>3
<1>6. N \in S
  <2> HIDE DEF S, N
  <2>1. 0..N \subseteq S
    BY <1>3, <1>4, <1>5, InductionUpTo
  <2>2. QED BY <1>3, <2>1
<1>7. Restored(Parse(Base, t), t, N)
  BY <1>2, <1>6
<1> DEFINE w == Parse(Base, t)
<1> HIDE DEF N, w
<1>8. w \in Table /\ Len(w) = Len(t)
  BY <1>1, <1>7 DEF Restored, N, w
<1>9. \A j \in 1..Len(w) : w[j].key = t[j].key /\ w[j].val = t[j].val
  BY <1>1, <1>7, <1>8 DEF Restored, N, w
<1>10. w = t
  BY <1>1, <1>8, <1>9, SameTables DEF Table
<1>11. QED BY <1>10 DEF w

\* What config_save writes restores the table at the next boot, as the run says.
THEOREM FileRestores == Spec => []FileRestoresTable
<1>1. TablesInv => FileRestoresTable
  <2> SUFFICES ASSUME TablesInv,
                      \A i \in DOMAIN table : Plain(table[i].key)
                             /\ \A k \in Keys : CutKey[k] = table[i].key => CutKey[k] = k
               PROVE  Parse(WithDefaults(<<>>, DefaultConfig), Lines(table)) = table
    BY DEF FileRestoresTable
  <2>1. Good(table) /\ Tidy(table) /\ table \in Seq(Entry) /\ DOMAIN table = 1..Len(table)
    BY DEF TablesInv, Good, Tidy, Table
  <2>2. \A i, j \in 1..Len(table) : i < j => table[i].key # table[j].key
    BY <2>1 DEF Tidy
  <2>3. Faithful(table)
    BY <2>1, <2>2 DEF Faithful
  <2>4. QED BY <2>1, <2>3, FileIsTable DEF Base, Lines
<1>2. QED BY <1>1, TablesHold, PTL

-----------------------------------------------------------------------------
(* Reloading twice.                                                        *)

\* The table has the key, or no room for it.
Settled(t, k) == Find(t, k) # 0 \/ Len(t) = CFG_MAX

\* A line of the file is about the entry p of the table w.
Hits(w, line, p) == line.key \notin Comments /\ Find(w, LineKey(line)) = p

\* What is found stays found where it is.
LEMMA FindKept ==
    ASSUME NEW t \in Table, NEW w \in Table, Extends(w, t), NEW k
    PROVE  /\ Find(t, k) # 0 => Find(w, k) = Find(t, k)
           /\ Len(w) = Len(t) => Find(w, k) = Find(t, k)
<1> DEFINE f == Find(t, k)
<1>1. t \in Seq(Entry) /\ w \in Seq(Entry) /\ Len(t) \in Nat /\ Len(w) \in Nat
  BY DEF Table
<1>2. Len(t) <= Len(w) /\ \A i \in 1..Len(t) : w[i].key = t[i].key
  BY DEF Extends
<1>3. ASSUME f # 0 PROVE Find(w, k) = f
  <2>1. f \in 1..Len(t) /\ t[f].key = k /\ \A i \in 1..(f - 1) : t[i].key # k
    BY <1>1, <1>3, FindIs
  <2> HIDE DEF f
  <2>2. f \in 1..Len(w) /\ w[f].key = k /\ \A i \in 1..(f - 1) : i \in 1..Len(t)
    BY <1>1, <1>2, <2>1
  <2>3. \A i \in 1..(f - 1) : w[i].key # w[f].key
    BY <1>2, <2>1, <2>2
  <2>4. Find(w, w[f].key) = f
    BY <1>1, <2>2, <2>3, FirstIsFound
  <2>5. QED BY <2>2, <2>4
<1>4. ASSUME f = 0, Len(w) = Len(t) PROVE Find(w, k) = 0
  <2>1. \A i \in 1..Len(w) : w[i].key # k
    BY <1>1, <1>2, <1>4, FindIs
  <2>2. QED BY <1>1, <2>1, FindIs
<1>5. QED BY <1>3, <1>4

LEMMA SettledLasts ==
    ASSUME NEW t \in Table, NEW w \in Table, Extends(w, t), NEW k, Settled(t, k)
    PROVE  Settled(w, k)
<1>1. Len(t) \in Nat /\ Len(w) \in Nat /\ Len(w) <= CFG_MAX /\ Len(t) <= Len(w) /\ CFG_MAX \in Nat
  BY ConfigAssumption DEF Table, Extends
<1>2. CASE Find(t, k) # 0
  BY <1>2, FindKept DEF Settled
<1>3. CASE Len(t) = CFG_MAX
  BY <1>1, <1>3 DEF Settled
<1>4. QED BY <1>2, <1>3 DEF Settled

\* A key that is kept in full is settled by setting it.
LEMMA SetSettles ==
    ASSUME NEW t \in Table, NEW k \in Keys, CutKey[k] = k, NEW v, NEW r, SetTo(r, t, k, v)
    PROVE  Settled(r, k)
<1>1. /\ t \in Seq(Entry) /\ r \in Table /\ r \in Seq(Entry) /\ Len(t) \in Nat /\ Len(r) \in Nat
      /\ Len(t) <= CFG_MAX /\ CFG_MAX \in Nat /\ Extends(r, t)
  BY ConfigAssumption DEF Table, SetTo
<1>2. CASE Find(t, k) # 0
  BY <1>1, <1>2, FindKept DEF Settled
<1>3. CASE Find(t, k) = 0 /\ Len(t) = CFG_MAX
  BY <1>3 DEF SetTo, Settled
<1>4. CASE Find(t, k) = 0 /\ Len(t) < CFG_MAX
  <2>1. Len(r) = Len(t) + 1 /\ r[Len(t) + 1] = Setting(CutKey[k], v)
    BY <1>4 DEF SetTo
  <2>2. Len(r) \in 1..Len(r) /\ r[Len(r)].key = k
    BY <1>1, <2>1 DEF Setting
  <2>3. Find(r, k) # 0
    BY <1>1, <2>2, FindIs
  <2>4. QED BY <2>3 DEF Settled
<1>5. QED BY <1>1, <1>2, <1>3, <1>4

\* Setting a settled key adds no entry.
LEMMA SettledSet ==
    ASSUME NEW t \in Table, NEW k, Settled(t, k), NEW v, NEW r, SetTo(r, t, k, v)
    PROVE  Len(r) = Len(t)
BY DEF Settled, SetTo

\* What one line does, told from any table w that the file may lead to: it
\* changes the entry it is about, and no other.
LEMMA LineHits ==
    ASSUME NEW t \in Table, NEW line \in Entry, CutKey[line.key] = line.key,
           NEW w \in Table, Extends(w, ParseLine(t, line)), NEW p \in 1..Len(w)
    PROVE  /\ Hits(w, line, p) => /\ p \in 1..Len(ParseLine(t, line))
                                  /\ ParseLine(t, line)[p].val = LineVal(line)
           /\ ~Hits(w, line, p) /\ p \in 1..Len(t) => ParseLine(t, line)[p].val = t[p].val
<1> DEFINE r == ParseLine(t, line)
           k == LineKey(line)
           v == LineVal(line)
<1>1. CASE line.key \in Comments
  BY <1>1, LineSets DEF Hits
<1>2. CASE line.key \notin Comments
  <2>1. SetTo(r, t, k, v) /\ k \in Keys /\ CutKey[k] = k /\ r \in Table
    BY <1>2, LineSets, LineIs
  <2>2. (Hits(w, line, p) <=> Find(w, k) = p) /\ Extends(w, r)
    BY <1>2 DEF Hits
  <2> HIDE DEF r, k, v
  <2>3. /\ t \in Seq(Entry) /\ r \in Seq(Entry) /\ w \in Seq(Entry) /\ Len(t) \in Nat /\ Len(r) \in Nat
        /\ Len(w) \in Nat /\ Len(t) <= CFG_MAX /\ Len(w) <= CFG_MAX /\ CFG_MAX \in Nat /\ Extends(r, t)
        /\ p \in Int /\ p >= 1
    BY <2>1, ConfigAssumption DEF Table, SetTo
  <2>4. (Hits(w, line, p) => p \in 1..Len(r) /\ r[p].val = v)
        /\ (~Hits(w, line, p) /\ p \in 1..Len(t) => r[p].val = t[p].val)
    <3>1. CASE Find(t, k) # 0
      <4>1. Find(r, k) = Find(t, k) /\ Find(w, k) = Find(t, k) /\ Find(t, k) \in 1..Len(t)
        <5>1. Find(r, k) = Find(t, k)
          BY <2>1, <2>3, <3>1, FindKept
        <5>2. Find(w, k) = Find(r, k)
          BY <2>1, <2>2, <3>1, <5>1, FindKept
        <5>3. QED BY <2>3, <3>1, <5>1, <5>2, FindIs
      <4>2. Len(r) = Len(t) /\ \A i \in 1..Len(t) : r[i].val = IF i = Find(t, k) THEN v ELSE t[i].val
        BY <2>1, <3>1 DEF SetTo
      <4>3. QED BY <2>2, <4>1, <4>2
    <3>2. CASE Find(t, k) = 0 /\ Len(t) = CFG_MAX
      <4>1. r = t
        BY <2>1, <3>2 DEF SetTo
      <4>2. Len(w) = Len(t)
        BY <2>2, <2>3, <3>2, <4>1 DEF Extends
      <4>3. Find(w, k) = 0
        BY <2>2, <3>2, <4>1, <4>2, FindKept
      <4>4. QED BY <2>2, <2>3, <4>1, <4>3
    <3>3. CASE Find(t, k) = 0 /\ Len(t) < CFG_MAX
      <4>1. Len(r) = Len(t) + 1 /\ r[Len(t) + 1] = Setting(CutKey[k], v) /\ \A i \in 1..Len(t) : r[i] = t[i]
        BY <2>1, <3>3 DEF SetTo
      <4>2. r[Len(r)].key = k /\ r[Len(r)].val = v /\ Len(r) \in 1..Len(r)
        BY <2>1, <2>3, <4>1 DEF Setting
      <4>3. \A i \in 1..(Len(r) - 1) : r[i].key # r[Len(r)].key
        BY <2>3, <3>3, <4>1, <4>2, FindIs
      <4>4. Find(r, k) = Len(r)
        BY <2>3, <4>2, <4>3, FirstIsFound
      <4>5. Find(w, k) = Len(r)
        BY <2>1, <2>2, <2>3, <4>1, <4>4, FindKept
      <4>6. QED BY <2>2, <4>1, <4>2, <4>5
    <3>4. QED BY <2>3, <3>1, <3>2, <3>3
  <2>5. QED BY <2>4 DEF r, v
<1>3. QED BY <1>1, <1>2

\* A file none of whose keys is too long for the table, and what its lines make
\* of a table.
Whole(text) == text \in Seq(Entry) /\ \A i \in 1..Len(text) : CutKey[text[i].key] = text[i].key

Chain(h, text) ==
    /\ h \in [0..Len(text) -> Table]
    /\ \A i \in 1..Len(text) : h[i] = ParseLine(h[i - 1], text[i])

LEMMA ChainGrows ==
    ASSUME NEW text, Whole(text), NEW h, Chain(h, text)
    PROVE  /\ Len(text) \in Nat
           /\ \A i \in 1..Len(text) : text[i] \in Entry /\ CutKey[text[i].key] = text[i].key
           /\ \A i \in 0..Len(text) : h[i] \in Table
           /\ \A i \in 0..Len(text) : \A j \in i..Len(text) : Extends(h[j], h[i])
<1> DEFINE N == Len(text)
<1>1. N \in Nat /\ \A i \in 1..N : text[i] \in Entry /\ CutKey[text[i].key] = text[i].key
  BY DEF Whole
<1>2. h \in [0..N -> Table] /\ \A i \in 1..N : h[i] = ParseLine(h[i - 1], text[i])
  BY DEF Chain
<1> HIDE DEF N
<1>3. \A i \in 1..N : i - 1 \in 0..N
  BY <1>1
<1>4. \A i \in 1..N : Extends(h[i], h[i - 1])
  BY <1>1, <1>2, <1>3, LineSets
<1>5. ASSUME NEW i \in 0..N PROVE \A j \in i..N : Extends(h[j], h[i])
  BY <1>1, <1>2, <1>4, StepsExtend
<1>6. QED BY <1>1, <1>2, <1>5 DEF N

\* The value that an entry has in the end is that of the last line about it.
LEMMA LastHit ==
    ASSUME NEW text, Whole(text), NEW h, Chain(h, text), NEW w, w = h[Len(text)],
           NEW p \in 1..Len(w), NEW j \in 1..Len(text), Hits(w, text[j], p),
           \A l \in (j + 1)..Len(text) : ~Hits(w, text[l], p)
    PROVE  w[p].val = LineVal(text[j])
<1> DEFINE N == Len(text)
<1>1. /\ N \in Nat /\ \A i \in 1..N : text[i] \in Entry /\ CutKey[text[i].key] = text[i].key
      /\ \A i \in 0..N : h[i] \in Table
      /\ \A i \in 0..N : \A l \in i..N : Extends(h[l], h[i])
  BY ChainGrows
<1>2. \A i \in 1..N : h[i] = ParseLine(h[i - 1], text[i])
  BY DEF Chain
<1>3. w = h[N] /\ j \in 1..N /\ \A l \in (j + 1)..N : ~Hits(w, text[l], p)
  OBVIOUS
<1> HIDE DEF N
<1>4. \A i \in 0..N : Extends(w, h[i])
  BY <1>1, <1>3
<1>5. w \in Table
  BY <1>1, <1>3
<1> DEFINE S == {i \in 0..N : j <= i => p \in 1..Len(h[i]) /\ h[i][p].val = LineVal(text[j])}
<1>6. 0 \in S
  BY <1>1, <1>3
<1>7. ASSUME NEW i \in 0..(N - 1), i \in S PROVE i + 1 \in S
  <2>1. i + 1 \in 1..N /\ i + 1 \in 0..N /\ (i + 1) - 1 = i /\ i \in 0..N /\ i \in Int /\ j \in Int
    BY <1>1, <1>3
  <2>2. h[i + 1] = ParseLine(h[i], text[i + 1]) /\ text[i + 1] \in Entry /\ h[i] \in Table
        /\ h[i + 1] \in Table /\ Extends(w, h[i + 1]) /\ CutKey[text[i + 1].key] = text[i + 1].key
    BY <1>1, <1>2, <1>4, <2>1
  <2>3. /\ Hits(w, text[i + 1], p) => p \in 1..Len(h[i + 1]) /\ h[i + 1][p].val = LineVal(text[i + 1])
        /\ ~Hits(w, text[i + 1], p) /\ p \in 1..Len(h[i]) => h[i + 1][p].val = h[i][p].val
    BY <1>5, <2>2, LineHits
  <2>4. CASE j = i + 1
    BY <2>1, <2>3, <2>4
  <2>5. CASE j <= i
    <3>1. p \in 1..Len(h[i]) /\ h[i][p].val = LineVal(text[j])
      BY <1>7, <2>5
    <3>2. ~Hits(w, text[i + 1], p)
      BY <1>1, <1>3, <2>1, <2>5
    <3>3. Len(h[i]) <= Len(h[i + 1]) /\ Len(h[i]) \in Nat /\ Len(h[i + 1]) \in Nat
      <4>1. Extends(h[i + 1], h[i])
        BY <2>2, LineSets
      <4>2. QED BY <2>2, <4>1 DEF Extends, Table
    <3>4. p \in 1..Len(h[i + 1])
      BY <3>1, <3>3
    <3>5. h[i + 1][p].val = LineVal(text[j])
      BY <2>3, <3>1, <3>2
    <3>6. QED BY <2>1, <3>4, <3>5
  <2>6. CASE j > i + 1
    BY <2>1, <2>6
  <2>7. QED BY <2>1, <2>4, <2>5, <2>6
<1>8. N \in S
  <2> HIDE DEF S
  <2>1. 0..N \subseteq S
    BY <1>1, <1>6, <1>7, InductionUpTo
  <2>2. QED BY <1>1, <2>1
<1>9. QED BY <1>1, <1>3, <1>8

LEMMA NoHit ==
    ASSUME NEW text, Whole(text), NEW h, Chain(h, text), NEW w, w = h[Len(text)],
           NEW p \in 1..Len(h[0]), \A l \in 1..Len(text) : ~Hits(w, text[l], p)
    PROVE  w[p].val = h[0][p].val
<1> DEFINE N == Len(text)
<1>1. /\ N \in Nat /\ \A i \in 1..N : text[i] \in Entry /\ CutKey[text[i].key] = text[i].key
      /\ \A i \in 0..N : h[i] \in Table
      /\ \A i \in 0..N : \A l \in i..N : Extends(h[l], h[i])
  BY ChainGrows
<1>2. \A i \in 1..N : h[i] = ParseLine(h[i - 1], text[i])
  BY DEF Chain
<1>3. w = h[N] /\ \A l \in 1..N : ~Hits(w, text[l], p)
  OBVIOUS
<1> HIDE DEF N
<1>4. \A i \in 0..N : Extends(w, h[i]) /\ Extends(h[i], h[0]) /\ Len(h[i]) \in Nat
  BY <1>1, <1>3 DEF Table
<1>5. w \in Table
  BY <1>1, <1>3
<1>6. \A i \in 0..N : p \in 1..Len(h[i])
  BY <1>1, <1>4 DEF Extends
<1>7. p \in 1..Len(w)
  BY <1>1, <1>3, <1>6
<1> DEFINE S == {i \in 0..N : h[i][p].val = h[0][p].val}
<1>8. 0 \in S
  BY <1>1
<1>9. ASSUME NEW i \in 0..(N - 1), i \in S PROVE i + 1 \in S
  <2>1. i + 1 \in 1..N /\ i + 1 \in 0..N /\ (i + 1) - 1 = i /\ i \in 0..N
    BY <1>1
  <2>2. h[i + 1] = ParseLine(h[i], text[i + 1]) /\ text[i + 1] \in Entry /\ h[i] \in Table
        /\ Extends(w, h[i + 1]) /\ CutKey[text[i + 1].key] = text[i + 1].key
    BY <1>1, <1>2, <1>4, <2>1
  <2>3. ~Hits(w, text[i + 1], p) /\ p \in 1..Len(h[i])
    BY <1>3, <1>6, <2>1
  <2>4. h[i + 1][p].val = h[i][p].val
    BY <1>5, <1>7, <2>2, <2>3, LineHits
  <2>5. QED BY <1>9, <2>1, <2>4
<1>10. N \in S
  <2> HIDE DEF S
  <2>1. 0..N \subseteq S
    BY <1>1, <1>8, <1>9, InductionUpTo
  <2>2. QED BY <1>1, <2>1
<1>11. QED BY <1>3, <1>10

LEMMA LastOne ==
    ASSUME NEW N \in Nat, NEW J \in SUBSET (1..N), J # {}
    PROVE  \E j \in J : \A l \in (j + 1)..N : l \notin J
<1> DEFINE R == {n \in Nat : N - n \in J}
<1>1. R \in SUBSET Nat /\ R # {}
  <2>1. PICK j \in J : TRUE
    OBVIOUS
  <2>2. N - j \in Nat /\ N - (N - j) = j
    OBVIOUS
  <2>3. QED BY <2>1, <2>2
<1>2. PICK m \in R : \A n \in R : m <= n
  <2> HIDE DEF R
  <2>1. QED BY <1>1, LeastElement
<1>3. N - m \in J
  OBVIOUS
<1>4. ASSUME NEW l \in ((N - m) + 1)..N, l \in J PROVE FALSE
  <2>1. l \in Int /\ m \in Nat /\ N - l \in Nat /\ N - l < m /\ N - (N - l) = l
    OBVIOUS
  <2>2. N - l \in R
    BY <1>4, <2>1
  <2>3. m <= N - l
    BY <1>2, <2>2
  <2>4. QED BY <2>1, <2>3
<1>5. QED BY <1>3, <1>4

\* Every key of the file is settled once it has been read.
LEMMA ReadSettles ==
    ASSUME NEW text, Whole(text), NEW h, Chain(h, text), NEW i \in 1..Len(text),
           text[i].key \notin Comments
    PROVE  Settled(h[Len(text)], LineKey(text[i]))
<1> DEFINE N == Len(text)
           k == LineKey(text[i])
<1>1. /\ N \in Nat /\ text[i] \in Entry /\ CutKey[text[i].key] = text[i].key
      /\ \A j \in 0..N : h[j] \in Table
      /\ \A j \in 0..N : \A l \in j..N : Extends(h[l], h[j])
      /\ i \in 1..N
  BY ChainGrows
<1>2. h[i] = ParseLine(h[i - 1], text[i])
  BY DEF Chain
<1>3. k \in Keys /\ CutKey[k] = k
  BY <1>1, LineIs
<1> HIDE DEF N, k
<1>4. i - 1 \in 0..N /\ i \in 0..N /\ N \in i..N /\ N \in 0..N
  BY <1>1
<1>5. h[i - 1] \in Table /\ h[i] \in Table /\ h[N] \in Table /\ Extends(h[N], h[i])
  BY <1>1, <1>4
<1>6. SetTo(h[i], h[i - 1], k, LineVal(text[i]))
  BY <1>1, <1>2, <1>5, LineSets DEF k
<1>7. Settled(h[i], k)
  BY <1>3, <1>5, <1>6, SetSettles
<1>8. QED BY <1>5, <1>7, SettledLasts DEF N, k

\* Reading a file a second time changes nothing.
LEMMA ReadTwice ==
    ASSUME NEW u \in Table, NEW text, Whole(text)
    PROVE  Parse(Parse(u, text), text) = Parse(u, text)
<1> DEFINE N == Len(text)
           once == Parse(u, text)
<1>1. text \in Seq(Entry) /\ N \in Nat
  BY DEF Whole
<1>2. PICK a \in [0..N -> Table] :
            /\ a[0] = u /\ a[N] = once
            /\ \A i \in 1..N : a[i] = ParseLine(a[i - 1], text[i])
  BY <1>1, ParseSteps
<1>3. once \in Table
  BY <1>1, ParseExtends
<1> DEFINE twice == Parse(once, text)
<1>4. PICK b \in [0..N -> Table] :
            /\ b[0] = once /\ b[N] = twice
            /\ \A i \in 1..N : b[i] = ParseLine(b[i - 1], text[i])
  BY <1>1, <1>3, ParseSteps
<1>5. Chain(a, text) /\ Chain(b, text) /\ once = a[Len(text)] /\ twice = b[Len(text)]
  BY <1>2, <1>4 DEF Chain
<1>6. /\ \A i \in 0..N : b[i] \in Table /\ Extends(b[i], b[0])
      /\ \A i \in 1..N : text[i] \in Entry /\ i - 1 \in 0..N
  BY <1>1, <1>5, ChainGrows
<1>7. \A i \in 1..N : text[i].key \notin Comments => Settled(once, LineKey(text[i]))
  BY <1>5, ReadSettles
<1>8. \A i \in 0..N : Len(b[i]) = Len(once)
  <2> DEFINE S == {i \in 0..N : Len(b[i]) = Len(once)}
  <2>1. 0 \in S
    BY <1>1, <1>4
  <2>2. ASSUME NEW i \in 0..(N - 1), i \in S PROVE i + 1 \in S
    <3>1. i + 1 \in 1..N /\ i + 1 \in 0..N /\ (i + 1) - 1 = i /\ i \in 0..N
      BY <1>1
    <3>2. b[i + 1] = ParseLine(b[i], text[i + 1]) /\ text[i + 1] \in Entry /\ b[i] \in Table
          /\ Extends(b[i], once)
      BY <1>4, <1>6, <3>1
    <3>3. CASE text[i + 1].key \in Comments
      <4>1. b[i + 1] = b[i]
        BY <3>2, <3>3, LineSets
      <4>2. QED BY <2>2, <3>1, <4>1
    <3>4. CASE text[i + 1].key \notin Comments
      <4>1. Settled(b[i], LineKey(text[i + 1]))
        BY <1>3, <1>7, <3>1, <3>2, <3>4, SettledLasts
      <4>2. SetTo(b[i + 1], b[i], LineKey(text[i + 1]), LineVal(text[i + 1]))
        BY <3>2, <3>4, LineSets
      <4>3. Len(b[i + 1]) = Len(b[i])
        BY <3>2, <4>1, <4>2, SettledSet
      <4>4. QED BY <2>2, <3>1, <4>3
    <3>5. QED BY <3>3, <3>4
  <2>3. 0..N \subseteq S
    <3> HIDE DEF S, N
    <3>1. QED BY <1>1, <2>1, <2>2, InductionUpTo
  <2>4. QED BY <2>3
<1>9. twice \in Table /\ Len(twice) = Len(once) /\ Extends(twice, once)
  <2>1. N \in 0..N
    BY <1>1
  <2>2. QED BY <1>4, <1>6, <1>8, <2>1
<1>10. once \in Seq(Entry) /\ twice \in Seq(Entry) /\ Len(once) \in Nat
  BY <1>3, <1>9 DEF Table
<1> HIDE DEF once, twice
<1>11. \A k : Find(twice, k) = Find(once, k)
  BY <1>3, <1>9, FindKept
<1>12. \A l \in 1..N, p \in 1..Len(once) : Hits(twice, text[l], p) <=> Hits(once, text[l], p)
  BY <1>11 DEF Hits
<1>13. ASSUME NEW p \in 1..Len(once) PROVE twice[p].val = once[p].val
  <2> DEFINE J == {l \in 1..N : Hits(once, text[l], p)}
  <2>1. CASE J = {}
    <3>1. \A l \in 1..N : ~Hits(twice, text[l], p)
      BY <1>12, <2>1
    <3>2. p \in 1..Len(b[0])
      BY <1>4
    <3>3. twice[p].val = b[0][p].val
      BY <1>5, <3>1, <3>2, NoHit
    <3>4. QED BY <1>4, <3>3
  <2>2. CASE J # {}
    <3>1. J \in SUBSET (1..N)
      OBVIOUS
    <3>2. PICK j \in J : \A l \in (j + 1)..N : l \notin J
      <4> HIDE DEF J, N
      <4>1. QED BY <1>1, <2>2, <3>1, LastOne
    <3>3. j \in 1..N /\ Hits(once, text[j], p) /\ \A l \in (j + 1)..N : l \in 1..N /\ ~Hits(once, text[l], p)
      <4>1. j \in 1..N /\ Hits(once, text[j], p)
        OBVIOUS
      <4>2. \A l \in (j + 1)..N : l \in 1..N
        BY <1>1, <4>1
      <4>3. QED BY <3>2, <4>1, <4>2
    <3>4. once[p].val = LineVal(text[j])
      BY <1>5, <3>3, LastHit
    <3>5. Hits(twice, text[j], p) /\ (\A l \in (j + 1)..N : ~Hits(twice, text[l], p)) /\ p \in 1..Len(twice)
      BY <1>9, <1>12, <3>3
    <3>6. twice[p].val = LineVal(text[j])
      BY <1>5, <3>3, <3>5, LastHit
    <3>7. QED BY <3>4, <3>6
  <2>3. QED BY <2>1, <2>2
<1>14. \A p \in 1..Len(twice) : twice[p].key = once[p].key /\ twice[p].val = once[p].val
  BY <1>9, <1>13 DEF Extends
<1>15. twice = once
  BY <1>9, <1>10, <1>14, SameTables
<1>16. QED BY <1>15 DEF twice, once

\* The defaults are settled in a table that has been filled with them, and
\* filling it again changes nothing.
LEMMA FilledIsSettled ==
    ASSUME NEW t \in Table, NEW ds \in Seq(Entry), \A i \in 1..Len(ds) : CutKey[ds[i].key] = ds[i].key,
           NEW i \in 1..Len(ds)
    PROVE  Settled(WithDefaults(t, ds), ds[i].key)
<1> DEFINE N == Len(ds)
<1>0. N \in Nat /\ i \in 1..N /\ \A j \in 1..N : ds[j] \in Entry
  OBVIOUS
<1>1. N \in Nat /\ i \in 1..N /\ \A j \in 1..N : ds[j] \in Entry /\ ds[j].key \in Keys
  BY <1>0 DEF Entry
<1>2. PICK h \in [0..N -> Table] :
            /\ h[0] = t /\ h[N] = WithDefaults(t, ds)
            /\ \A j \in 1..N : h[j] = SetDefault(h[j - 1], ds[j])
  BY DefaultsSteps
<1>3. CutKey[ds[i].key] = ds[i].key
  OBVIOUS
<1> HIDE DEF N
<1>4. \A j \in 1..N : j - 1 \in 0..N /\ j \in 0..N
  BY <1>1
<1>5. \A j \in 1..N : Extends(h[j], h[j - 1])
  BY <1>1, <1>2, <1>4, DefaultSets
<1>6. N \in i..N /\ i \in 0..N
  BY <1>1
<1>7. Extends(h[N], h[i])
  BY <1>1, <1>5, <1>6, StepsExtend
<1>8. h[i - 1] \in Table /\ h[i] \in Table /\ h[N] \in Table /\ h[i] = SetDefault(h[i - 1], ds[i])
  BY <1>1, <1>2, <1>4
<1>9. Settled(h[i], ds[i].key)
  <2>1. CASE Find(h[i - 1], ds[i].key) # 0
    BY <1>1, <1>8, <2>1, DefaultSets DEF Settled
  <2>2. CASE Find(h[i - 1], ds[i].key) = 0
    <3>1. SetTo(h[i], h[i - 1], ds[i].key, ds[i].val)
      BY <1>1, <1>8, <2>2, DefaultSets
    <3>2. QED BY <1>1, <1>3, <1>8, <3>1, SetSettles
  <2>3. QED BY <2>1, <2>2
<1>10. QED BY <1>2, <1>7, <1>8, <1>9, SettledLasts

LEMMA SettledFill ==
    ASSUME NEW t \in Table, NEW ds \in Seq(Entry), \A i \in 1..Len(ds) : Settled(t, ds[i].key)
    PROVE  WithDefaults(t, ds) = t
<1> DEFINE N == Len(ds)
<1>1. N \in Nat /\ \A j \in 1..N : ds[j] \in Entry /\ Settled(t, ds[j].key)
  OBVIOUS
<1>2. PICK h \in [0..N -> Table] :
            /\ h[0] = t /\ h[N] = WithDefaults(t, ds)
            /\ \A j \in 1..N : h[j] = SetDefault(h[j - 1], ds[j])
  BY DefaultsSteps
<1> HIDE DEF N
<1> DEFINE S == {i \in 0..N : h[i] = t}
<1>3. 0 \in S
  BY <1>1, <1>2
<1>4. ASSUME NEW i \in 0..(N - 1), i \in S PROVE i + 1 \in S
  <2>1. i + 1 \in 1..N /\ i + 1 \in 0..N /\ (i + 1) - 1 = i
    BY <1>1
  <2>2. h[i + 1] = SetDefault(t, ds[i + 1]) /\ ds[i + 1] \in Entry /\ Settled(t, ds[i + 1].key)
    BY <1>1, <1>2, <1>4, <2>1
  <2>3. SetDefault(t, ds[i + 1]) = t
    <3>1. CASE Find(t, ds[i + 1].key) # 0
      BY <2>2, <3>1, DefaultSets
    <3>2. CASE Find(t, ds[i + 1].key) = 0
      <4>1. SetTo(SetDefault(t, ds[i + 1]), t, ds[i + 1].key, ds[i + 1].val)
        BY <2>2, <3>2, DefaultSets
      <4>2. QED BY <2>2, <3>2, <4>1 DEF SetTo, Settled
    <3>3. QED BY <3>1, <3>2
  <2>4. QED BY <2>1, <2>2, <2>3
<1>5. N \in S
  <2> HIDE DEF S
  <2>1. 0..N \subseteq S
    BY <1>1, <1>3, <1>4, InductionUpTo
  <2>2. QED BY <1>1, <2>1
<1>6. QED BY <1>2, <1>5

\* A second config reload changes nothing that the first has not, as the run says.
THEOREM ReloadIsSettled == Spec => []ReloadSettles
<1>1. TablesInv => ReloadSettles
  <2> DEFINE u == WithDefaults(table, DefaultConfig)
             once == Parse(u, file)
  <2> SUFFICES ASSUME TablesInv, \A i \in DOMAIN file : CutKey[file[i].key] = file[i].key
               PROVE  Parse(WithDefaults(once, DefaultConfig), file) = once
    BY DEF ReloadSettles
  <2>1. table \in Table /\ file \in Seq(Entry) /\ DOMAIN file = 1..Len(file)
    BY DEF TablesInv, Good, Tidy
  <2>2. Whole(file)
    BY <2>1 DEF Whole
  <2>3. DefaultConfig \in Seq(Entry) /\ \A i \in 1..Len(DefaultConfig) : CutKey[DefaultConfig[i].key] = DefaultConfig[i].key
    BY KernelKeysAssumption
  <2>4. u \in Table /\ \A i \in 1..Len(DefaultConfig) : Settled(u, DefaultConfig[i].key)
    BY <2>1, <2>3, DefaultsExtend, FilledIsSettled
  <2> HIDE DEF u
  <2>5. once \in Table /\ Extends(once, u)
    BY <2>1, <2>4, ParseExtends
  <2>6. Parse(once, file) = once
    BY <2>2, <2>4, ReadTwice
  <2> HIDE DEF once
  <2>7. \A i \in 1..Len(DefaultConfig) : Settled(once, DefaultConfig[i].key)
    BY <2>4, <2>5, SettledLasts
  <2>8. WithDefaults(once, DefaultConfig) = once
    BY <2>3, <2>5, <2>7, SettledFill
  <2>9. QED BY <2>6, <2>8
<1>2. QED BY <1>1, TablesHold, PTL

-----------------------------------------------------------------------------
(* The owners of the accent.                                               *)

OwnAccent == ConfigGet(table, "ui.accent", <<"orange">>)

\* A setting of another object is not the accent.
LEMMA ObjectKeepsAccent ==
    ASSUME table \in Table, NEW k \in Keys, CutKey[k] = k, k # "ui.accent", NEW v \in Words, NEW ev,
           ObjectSet(k, v, ev)
    PROVE  OwnAccent' = OwnAccent /\ accent' = accent /\ g' = g
<1>1. <<v>> \in Seq(Words)
  OBVIOUS
<1>2. table' = ConfigSet(table, k, <<v>>) /\ accent' = accent /\ g' = g
  BY DEF ObjectSet, style
<1>3. ConfigGet(ConfigSet(table, k, <<v>>), "ui.accent", <<"orange">>) = ConfigGet(table, "ui.accent", <<"orange">>)
  <2> DEFINE w == <<v>>
             d == <<"orange">>
             q == "ui.accent"
  <2>1. w \in Seq(Words) /\ q # k /\ q # CutKey[k]
    BY <1>1
  <2> HIDE DEF w, d, q
  <2>2. ConfigGet(ConfigSet(table, k, w), q, d) = ConfigGet(table, q, d)
    BY <2>1, GetOther
  <2>3. QED BY <2>2 DEF w, d, q
<1>4. QED BY <1>2, <1>3 DEF OwnAccent

\* The accent of the console is always the colour of ui.accent or that of the
\* theme, as the run says.
THEOREM AccentOwned == Spec => []AccentIsOwned
<1>1. Init => AccentIsOwned
  BY DEF Init, AccentIsOwned
<1>2. TablesInv /\ AccentIsOwned /\ [Next]_vars => AccentIsOwned'
  <2> SUFFICES ASSUME TablesInv, AccentIsOwned, [Next]_vars PROVE AccentIsOwned'
    OBVIOUS
  <2>1. table \in Table
    BY DEF TablesInv, Good, Tidy
  <2>2. AccentIsOwned <=> (OwnAccent \in {<<c>> : c \in Palette} => accent \in {OwnAccent[1], g[<<"desktop", "accent">>]})
    BY DEF AccentIsOwned, OwnAccent
  <2>3. AccentIsOwned' <=> (OwnAccent' \in {<<c>> : c \in Palette} => accent' \in {OwnAccent'[1], g'[<<"desktop", "accent">>]})
    BY DEF AccentIsOwned, OwnAccent
  <2>4. CASE ApplyConfig(table')
    <3>1. accent' = IF Len(OwnAccent') = 1 /\ OwnAccent'[1] \in Palette THEN OwnAccent'[1] ELSE accent
      BY <2>4 DEF ApplyConfig, OwnAccent
    <3>2. OwnAccent' \in {<<c>> : c \in Palette} => Len(OwnAccent') = 1 /\ OwnAccent'[1] \in Palette
      OBVIOUS
    <3>3. QED BY <2>3, <3>1, <3>2
  <2>5. CASE accent' = g'[<<"desktop", "accent">>]
    BY <2>3, <2>5
  <2>6. CASE OwnAccent' = OwnAccent /\ accent' = accent /\ g' = g
    BY <2>2, <2>3, <2>6
  <2>7. CASE UNCHANGED <<table, accent, g>>
    BY <2>6, <2>7 DEF OwnAccent
  <2>8. CASE \/ \E p \in Typed.policies : PolicySet(p)
             \/ \E p \in Typed.prompts : PromptSet(p)
             \/ ServiceStart \/ ServiceStop
             \/ \E y \in {"us", "es"} : LayoutSet(y)
    <3>1. \E k \in Keys \ {"ui.accent"}, v \in Words, ev \in {<<>>, <<"ok">>, <<"warn">>} : CutKey[k] = k /\ ObjectSet(k, v, ev)
      <4>1. /\ \A p \in Typed.policies : PolicySet(p) => ObjectSet("scheduler.policy", p, <<"ok">>)
            /\ \A p \in Typed.prompts : PromptSet(p) => ObjectSet("shell.prompt", p, <<>>)
            /\ ServiceStart => ObjectSet("net.enabled", "true", <<"ok">>)
            /\ ServiceStop => ObjectSet("net.enabled", "false", <<"warn">>)
            /\ \A y \in {"us", "es"} : LayoutSet(y) => ObjectSet("input.layout", y, <<"ok">>)
        BY DEF PolicySet, PromptSet, ServiceStart, ServiceStop, LayoutSet
      <4>2. \A k \in {"input.layout", "scheduler.policy", "shell.prompt", "net.enabled"} :
                k \in Keys \ {"ui.accent"} /\ CutKey[k] = k
        BY KernelKeysAssumption
      <4>3. {"true", "false", "us", "es"} \subseteq Words /\ Typed.policies \subseteq Words /\ Typed.prompts \subseteq Words
        BY KernelKeysAssumption, TypedAssumption
      <4>4. QED BY <2>8, <4>1, <4>2, <4>3
    <3>2. QED BY <2>1, <2>6, <3>1, ObjectKeepsAccent
  <2>9. CASE \/ \E s \in Typed.settings : ConfigCommand(s.key, s.val)
             \/ ReloadCommand
    BY <2>4, <2>9 DEF ConfigCommand, ReloadCommand
  <2>10. CASE \/ \E c \in Typed.styles : ThemeCommand(c)
              \/ \E events \in {<<>>, <<"ok">>} : ThemeReload(events)
    BY <2>5, <2>7, <2>10 DEF ThemeCommand, ThemeReload, vars, settings, style
  <2>11. CASE \/ \E m \in DOMAIN Irq, on \in BOOLEAN : ModuleSet(m, on)
              \/ Gui \/ SaveCommand \/ UNCHANGED vars
              \/ \E lines \in Typed.files : EditConfig(lines)
              \/ EditSheet(<<>>)
              \/ \E t \in Texts : EditSheet(t.text)
    <3>1. UNCHANGED <<table, accent, g>>
      BY <2>11 DEF ModuleSet, Gui, SaveCommand, EditConfig, EditSheet, vars, settings, style
    <3>2. QED BY <2>7, <3>1
  <2>12. QED BY <2>8, <2>9, <2>10, <2>11 DEF Next
<1>3. QED BY <1>1, <1>2, TablesHold, PTL DEF Spec

-----------------------------------------------------------------------------
(* Modules and masks.                                                      *)

Names == {"keyboard", "mouse", "timer"}

\* The lines by their places: MasksFollowModules, spelled out, and the types
\* and the core modules that make it inductive.
ModulesInv ==
    /\ enabled \in [Names -> BOOLEAN] /\ enabled["timer"]
    /\ masks \in [1..2 -> SUBSET (0..7)]
    /\ 0 \notin masks[1]
    /\ 1 \in masks[1] <=> ~enabled["keyboard"]
    /\ ~enabled["mouse"] /\ ~opened => 4 \in masks[2]

LEMMA IrqIs ==
    /\ DOMAIN Irq = Names
    /\ Irq["keyboard"] = 1 /\ Irq["mouse"] = 12 /\ Irq["timer"] = 0
BY DEF Irq, Names

LEMMA PortIs ==
    /\ Port(0) = <<1, 0>> /\ Port(1) = <<1, 1>>
    /\ Port(2) = <<1, 2>> /\ Port(12) = <<2, 4>>
BY DEF Port

\* What masking and unmasking a line does to the registers.
LEMMA MasksAre ==
    ASSUME NEW m
    PROVE  /\ Unmasked(m, 1) = [m EXCEPT ![1] = @ \ {1}]
           /\ Unmasked(m, 2) = [m EXCEPT ![1] = @ \ {2}]
           /\ Unmasked(m, 12) = [m EXCEPT ![2] = @ \ {4}]
           /\ Masked(1) = [masks EXCEPT ![1] = @ \cup ({1} \cap 0..7)]
           /\ Masked(12) = [masks EXCEPT ![2] = @ \cup ({4} \cap 0..7)]
<1>1. /\ Port(1)[1] = 1 /\ Port(1)[2] = 1
      /\ Port(2)[1] = 1 /\ Port(2)[2] = 2
      /\ Port(12)[1] = 2 /\ Port(12)[2] = 4
  BY PortIs
<1> HIDE DEF Port
<1>2. Unmasked(m, 1) = [m EXCEPT ![1] = @ \ {1}]
  BY <1>1 DEF Unmasked
<1>3. Unmasked(m, 2) = [m EXCEPT ![1] = @ \ {2}]
  BY <1>1 DEF Unmasked
<1>4. Unmasked(m, 12) = [m EXCEPT ![2] = @ \ {4}]
  BY <1>1 DEF Unmasked
<1>5. Masked(1) = [masks EXCEPT ![1] = @ \cup ({1} \cap 0..7)]
  BY <1>1 DEF Masked
<1>6. Masked(12) = [masks EXCEPT ![2] = @ \cup ({4} \cap 0..7)]
  BY <1>1 DEF Masked
<1> QED BY <1>2, <1>3, <1>4, <1>5, <1>6

LEMMA InvImplies == ModulesInv => MasksFollowModules
<1> SUFFICES ASSUME ModulesInv PROVE MasksFollowModules
  OBVIOUS
<1>1. ASSUME NEW m \in Names, ~enabled[m], ~(m = "mouse" /\ opened)
      PROVE  IsMasked(Irq[m])
  <2>1. CASE m = "keyboard"
    BY <1>1, <2>1, IrqIs DEF ModulesInv, IsMasked
  <2>2. CASE m = "mouse"
    <3>1. 4 \in masks[2]
      BY <1>1, <2>2 DEF ModulesInv
    <3>2. Irq[m] = 12 /\ 12 - 8 = 4
      BY <2>2, IrqIs
    <3> QED BY <3>1, <3>2 DEF IsMasked
  <2>3. CASE m = "timer"
    BY <1>1, <2>3 DEF ModulesInv
  <2> QED BY <2>1, <2>2, <2>3 DEF Names
<1>2. ASSUME NEW m \in Names \ {"mouse"}, enabled[m]
      PROVE  ~IsMasked(Irq[m])
  <2>1. CASE m = "keyboard"
    BY <1>2, <2>1, IrqIs DEF ModulesInv, IsMasked
  <2>2. CASE m = "timer"
    BY <1>2, <2>2, IrqIs DEF ModulesInv, IsMasked
  <2> QED BY <2>1, <2>2 DEF Names
<1> QED BY <1>1, <1>2, IrqIs DEF MasksFollowModules

LEMMA ModulesInit == Init => ModulesInv
<1> SUFFICES ASSUME Init PROVE ModulesInv
  OBVIOUS
<1>1. masks \in Loaders /\ opened = FALSE /\ enabled = [m \in DOMAIN Irq |-> TRUE]
  BY DEF Init
<1>2. masks \in [1..2 -> SUBSET (0..7)] /\ 0 \notin masks[1] /\ 1 \notin masks[1]
  BY <1>1, LoaderAssumption
<1>3. enabled \in [Names -> BOOLEAN] /\ \A m \in Names : enabled[m]
  BY <1>1, IrqIs
<1> QED BY <1>2, <1>3 DEF ModulesInv, Names

LEMMA SameModules == ModulesInv /\ UNCHANGED modules => ModulesInv'
BY DEF ModulesInv, modules

\* Loading or unloading a module touches its own line and no other.
LEMMA ModuleSetStep ==
    ASSUME ModulesInv, NEW name \in Names, NEW on \in BOOLEAN, ModuleSet(name, on)
    PROVE  ModulesInv'
<1>1. CASE (name \in Core /\ ~on) \/ enabled[name] = on
  BY <1>1, SameModules DEF ModuleSet, vars
<1>2. CASE ~((name \in Core /\ ~on) \/ enabled[name] = on)
  <2>1. /\ enabled' = [enabled EXCEPT ![name] = on]
        /\ masks' = IF on THEN Unmasked(masks, Irq[name]) ELSE Masked(Irq[name])
        /\ opened' = (opened /\ name # "mouse")
        /\ name = "timer" => on
        /\ enabled[name] # on
    BY <1>2 DEF ModuleSet, Core
  <2>2. name # "timer"
    BY <2>1 DEF ModulesInv
  <2>3. CASE name = "keyboard"
    <3>1. masks' = IF on THEN [masks EXCEPT ![1] = @ \ {1}]
                   ELSE [masks EXCEPT ![1] = @ \cup ({1} \cap 0..7)]
      BY <2>1, <2>3, IrqIs, MasksAre
    <3>2. /\ masks' \in [1..2 -> SUBSET (0..7)]
          /\ 0 \notin masks'[1] /\ masks'[2] = masks[2]
          /\ 1 \in masks'[1] <=> ~on
      BY <3>1 DEF ModulesInv
    <3>3. /\ enabled' \in [Names -> BOOLEAN] /\ enabled'["keyboard"] = on
          /\ enabled'["timer"] = enabled["timer"] /\ enabled'["mouse"] = enabled["mouse"]
          /\ opened' <=> opened
      <4>1. enabled' = [enabled EXCEPT !["keyboard"] = on] /\ enabled \in [Names -> BOOLEAN]
        BY <2>1, <2>3 DEF ModulesInv
      <4>2. opened' <=> opened
        BY <2>1, <2>3
      <4>3. enabled' \in [Names -> BOOLEAN]
        BY <4>1
      <4>4. enabled'["keyboard"] = on
        BY <4>1 DEF Names
      <4>5. enabled'["timer"] = enabled["timer"] /\ enabled'["mouse"] = enabled["mouse"]
        BY <4>1 DEF Names
      <4> QED BY <4>2, <4>3, <4>4, <4>5
    <3> QED BY <3>2, <3>3 DEF ModulesInv
  <2>4. CASE name = "mouse"
    <3>1. masks' = IF on THEN [masks EXCEPT ![2] = @ \ {4}]
                   ELSE [masks EXCEPT ![2] = @ \cup ({4} \cap 0..7)]
      BY <2>1, <2>4, IrqIs, MasksAre
    <3>2. /\ masks' \in [1..2 -> SUBSET (0..7)]
          /\ masks'[1] = masks[1]
          /\ ~on => 4 \in masks'[2]
      BY <3>1 DEF ModulesInv
    <3>3. /\ enabled' \in [Names -> BOOLEAN] /\ enabled'["mouse"] = on
          /\ enabled'["timer"] = enabled["timer"] /\ enabled'["keyboard"] = enabled["keyboard"]
      BY <2>1, <2>4 DEF ModulesInv, Names
    <3> QED BY <3>2, <3>3 DEF ModulesInv
  <2> QED BY <2>2, <2>3, <2>4 DEF Names
<1> QED BY <1>1, <1>2

\* The desktop opens the mouse's line and the cascade's.
LEMMA GuiStep ==
    ASSUME ModulesInv, Gui
    PROVE  ModulesInv'
<1>1. enabled' = enabled /\ opened' = TRUE /\ masks' = Unmasked(Unmasked(masks, 2), 12)
  BY DEF Gui
<1>2. masks' = [[masks EXCEPT ![1] = @ \ {2}] EXCEPT ![2] = @ \ {4}]
  BY <1>1, MasksAre
<1>3. /\ masks' \in [1..2 -> SUBSET (0..7)]
      /\ masks'[1] = masks[1] \ {2}
  BY <1>2 DEF ModulesInv
<1> QED BY <1>1, <1>3 DEF ModulesInv

\* The other commands have nothing to do with modules.
LEMMA OtherSteps ==
    ASSUME [Next]_vars,
           ~ \E m \in Names, on \in BOOLEAN : ModuleSet(m, on),
           ~ Gui
    PROVE  UNCHANGED modules
<1>1. CASE UNCHANGED vars
  BY <1>1 DEF vars
<1>2. CASE Next
  BY <1>2, IrqIs DEF Next, ConfigCommand, SaveCommand, ObjectSet, PolicySet, PromptSet, ServiceStart,
       ServiceStop, LayoutSet, ReloadCommand, EditConfig, ThemeCommand, ThemeReload, EditSheet, vars
<1> QED BY <1>1, <1>2

\* control.c, set_module: the line of an unloaded module is masked, until
\* mouse_init opens it again; that of a loaded keyboard or a core module is not.
THEOREM MasksFollow == Spec => []MasksFollowModules
<1>1. ModulesInv /\ [Next]_vars => ModulesInv'
  BY ModuleSetStep, GuiStep, OtherSteps, SameModules
<1> QED BY <1>1, ModulesInit, InvImplies, PTL DEF Spec

-----------------------------------------------------------------------------
(* Styles.                                                                 *)

\* The fields of a record of records are those of its records.
LEMMA KeyedIs ==
    ASSUME NEW f, NEW k
    PROVE  /\ k \in DOMAIN Keyed(f) <=> \E sel \in DOMAIN f : \E p \in DOMAIN f[sel] : k = <<sel, p>>
           /\ k \in DOMAIN Keyed(f) => Keyed(f)[k] = f[k[1]][k[2]]
<1>1. k \in DOMAIN Keyed(f) <=> \E sel \in DOMAIN f : k \in {sel} \X DOMAIN f[sel]
  BY Zenon DEF Keyed
<1>2. ASSUME NEW sel, NEW D PROVE k \in {sel} \X D <=> \E p \in D : k = <<sel, p>>
  OBVIOUS
<1>3. k \in DOMAIN Keyed(f) => Keyed(f)[k] = f[k[1]][k[2]]
  BY Zenon DEF Keyed
<1>4. QED BY <1>1, <1>2, <1>3, Zenon

\* The names of the properties that are numbers.
Numbers == {<<"window", "radius">>, <<"window", "blur">>, <<"window", "opacity">>, <<"window", "shadow">>,
            <<"window", "border">>, <<"taskbar", "height">>, <<"taskbar", "opacity">>}

\* The numbers of a style and their bounds.
LEMMA LimitsAre ==
    /\ DOMAIN Limits = Numbers
    /\ Limits[<<"window", "radius">>] = <<0, 40>> /\ Limits[<<"window", "blur">>] = <<0, 12>>
    /\ Limits[<<"window", "opacity">>] = <<0, 100>> /\ Limits[<<"window", "shadow">>] = <<0, 40>>
    /\ Limits[<<"window", "border">>] = <<0, 1>>
    /\ Limits[<<"taskbar", "height">>] = <<18, 64>> /\ Limits[<<"taskbar", "opacity">>] = <<0, 100>>
<1> DEFINE w == [radius |-> <<0, 40>>, blur |-> <<0, 12>>, opacity |-> <<0, 100>>,
                 shadow |-> <<0, 40>>, border |-> <<0, 1>>]
           t == [height |-> <<18, 64>>, opacity |-> <<0, 100>>]
           f == [window |-> w, taskbar |-> t]
<1>1. Limits = Keyed(f)
  BY DEF Limits
<1>2. /\ DOMAIN f = {"window", "taskbar"} /\ f["window"] = w /\ f["taskbar"] = t
      /\ DOMAIN w = {"radius", "blur", "opacity", "shadow", "border"}
      /\ DOMAIN t = {"height", "opacity"}
  OBVIOUS
<1>3. /\ w["radius"] = <<0, 40>> /\ w["blur"] = <<0, 12>> /\ w["opacity"] = <<0, 100>>
      /\ w["shadow"] = <<0, 40>> /\ w["border"] = <<0, 1>>
      /\ t["height"] = <<18, 64>> /\ t["opacity"] = <<0, 100>>
  OBVIOUS
<1> HIDE DEF f, w, t
<1>4. ASSUME NEW k PROVE k \in DOMAIN Limits <=> k \in Numbers
  BY <1>1, <1>2, KeyedIs DEF Numbers
<1>5. ASSUME NEW k \in Numbers PROVE Limits[k] = f[k[1]][k[2]]
  BY <1>1, <1>4, KeyedIs, Zenon
<1>6. DOMAIN Limits = Numbers
  <2>1. DOMAIN Limits = DOMAIN Keyed(f)
    BY <1>1, Zenon
  <2>2. QED BY <1>4
<1>7. \A s, p : <<s, p>>[1] = s /\ <<s, p>>[2] = p
  OBVIOUS
<1>8. \A s, p : <<s, p>> \in Numbers => Limits[<<s, p>>] = f[s][p]
  BY <1>5, <1>7, Zenon
<1>9. QED BY <1>2, <1>3, <1>6, <1>8 DEF Numbers

\* The words that are choices, and what a style is made of.
ChoiceWords == {"gradient", "grid", "solid", "aurora", "true", "false", "top", "bottom"}

Properties == DOMAIN Defaults

Fits(k, v) ==
    /\ v \in Paint \cup Int \cup ChoiceWords
    /\ k \in Colours => v \in Paint
    /\ k \in Numbers => v \in Limits[k][1]..Limits[k][2]
    /\ k \notin Colours \cup Numbers => v \in ChoiceWords

Styles == {s \in [Properties -> Paint \cup Int \cup ChoiceWords] : \A k \in Properties : Fits(k, s[k])}

\* The properties of a style and what theme_defaults gives them.
LEMMA DefaultsAre ==
    /\ Properties = Colours \cup Numbers
                    \cup {<<"desktop", "wallpaper">>, <<"taskbar", "visible">>, <<"taskbar", "position">>}
    /\ Defaults[<<"desktop", "accent">>] = "orange" /\ Defaults[<<"desktop", "wallpaper">>] = "aurora"
    /\ Defaults[<<"desktop", "glow1">>] = "orange" /\ Defaults[<<"desktop", "glow2">>] = "violet"
    /\ Defaults[<<"window", "radius">>] = 14 /\ Defaults[<<"window", "blur">>] = 6
    /\ Defaults[<<"window", "opacity">>] = 58 /\ Defaults[<<"window", "shadow">>] = 16
    /\ Defaults[<<"window", "border">>] = 1 /\ Defaults[<<"window", "tint">>] = "slate"
    /\ Defaults[<<"taskbar", "visible">>] = "true" /\ Defaults[<<"taskbar", "position">>] = "bottom"
    /\ Defaults[<<"taskbar", "height">>] = 34 /\ Defaults[<<"taskbar", "opacity">>] = 70
    /\ Defaults[<<"terminal", "background">>] = "ink" /\ Defaults[<<"terminal", "foreground">>] = "white"
<1> DEFINE d == [accent |-> "orange", wallpaper |-> "aurora", glow1 |-> "orange", glow2 |-> "violet"]
           w == [radius |-> 14, blur |-> 6, opacity |-> 58, shadow |-> 16, border |-> 1, tint |-> "slate"]
           b == [visible |-> "true", position |-> "bottom", height |-> 34, opacity |-> 70]
           t == [background |-> "ink", foreground |-> "white"]
           f == [desktop |-> d, window |-> w, taskbar |-> b, terminal |-> t]
<1>1. Defaults = Keyed(f)
  BY DEF Defaults
<1>2. /\ DOMAIN f = {"desktop", "window", "taskbar", "terminal"}
      /\ f["desktop"] = d /\ f["window"] = w /\ f["taskbar"] = b /\ f["terminal"] = t
      /\ DOMAIN d = {"accent", "wallpaper", "glow1", "glow2"}
      /\ DOMAIN w = {"radius", "blur", "opacity", "shadow", "border", "tint"}
      /\ DOMAIN b = {"visible", "position", "height", "opacity"}
      /\ DOMAIN t = {"background", "foreground"}
  OBVIOUS
<1>3. /\ d["accent"] = "orange" /\ d["wallpaper"] = "aurora"
      /\ d["glow1"] = "orange" /\ d["glow2"] = "violet"
  OBVIOUS
<1>4. /\ w["radius"] = 14 /\ w["blur"] = 6 /\ w["opacity"] = 58
      /\ w["shadow"] = 16 /\ w["border"] = 1 /\ w["tint"] = "slate"
  OBVIOUS
<1>5. /\ b["visible"] = "true" /\ b["position"] = "bottom" /\ b["height"] = 34 /\ b["opacity"] = 70
      /\ t["background"] = "ink" /\ t["foreground"] = "white"
  OBVIOUS
<1> HIDE DEF f, d, w, b, t
<1> DEFINE P == Colours \cup Numbers
                \cup {<<"desktop", "wallpaper">>, <<"taskbar", "visible">>, <<"taskbar", "position">>}
<1>6. ASSUME NEW k PROVE k \in Properties <=> k \in P
  <2>1. k \in Properties <=> \E sel \in DOMAIN f : \E p \in DOMAIN f[sel] : k = <<sel, p>>
    BY <1>1, KeyedIs DEF Properties
  <2>2. QED BY <1>2, <2>1 DEF Numbers, Colours
<1>7. Properties = P
  <2> HIDE DEF P
  <2>1. QED BY <1>6, Zenon
<1>8. ASSUME NEW k \in Properties PROVE Defaults[k] = f[k[1]][k[2]]
  BY <1>1, KeyedIs, Zenon DEF Properties
<1>9. \A s, p : <<s, p>>[1] = s /\ <<s, p>>[2] = p
  OBVIOUS
<1>10. \A s, p : <<s, p>> \in Properties => Defaults[<<s, p>>] = f[s][p]
  BY <1>8, <1>9, Zenon
<1>11. /\ \A p \in DOMAIN d : <<"desktop", p>> \in Properties
       /\ \A p \in DOMAIN w : <<"window", p>> \in Properties
       /\ \A p \in DOMAIN b : <<"taskbar", p>> \in Properties
       /\ \A p \in DOMAIN t : <<"terminal", p>> \in Properties
  BY <1>1, <1>2, KeyedIs, Zenon DEF Properties
<1>12. /\ \A p \in DOMAIN d : Defaults[<<"desktop", p>>] = d[p]
       /\ \A p \in DOMAIN w : Defaults[<<"window", p>>] = w[p]
       /\ \A p \in DOMAIN b : Defaults[<<"taskbar", p>>] = b[p]
       /\ \A p \in DOMAIN t : Defaults[<<"terminal", p>>] = t[p]
  BY <1>2, <1>10, <1>11, Zenon
<1>13. QED BY <1>2, <1>3, <1>4, <1>5, <1>7, <1>12

\* The colours of theme_defaults are colours.
LEMMA PaintIs ==
    /\ Named \subseteq Paint
    /\ "orange" \in Paint /\ "violet" \in Paint /\ "slate" \in Paint
    /\ "ink" \in Paint /\ "white" \in Paint
BY ThemeAssumption, Zenon

\* theme_defaults makes a style.
LEMMA DefaultsFit == Defaults \in Styles
<1>1. Colours \cap Numbers = {}
  BY DEF Colours, Numbers
<1>2. \A k \in Colours : Defaults[k] \in Paint
  BY DefaultsAre, PaintIs DEF Colours
<1>3. \A k \in Numbers : Defaults[k] \in Limits[k][1]..Limits[k][2] /\ Defaults[k] \in Int
  BY DefaultsAre, LimitsAre DEF Numbers
<1>4. \A k \in Properties \ (Colours \cup Numbers) : Defaults[k] \in ChoiceWords
  BY DefaultsAre DEF ChoiceWords
<1>5. \A k \in Properties : Fits(k, Defaults[k])
  BY <1>1, <1>2, <1>3, <1>4 DEF Fits
<1>6. Defaults = [k \in Properties |-> Defaults[k]]
  <2>1. \A f : Keyed(f) = [k \in DOMAIN Keyed(f) |-> Keyed(f)[k]]
    BY DEF Keyed
  <2>2. \E f : Defaults = Keyed(f)
    BY Zenon DEF Defaults
  <2>3. QED BY <2>1, <2>2, Zenon DEF Properties
<1>7. QED BY <1>5, <1>6 DEF Styles, Fits

-----------------------------------------------------------------------------
(* Texts and what they are read as.                                        *)

Spelled == STRING \cup ChoiceWords \cup {""}

Marks == {"{", "}", ":", ";", "line"}

Tokens == [kind : Marks] \cup [kind : {"word"}, v : Spelled]
          \cup [kind : {"hash"}, v : Paint] \cup [kind : {"number"}, n : Int]

\* What a token holds.
LEMMA TokenIs ==
    ASSUME NEW t \in Tokens
    PROVE  /\ t.kind = "number" => t.n \in Int
           /\ t.kind = "hash" => t.v \in Paint
           /\ t.kind = "word" => t.v \in Spelled
BY DEF Tokens, Marks

\* What is a token.
LEMMA TokensAre ==
    /\ \A m \in Marks : Mark(m) \in Tokens
    /\ \A w \in Spelled : Word(w) \in Tokens
    /\ \A c \in Paint : Hash(c) \in Tokens
    /\ \A n \in Int : Number(n) \in Tokens
BY DEF Tokens, Mark, Word, Hash, Number

\* A declaration leaves a style that is one.
LEMMA PutFits ==
    ASSUME NEW s \in Styles, NEW key \in Properties, NEW v, Fits(key, v)
    PROVE  [s EXCEPT ![key] = v] \in Styles
<1> DEFINE V == Paint \cup Int \cup ChoiceWords
           r == [s EXCEPT ![key] = v]
<1>1. s \in [Properties -> V] /\ \A k \in Properties : Fits(k, s[k])
  BY DEF Styles
<1>2. v \in V
  BY DEF Fits
<1> HIDE DEF V
<1>3. r \in [Properties -> V]
  BY <1>1, <1>2
<1>4. \A k \in Properties : r[k] = (IF k = key THEN v ELSE s[k])
  BY <1>1
<1> HIDE DEF r
<1>5. \A k \in Properties : Fits(k, r[k])
  BY <1>1, <1>4, Zenon
<1>6. QED BY <1>3, <1>5 DEF Styles, V, r

\* A property is a colour, a number or a choice.
LEMMA KeysApart ==
    /\ Colours \cap Numbers = {}
    /\ Colours \cup Numbers \subseteq Properties
    /\ \A k \in {<<"desktop", "wallpaper">>, <<"taskbar", "visible">>, <<"taskbar", "position">>} :
          k \in Properties /\ k \notin Colours \cup Numbers
BY DefaultsAre DEF Colours, Numbers

\* Whatever is declared of whatever property, a style stays one.
LEMMA ApplyFits ==
    ASSUME NEW s \in Styles, NEW key, NEW x \in Seq(Tokens)
    PROVE  Apply(s, key, x) \in Styles
<1>1. CASE key \in Colours
  <2>1. ASSUME Colour(x) PROVE x[1].v \in Paint
    <3>1. Len(x) = 1
      BY <2>1 DEF Colour
    <3>2. x[1] \in Tokens
      BY <3>1
    <3>3. x[1].kind = "hash" \/ x[1].v \in Named
      BY <2>1 DEF Colour, IsWord
    <3>4. QED BY <3>2, <3>3, TokenIs, PaintIs
  <2>2. Apply(s, key, x) = IF Colour(x) THEN [s EXCEPT ![key] = x[1].v] ELSE s
    BY <1>1, KeysApart, LimitsAre DEF Apply
  <2>3. ASSUME Colour(x) PROVE Fits(key, x[1].v)
    BY <1>1, <2>1, <2>3, KeysApart DEF Fits
  <2>4. key \in Properties
    BY <1>1, KeysApart
  <2>5. QED BY <2>2, <2>3, <2>4, PutFits
<1>2. CASE key \in Numbers
  <2> DEFINE n == Atoi(x)
             l == Limits[key]
             v == Clamp(n, l)
  <2>1. n \in Int
    <3>1. x # <<>> => x[1] \in Tokens
      OBVIOUS
    <3>2. QED BY <3>1, TokenIs DEF Atoi
  <2>2. l[1] \in Int /\ l[2] \in Int /\ l[1] <= l[2]
    BY <1>2, LimitsAre DEF Numbers
  <2> HIDE DEF n, l
  <2>3. v \in l[1]..l[2] /\ v \in Int
    BY <2>1, <2>2 DEF Clamp
  <2>4. key \in Properties /\ key \notin Colours /\ DOMAIN Limits = Numbers
    BY <1>2, KeysApart, LimitsAre
  <2>5. Apply(s, key, x) = [s EXCEPT ![key] = v]
    <3>1. Apply(s, key, x) = [s EXCEPT ![key] = Clamp(Atoi(x), Limits[key])]
      BY <1>2, <2>4, KeysApart DEF Apply
    <3>2. QED BY <3>1, Zenon DEF n, l
  <2> HIDE DEF v
  <2>6. Fits(key, v)
    BY <1>2, <2>3, <2>4 DEF Fits, l
  <2>7. QED BY <2>4, <2>5, <2>6, PutFits
<1>3. CASE key = <<"desktop", "wallpaper">>
  <2> DEFINE v == Choice(x, {"gradient", "grid", "solid"}, "aurora")
  <2>1. v \in ChoiceWords
    BY DEF Choice, IsWord, ChoiceWords
  <2>2. key \in Properties /\ key \notin Colours /\ key \notin Numbers /\ DOMAIN Limits = Numbers
    BY <1>3, KeysApart, LimitsAre
  <2>3. Apply(s, key, x) = [s EXCEPT ![key] = v]
    BY <1>3, <2>2 DEF Apply
  <2> HIDE DEF v
  <2>4. Fits(key, v)
    BY <2>1, <2>2 DEF Fits
  <2>5. QED BY <2>2, <2>3, <2>4, PutFits
<1>4. CASE key = <<"taskbar", "visible">>
  <2> DEFINE v == IF IsTrue(x) THEN "true" ELSE "false"
  <2>1. v \in ChoiceWords
    BY DEF ChoiceWords
  <2>2. key \in Properties /\ key \notin Colours /\ key \notin Numbers /\ DOMAIN Limits = Numbers
    BY <1>4, KeysApart, LimitsAre
  <2>3. Apply(s, key, x) = [s EXCEPT ![key] = v]
    BY <1>4, <2>2 DEF Apply
  <2> HIDE DEF v
  <2>4. Fits(key, v)
    BY <2>1, <2>2 DEF Fits
  <2>5. QED BY <2>2, <2>3, <2>4, PutFits
<1>5. CASE key = <<"taskbar", "position">>
  <2> DEFINE v == Choice(x, {"top"}, "bottom")
  <2>1. v \in ChoiceWords
    BY DEF Choice, IsWord, ChoiceWords
  <2>2. key \in Properties /\ key \notin Colours /\ key \notin Numbers /\ DOMAIN Limits = Numbers
    BY <1>5, KeysApart, LimitsAre
  <2>3. Apply(s, key, x) = [s EXCEPT ![key] = v]
    BY <1>5, <2>2 DEF Apply
  <2> HIDE DEF v
  <2>4. Fits(key, v)
    BY <2>1, <2>2 DEF Fits
  <2>5. QED BY <2>2, <2>3, <2>4, PutFits
<1>6. CASE /\ key \notin Colours /\ key \notin Numbers
           /\ key \notin {<<"desktop", "wallpaper">>, <<"taskbar", "visible">>, <<"taskbar", "position">>}
  <2>1. DOMAIN Limits = Numbers
    BY LimitsAre
  <2>2. Apply(s, key, x) = s
    BY <1>6, <2>1 DEF Apply
  <2>3. QED BY <2>2
<1>7. QED BY <1>1, <1>2, <1>3, <1>4, <1>5, <1>6

Places == {"selector", "open", "property", "colon", "start", "value", "junk"}

States == [at : Places, comment : BOOLEAN, sel : Spelled, prop : Spelled,
           val : Seq(Tokens), style : Styles]

\* The parser stays in its states: when it declares, ...
LEMMA DeclareType == ASSUME NEW p \in States PROVE Declare(p) \in States
<1>1. p.style \in Styles /\ p.val \in Seq(Tokens)
  BY DEF States
<1>2. Apply(p.style, <<p.sel, p.prop>>, p.val) \in Styles
  BY <1>1, ApplyFits
<1>3. <<>> \in Seq(Tokens)
  OBVIOUS
<1>4. QED BY <1>2, <1>3 DEF Declare, States

\* ... in a value, ...
LEMMA ReadValueType ==
    ASSUME NEW p \in States, NEW tok \in Tokens
    PROVE  ReadValue(p, tok) \in States
<1>1. Append(p.val, tok) \in Seq(Tokens)
  BY DEF States
<1>2. [p EXCEPT !.val = Append(@, tok), !.at = "value"] \in States
  BY <1>1 DEF States, Places
<1>3. /\ [Declare(p) EXCEPT !.at = "property"] \in States
      /\ [Declare(p) EXCEPT !.at = "selector"] \in States
  BY DeclareType DEF States, Places
<1>4. QED BY <1>2, <1>3 DEF ReadValue

\* ... and at any token.
LEMMA ReadType ==
    ASSUME NEW p \in States, NEW tok \in Tokens
    PROVE  Read(p, tok) \in States
<1>1. /\ \A a \in Places : [p EXCEPT !.at = a] \in States
      /\ \A a \in Places, w \in Spelled : /\ [p EXCEPT !.sel = w, !.at = a] \in States
                                          /\ [p EXCEPT !.prop = w, !.at = a] \in States
  BY DEF States
<1>2. p.at \in Places /\ "" \in Spelled
  BY DEF States, Spelled
<1>3. Name(tok) \in Spelled
  BY <1>2, TokenIs DEF Name
<1>4. Skip(p, tok) \in States
  BY DEF Skip, States
<1>5. ReadValue(p, tok) \in States
  BY ReadValueType
<1>6. ReadOn(p, tok) \in States
  BY <1>1 DEF ReadOn, Places
<1> DEFINE W == ""
<1> HIDE DEF W
<1>7. QED BY <1>1, <1>2, <1>3, <1>4, <1>5, <1>6 DEF Read, Places

After(p, text) == FoldLeft(Read, p, text)

\* Reading a text is reading its tokens one after the other.
LEMMA ReadSteps ==
    ASSUME NEW p \in States, NEW text \in Seq(Tokens)
    PROVE  /\ After(p, text) \in States
           /\ \E h \in [0..Len(text) -> States] :
                /\ h[0] = p /\ h[Len(text)] = After(p, text)
                /\ \A i \in 1..Len(text) : h[i] = Read(h[i - 1], text[i])
<1> DEFINE N == Len(text)
           r == After(p, text)
           A == 1..N
           F == [q \in States \X A |-> Read(q[1], text[q[2]])]
           Eq(f) == f = [s \in SUBSET A |->
                            IF s = {} THEN p ELSE Read(f[s \ {Greatest(s)}], text[Greatest(s)])]
           iter == CHOOSE f : Eq(f)
<1>1. N \in Nat /\ DOMAIN text = A /\ A = 1..N /\ \A i \in A : text[i] \in Tokens
  OBVIOUS
<1> HIDE DEF N, A
<1>2. ASSUME NEW x \in States, NEW i \in A PROVE Read(x, text[i]) \in States
  BY <1>1, ReadType
<1>3. /\ F \in [States \X A -> States]
      /\ \A x \in States, i \in A : F[<<x, i>>] = Read(x, text[i])
  <2>1. QED BY <1>2
<1> HIDE DEF F
<1>4. Eq(iter)
  <2>1. PICK f \in [SUBSET A -> States] : IsSeqFold(f, A, p, F)
    BY <1>1, <1>3, SeqFoldsExist
  <2>2. ASSUME NEW s \in SUBSET A, s # {}
        PROVE  F[<<f[s \ {Greatest(s)}], Greatest(s)>>] = Read(f[s \ {Greatest(s)}], text[Greatest(s)])
    <3>1. Greatest(s) \in A
      BY <1>1, <2>2, InitialSegments
    <3>2. f[s \ {Greatest(s)}] \in States
      OBVIOUS
    <3>3. QED BY <1>3, <3>1, <3>2
  <2>3. Eq(f)
    BY <2>1, <2>2 DEF IsSeqFold
  <2>4. QED
    <3> HIDE DEF Eq
    <3>1. QED BY <2>3
<1>5. r = iter[A]
  BY <1>1, Zenon DEF After, FoldLeft, MapThenFoldSet, Max, Greatest
<1> HIDE DEF iter, r
<1>6. FoldsAs(iter, N, A, States, p, F)
  <2>1. iter[{}] = p
    BY <1>4
  <2>2. ASSUME NEW s \in SUBSET A, s # {}, iter[s \ {Greatest(s)}] \in States
        PROVE  iter[s] = F[<<iter[s \ {Greatest(s)}], Greatest(s)>>]
    <3>1. Greatest(s) \in A
      BY <1>1, <2>2, InitialSegments
    <3>2. iter[s] = Read(iter[s \ {Greatest(s)}], text[Greatest(s)])
      BY <1>4, <2>2
    <3>3. QED BY <1>3, <2>2, <3>1, <3>2
  <2> HIDE DEF Eq
  <2>3. QED BY <1>1, <1>3, <2>1, <2>2 DEF FoldsAs
<1>7. PICK h : Reaches(h, N, States, p, F, r)
  BY <1>5, <1>6, FoldReaches
<1>8. /\ h \in [0..N -> States] /\ h[0] = p /\ h[N] = r
      /\ \A i \in 1..N : h[i] = F[<<h[i - 1], i>>] /\ h[i - 1] \in States
  BY <1>7 DEF Reaches
<1>9. \A i \in 1..N : h[i] = Read(h[i - 1], text[i])
  BY <1>1, <1>3, <1>8
<1>10. r \in States
  BY <1>1, <1>8
<1>11. QED BY <1>8, <1>9, <1>10 DEF N, r

-----------------------------------------------------------------------------
(* Texts are put together from parts.                                      *)

\* Putting the parts of a text together, one after the other.
Joins(f, s) ==
    f = [i \in 1..Len(s) |-> IF i = 1 THEN s[i] ELSE f[i - 1] \o s[i]]

\* FlattenSeq's recursion has a solution, ...
LEMMA JoinsExist ==
    ASSUME NEW T, NEW s \in Seq(Seq(T)) PROVE \E f : Joins(f, s)
<1> DEFINE N == Len(s)
           D == Seq(T)
           F == [q \in D \X Nat |-> IF q[2] \in 1..N THEN q[1] \o s[q[2]] ELSE q[1]]
<1>1. N \in Nat /\ \A i \in 1..N : s[i] \in D
  OBVIOUS
<1>2. <<>> \in D /\ \A x \in D, y \in D : x \o y \in D
  OBVIOUS
<1>3. \A y \in D : <<>> \o y = y
  OBVIOUS
<1> HIDE DEF N, D
<1>4. /\ F \in [D \X Nat -> D]
      /\ \A x \in D, i \in 1..N : F[<<x, i>>] = x \o s[i]
  <2>1. \A i \in 1..N : i \in Nat
    BY <1>1
  <2>2. ASSUME NEW q \in D \X Nat
        PROVE  (IF q[2] \in 1..N THEN q[1] \o s[q[2]] ELSE q[1]) \in D
    <3>1. q[1] \in D
      OBVIOUS
    <3>2. QED BY <1>1, <1>2, <3>1
  <2>3. F \in [D \X Nat -> D]
    BY <2>2
  <2>4. ASSUME NEW x \in D, NEW i \in 1..N PROVE F[<<x, i>>] = x \o s[i]
    <3>1. <<x, i>> \in D \X Nat /\ <<x, i>>[1] = x /\ <<x, i>>[2] = i
      BY <2>1
    <3>2. QED BY <3>1
  <2>5. QED BY <2>3, <2>4
<1>5. PICK f \in [0..N -> D] : Recurs(f, N, <<>>, F)
  <2> HIDE DEF F
  <2>1. QED BY <1>1, <1>2, <1>4, RecursionUpTo
<1>6. f[0] = <<>> /\ \A i \in 1..N : f[i] = f[i - 1] \o s[i]
  <2> HIDE DEF F
  <2>1. f[0] = <<>> /\ \A i \in 1..N : f[i] = F[<<f[i - 1], i>>] /\ f[i - 1] \in D
    BY <1>1, <1>4, <1>5, RecursionSteps
  <2>2. QED BY <1>4, <2>1
<1> DEFINE e == [i \in 1..N |-> f[i]]
<1>7. ASSUME NEW i \in 1..N PROVE e[i] = IF i = 1 THEN s[i] ELSE e[i - 1] \o s[i]
  <2>1. CASE i = 1
    BY <1>1, <1>3, <1>6, <2>1
  <2>2. CASE i # 1
    <3>1. i - 1 \in 1..N
      BY <1>1, <2>2
    <3>2. QED BY <1>6, <2>2, <3>1
  <2>3. QED BY <2>1, <2>2
<1>8. Joins(e, s)
  <2>1. e = [i \in 1..N |-> e[i]]
    OBVIOUS
  <2> HIDE DEF e
  <2>2. QED BY <1>7, <2>1 DEF Joins, N
<1>9. QED
  <2> HIDE DEF e
  <2>1. QED BY <1>8

\* ... which puts the parts together one after the other.
LEMMA FlattenSteps ==
    ASSUME NEW T, NEW s \in Seq(Seq(T))
    PROVE  \E h \in [0..Len(s) -> Seq(T)] :
               /\ h[0] = <<>> /\ h[Len(s)] = FlattenSeq(s)
               /\ \A i \in 1..Len(s) : h[i] = h[i - 1] \o s[i]
<1> DEFINE N == Len(s)
           D == Seq(T)
           f == CHOOSE x : Joins(x, s)
           h == [i \in 0..N |-> IF i = 0 THEN <<>> ELSE f[i]]
           S == {i \in 0..N : h[i] \in D}
<1>1. N \in Nat /\ \A i \in 1..N : s[i] \in D
  OBVIOUS
<1>2. <<>> \in D /\ (\A x \in D, y \in D : x \o y \in D) /\ \A y \in D : <<>> \o y = y
  OBVIOUS
<1>3. FlattenSeq(s) = IF N = 0 THEN s ELSE f[N]
  BY Zenon DEF FlattenSeq, Joins
<1>4. N = 0 => s = <<>>
  OBVIOUS
<1>5. Joins(f, s)
  BY JoinsExist
<1> HIDE DEF f, N, D
<1>6. \A i \in 1..N : f[i] = IF i = 1 THEN s[i] ELSE f[i - 1] \o s[i]
  BY <1>5 DEF Joins, N
<1>7. \A i \in 1..N : h[i] = h[i - 1] \o s[i]
  <2>1. ASSUME NEW i \in 1..N PROVE h[i] = h[i - 1] \o s[i]
    <3>1. i \in 0..N /\ i - 1 \in 0..N /\ i # 0
      BY <1>1
    <3>2. CASE i = 1
      <4>1. h[i] = f[i] /\ h[i - 1] = <<>> /\ f[i] = s[i] /\ s[i] \in D
        BY <1>1, <1>6, <3>1, <3>2
      <4>2. QED BY <1>2, <4>1
    <3>3. CASE i # 1
      <4>1. i - 1 # 0
        BY <3>3
      <4>2. QED BY <1>6, <3>1, <3>3, <4>1
    <3>4. QED BY <3>2, <3>3
  <2>2. QED BY <2>1
<1>8. h[0] = <<>> /\ h[N] = FlattenSeq(s)
  BY <1>1, <1>3, <1>4
<1>9. h = [i \in 0..N |-> h[i]]
  OBVIOUS
<1> HIDE DEF h
<1>10. 0..N \subseteq S
  <2>1. 0 \in S
    BY <1>1, <1>2, <1>8
  <2>2. ASSUME NEW i \in 0..(N - 1), i \in S PROVE i + 1 \in S
    <3>1. i + 1 \in 1..N /\ (i + 1) - 1 = i
      BY <1>1
    <3>2. h[i + 1] = h[i] \o s[i + 1] /\ s[i + 1] \in D /\ h[i] \in D
      BY <1>1, <1>7, <2>2, <3>1
    <3>3. h[i + 1] \in D
      BY <1>2, <3>2
    <3>4. QED BY <1>1, <3>1, <3>3
  <2> HIDE DEF S
  <2>3. QED BY <1>1, <2>1, <2>2, InductionUpTo
<1>11. h \in [0..N -> D]
  BY <1>9, <1>10
<1>12. QED BY <1>7, <1>8, <1>11 DEF N, D

\* Texts put together are a text.
LEMMA FlattenType ==
    ASSUME NEW T, NEW s \in Seq(Seq(T)) PROVE FlattenSeq(s) \in Seq(T)
<1>1. PICK h \in [0..Len(s) -> Seq(T)] : h[Len(s)] = FlattenSeq(s)
  BY FlattenSteps, Zenon
<1>2. Len(s) \in 0..Len(s)
  OBVIOUS
<1>3. QED BY <1>1, <1>2

Blocks == Spelled \X (Seq(Spelled \X Tokens) \ {<<>>})

Decl(d) == <<Word(d[1]), Mark(":"), d[2], Mark(";")>>
DeclOpen(d) == <<Word(d[1]), Mark(":"), d[2]>>
Opening(sel) == <<Word(sel), Mark("{")>>

\* Words that can be typed and words that are choices are spelled.
LEMMA SpelledHas == STRING \subseteq Spelled /\ ChoiceWords \subseteq Spelled
BY Zenon DEF Spelled

\* Short texts.
LEMMA ShortSeqs ==
    ASSUME NEW T, NEW a \in T, NEW b \in T, NEW c \in T, NEW d \in T
    PROVE  <<a>> \in Seq(T) /\ <<a, b>> \in Seq(T) /\ <<a, b, c>> \in Seq(T) /\ <<a, b, c, d>> \in Seq(T)
OBVIOUS

\* The parts of a block are texts.
LEMMA PartTypes ==
    /\ \A d \in Spelled \X Tokens : Decl(d) \in Seq(Tokens) /\ DeclOpen(d) \in Seq(Tokens)
    /\ \A sel \in Spelled : Opening(sel) \in Seq(Tokens)
    /\ <<Mark("}")>> \in Seq(Tokens) /\ <<Mark("line")>> \in Seq(Tokens)
<1>1. /\ Mark("{") \in Tokens /\ Mark("}") \in Tokens /\ Mark(":") \in Tokens /\ Mark(";") \in Tokens
      /\ Mark("line") \in Tokens
  BY TokensAre DEF Marks
<1>2. ASSUME NEW d \in Spelled \X Tokens PROVE Decl(d) \in Seq(Tokens) /\ DeclOpen(d) \in Seq(Tokens)
  <2>1. Word(d[1]) \in Tokens /\ d[2] \in Tokens
    BY TokensAre
  <2>2. QED BY <1>1, <2>1, ShortSeqs, Zenon DEF Decl, DeclOpen
<1>3. ASSUME NEW sel \in Spelled PROVE Opening(sel) \in Seq(Tokens)
  <2>1. Word(sel) \in Tokens
    BY TokensAre
  <2>2. QED BY <1>1, <2>1, ShortSeqs, Zenon DEF Opening
<1>4. <<Mark("}")>> \in Seq(Tokens) /\ <<Mark("line")>> \in Seq(Tokens)
  BY <1>1, ShortSeqs, Zenon
<1>5. QED BY <1>2, <1>3, <1>4, Zenon

\* A block with line ends or without them.
LEMMA BlockType ==
    ASSUME NEW sel \in Spelled, NEW decls \in Seq(Spelled \X Tokens), NEW end \in Seq(Tokens)
    PROVE  Block(sel, decls, end) \in Seq(Tokens)
<1> DEFINE s == [i \in DOMAIN decls |-> Decl(decls[i]) \o end]
           T == Seq(Tokens)
<1>1. DOMAIN decls = 1..Len(decls) /\ Len(decls) \in Nat
  OBVIOUS
<1>2. \A x \in T, y \in T : x \o y \in T
  OBVIOUS
<1>3. \A i \in DOMAIN decls : Decl(decls[i]) \in T
  <2>1. \A i \in DOMAIN decls : decls[i] \in Spelled \X Tokens
    OBVIOUS
  <2>2. QED BY <2>1, PartTypes, Zenon
<1> HIDE DEF T
<1>4. \A i \in DOMAIN decls : Decl(decls[i]) \o end \in T
  BY <1>2, <1>3 DEF T
<1>5. s \in Seq(T)
  BY <1>1, <1>4
<1> HIDE DEF s
<1>6. FlattenSeq(s) \in T
  BY <1>5, FlattenType DEF T
<1>7. Block(sel, decls, end) = (((Opening(sel) \o end) \o FlattenSeq(s)) \o <<Mark("}")>>) \o end
  BY Zenon DEF Block, Opening, Decl, s
<1>8. Opening(sel) \in T /\ <<Mark("}")>> \in T /\ end \in T
  BY PartTypes DEF T
<1>9. QED BY <1>2, <1>6, <1>7, <1>8 DEF T

\* What theme_save writes for a property is a token.
LEMMA ValueType == ASSUME NEW s \in Styles, NEW k \in Properties PROVE Value(s, k) \in Tokens
<1>1. Fits(k, s[k])
  BY DEF Styles
<1>2. DOMAIN Limits = Numbers /\ Colours \cap Numbers = {}
  BY LimitsAre, KeysApart
<1>3. CASE k \in Colours
  <2>1. Value(s, k) = Hash(s[k])
    BY <1>2, <1>3 DEF Value
  <2>2. QED BY <1>1, <1>3, <2>1, TokensAre DEF Fits
<1>4. CASE k \in Numbers
  <2>1. Value(s, k) = Number(s[k])
    BY <1>2, <1>4 DEF Value
  <2>2. s[k] \in Int
    BY <1>1, <1>4, LimitsAre DEF Fits, Numbers
  <2>3. QED BY <2>1, <2>2, TokensAre
<1>5. CASE k \notin Colours \cup Numbers
  <2>1. Value(s, k) = Word(s[k])
    BY <1>2, <1>5 DEF Value
  <2>2. s[k] \in Spelled
    BY <1>1, <1>5, SpelledHas DEF Fits
  <2>3. QED BY <2>1, <2>2, TokensAre
<1>6. QED BY <1>3, <1>4, <1>5

\* theme_save writes a text.
LEMMA SheetType == ASSUME NEW s \in Styles PROVE SheetOf(s) \in Seq(Tokens)
<1> DEFINE D(b) == [i \in DOMAIN Sheet[b][2] |->
                       <<Sheet[b][2][i], Value(s, <<Sheet[b][1], Sheet[b][2][i]>>)>>]
           B(b) == Block(Sheet[b][1], D(b), <<Mark("line")>>)
           T == Seq(Tokens)
<1>1. Sheet \in Seq(STRING \X Seq(STRING))
  BY ThemeAssumption, Zenon
<1>2. /\ DOMAIN Sheet = 1..Len(Sheet) /\ Len(Sheet) \in Nat
      /\ \A b \in DOMAIN Sheet : Sheet[b][1] \in STRING /\ Sheet[b][2] \in Seq(STRING)
  BY <1>1
<1>3. ASSUME NEW b \in DOMAIN Sheet PROVE B(b) \in T
  <2> DEFINE props == Sheet[b][2]
             sel == Sheet[b][1]
  <2>1. props \in Seq(STRING) /\ sel \in STRING
    BY <1>2
  <2>2. \A i \in DOMAIN props : <<sel, props[i]>> \in Properties
    BY ThemeAssumption, Zenon DEF Properties
  <2> HIDE DEF props, sel
  <2>3. \A i \in DOMAIN props : Value(s, <<sel, props[i]>>) \in Tokens
    BY <2>2, ValueType
  <2>4. \A i \in DOMAIN props : props[i] \in Spelled
    <3>1. \A i \in DOMAIN props : props[i] \in STRING
      <4> DEFINE Z == STRING
      <4>1. props \in Seq(Z)
        BY <2>1
      <4> HIDE DEF Z
      <4>2. \A i \in DOMAIN props : props[i] \in Z
        BY <4>1
      <4>3. QED BY <4>2 DEF Z
    <3>2. QED BY <3>1, SpelledHas, Zenon
  <2>5. sel \in Spelled
    BY <2>1, SpelledHas
  <2> DEFINE e == [i \in DOMAIN props |-> <<props[i], Value(s, <<sel, props[i]>>)>>]
  <2>6. e \in Seq(Spelled \X Tokens)
    <3>1. DOMAIN props = 1..Len(props) /\ Len(props) \in Nat
      BY <2>1
    <3>2. \A i \in DOMAIN props : <<props[i], Value(s, <<sel, props[i]>>)>> \in Spelled \X Tokens
      BY <2>3, <2>4
    <3> DEFINE P == Spelled \X Tokens
    <3> HIDE DEF P
    <3>3. QED BY <3>1, <3>2 DEF P
  <2>7. <<Mark("line")>> \in Seq(Tokens)
    BY PartTypes
  <2>8. Block(sel, e, <<Mark("line")>>) \in Seq(Tokens)
    <3> HIDE DEF e
    <3>1. QED BY <2>5, <2>6, <2>7, BlockType
  <2>9. QED BY <2>8 DEF props, sel
<1> DEFINE q == [b \in DOMAIN Sheet |-> B(b)]
<1>4. SheetOf(s) = FlattenSeq(q)
  BY Zenon DEF SheetOf
<1>5. q \in Seq(T)
  <2> HIDE DEF B, T
  <2>1. QED BY <1>2, <1>3
<1> HIDE DEF q
<1>6. QED BY <1>4, <1>5, FlattenType

\* Removing the last token but one.
LEMMA RemoveNextToLast ==
    ASSUME NEW T, NEW s \in Seq(T), NEW x \in T, NEW y \in T,
           NEW text, text = s \o <<x, y>>
    PROVE  RemoveAt(text, Len(text) - 1) = s \o <<y>>
<1> DEFINE n == Len(s)
           pair == <<x, y>>
<1>1. /\ n \in Nat /\ pair \in Seq(T) /\ Len(pair) = 2 /\ pair[2] = y
      /\ text \in Seq(T) /\ Len(text) = n + 2
  OBVIOUS
<1>2. RemoveAt(text, Len(text) - 1) = SubSeq(text, 1, n) \o SubSeq(text, n + 2, n + 2)
  <2>1. (Len(text) - 1) - 1 = n /\ (Len(text) - 1) + 1 = n + 2
    BY <1>1
  <2>2. QED BY <1>1, <2>1 DEF RemoveAt
<1> DEFINE a == SubSeq(text, 1, n)
           b == SubSeq(text, n + 2, n + 2)
<1>3. \A i \in 1..(n + 2) : text[i] \in T /\ text[i] = IF i <= n THEN s[i] ELSE pair[i - n]
  OBVIOUS
<1> HIDE DEF pair
<1>4. a \in Seq(T) /\ Len(a) = n /\ \A i \in 1..n : a[i] = text[i]
  <2>1. \A i \in 1..n : text[i] \in T
    BY <1>1, <1>3
  <2>2. /\ a \in Seq(T) /\ Len(a) = IF 1 <= n THEN n - 1 + 1 ELSE 0
        /\ \A i \in 1..(n - 1 + 1) : a[i] = text[1 + i - 1]
    BY <1>1, <2>1, SubSeqProperties
  <2> HIDE DEF a, n
  <2>3. \A i \in 1..n : 1 + i - 1 = i
    BY <1>1
  <2>4. QED BY <1>1, <2>2, <2>3
<1>5. b \in Seq(T) /\ Len(b) = 1 /\ b[1] = y
  <2>1. \A i \in (n + 2)..(n + 2) : text[i] \in T
    BY <1>1, <1>3
  <2>2. /\ b \in Seq(T) /\ Len(b) = IF n + 2 <= n + 2 THEN (n + 2) - (n + 2) + 1 ELSE 0
        /\ \A i \in 1..((n + 2) - (n + 2) + 1) : b[i] = text[n + 2 + i - 1]
    BY <1>1, <2>1, SubSeqProperties
  <2> HIDE DEF b, n
  <2>3. Len(b) = 1 /\ b[1] = text[n + 2]
    <3>1. /\ (n + 2) - (n + 2) + 1 = 1 /\ n + 2 + 1 - 1 = n + 2 /\ n + 2 <= n + 2
      BY <1>1
    <3>2. 1 \in 1..((n + 2) - (n + 2) + 1)
      BY <3>1
    <3>3. b[1] = text[n + 2 + 1 - 1]
      BY <2>2, <3>2
    <3>4. QED BY <2>2, <3>1, <3>3
  <2>4. text[n + 2] = y
    <3>1. n + 2 \in 1..(n + 2) /\ ~(n + 2 <= n) /\ (n + 2) - n = 2
      BY <1>1
    <3>2. text[n + 2] = pair[(n + 2) - n]
      BY <1>3, <3>1
    <3>3. QED BY <1>1, <3>1, <3>2
  <2>5. QED BY <2>2, <2>3, <2>4
<1> HIDE DEF a, b
<1>6. a = s
  <2>1. \A i \in 1..n : a[i] = s[i]
    BY <1>1, <1>3, <1>4
  <2>2. QED BY <1>4, <2>1, SeqEqual
<1>7. b = <<y>>
  BY <1>5
<1>8. QED BY <1>2, <1>6, <1>7 DEF a, b

\* The text of a block on one line: its declarations are joined one by one, and
\* without its last semicolon it ends in an open one.
Parts(h, decls) ==
    /\ h \in [0..Len(decls) -> Seq(Tokens)] /\ h[0] = <<>>
    /\ \A i \in 1..Len(decls) : h[i] = h[i - 1] \o Decl(decls[i])

Closed(sel, h, n) == (Opening(sel) \o h[n]) \o <<Mark("}")>>

Unclosed(sel, decls, h, n) ==
    ((Opening(sel) \o h[n - 1]) \o DeclOpen(decls[n])) \o <<Mark("}")>>

\* Putting nothing in between changes nothing.
LEMMA JoinNothing ==
    ASSUME NEW T, NEW a \in Seq(T), NEW b \in Seq(T), NEW c \in Seq(T)
    PROVE  (((a \o <<>>) \o b) \o c) \o <<>> = (a \o b) \o c
<1>1. a \o <<>> = a
  OBVIOUS
<1>2. (a \o b) \o c \in Seq(T)
  OBVIOUS
<1> DEFINE s == (a \o b) \o c
<1>3. s \o <<>> = s
  <2>1. s \in Seq(T)
    BY <1>2
  <2> HIDE DEF s
  <2>2. QED BY <2>1
<1>4. QED BY <1>1, <1>3, Zenon

\* A block on one line is its opening, its declarations and its end; without the
\* last semicolon the last declaration is open.
LEMMA BlockParts ==
    ASSUME NEW sel \in Spelled, NEW decls \in Seq(Spelled \X Tokens), decls # <<>>
    PROVE  \E h : /\ Parts(h, decls)
                  /\ Block(sel, decls, <<>>) = Closed(sel, h, Len(decls))
                  /\ RemoveAt(Block(sel, decls, <<>>), Len(Block(sel, decls, <<>>)) - 1)
                       = Unclosed(sel, decls, h, Len(decls))
<1> DEFINE s == [i \in DOMAIN decls |-> Decl(decls[i]) \o <<>>]
           T == Seq(Tokens)
           n == Len(decls)
<1>1. DOMAIN decls = 1..n /\ n \in Nat \ {0} /\ \A i \in 1..n : decls[i] \in Spelled \X Tokens
  OBVIOUS
<1> HIDE DEF n
<1>2. ASSUME NEW i \in 1..n
      PROVE  Decl(decls[i]) \in T /\ DeclOpen(decls[i]) \in T /\ Decl(decls[i]) \o <<>> = Decl(decls[i])
  <2>1. Decl(decls[i]) \in T /\ DeclOpen(decls[i]) \in T
    BY <1>1, PartTypes, Zenon
  <2> DEFINE d == Decl(decls[i])
  <2> HIDE DEF d
  <2>2. d \o <<>> = d
    <3>1. d \in Seq(Tokens)
      BY <2>1, Zenon DEF d
    <3>2. QED BY <3>1
  <2>3. QED BY <2>1, <2>2 DEF d
<1> HIDE DEF T
<1>3. s \in Seq(T) /\ Len(s) = n /\ \A i \in 1..n : s[i] = Decl(decls[i])
  BY <1>1, <1>2
<1> HIDE DEF s
<1>4. PICK h \in [0..n -> T] : /\ h[0] = <<>> /\ h[n] = FlattenSeq(s)
                               /\ \A i \in 1..n : h[i] = h[i - 1] \o s[i]
  BY <1>3, FlattenSteps DEF T
<1>5. Parts(h, decls)
  BY <1>3, <1>4 DEF Parts, T, n
<1>6. /\ Opening(sel) \in T /\ <<Mark("}")>> \in T /\ h[n] \in T /\ h[n - 1] \in T
      /\ Mark("}") \in Tokens /\ Mark(";") \in Tokens /\ Mark(":") \in Tokens
  <2>1. n \in 0..n /\ n - 1 \in 0..n
    BY <1>1
  <2>2. h[n] \in T /\ h[n - 1] \in T
    BY <1>4, <2>1
  <2>3. Mark("}") \in Tokens /\ Mark(";") \in Tokens /\ Mark(":") \in Tokens
    BY TokensAre DEF Marks
  <2>4. QED BY <2>2, <2>3, PartTypes, Zenon DEF T
<1> DEFINE text == Block(sel, decls, <<>>)
<1>7. text = Closed(sel, h, n)
  <2>1. text = (((Opening(sel) \o <<>>) \o FlattenSeq(s)) \o <<Mark("}")>>) \o <<>>
    BY Zenon DEF Block, Opening, Decl, s
  <2>2. text = (((Opening(sel) \o <<>>) \o h[n]) \o <<Mark("}")>>) \o <<>>
    BY <1>4, <2>1, Zenon
  <2>3. (((Opening(sel) \o <<>>) \o h[n]) \o <<Mark("}")>>) \o <<>> = (Opening(sel) \o h[n]) \o <<Mark("}")>>
    <3> DEFINE a == Opening(sel)
               b == h[n]
               c == <<Mark("}")>>
    <3>1. a \in Seq(Tokens) /\ b \in Seq(Tokens) /\ c \in Seq(Tokens)
      BY <1>6, Zenon DEF T
    <3> HIDE DEF a, b, c
    <3>2. (((a \o <<>>) \o b) \o c) \o <<>> = (a \o b) \o c
      BY <3>1, JoinNothing
    <3>3. QED BY <3>2, Zenon DEF a, b, c
  <2>4. QED BY <2>2, <2>3, Zenon DEF Closed
<1> HIDE DEF text
<1> DEFINE A == Opening(sel) \o h[n - 1]
           B == A \o DeclOpen(decls[n])
<1>8. A \in T /\ B \in T
  <2>1. \A x \in Seq(Tokens), y \in Seq(Tokens) : x \o y \in Seq(Tokens)
    OBVIOUS
  <2>2. n \in 1..n
    BY <1>1
  <2>3. A \in T
    BY <1>6, <2>1, Zenon DEF T
  <2>4. DeclOpen(decls[n]) \in T
    BY <1>2, <2>2, Zenon
  <2>5. QED BY <2>1, <2>3, <2>4, Zenon DEF T
<1>9. text = B \o <<Mark(";"), Mark("}")>>
  <2> DEFINE d == Decl(decls[n])
  <2>1. h[n] = h[n - 1] \o d /\ d \in T
    <3>1. n \in 1..n
      BY <1>1
    <3>2. h[n] = h[n - 1] \o s[n] /\ s[n] = d
      BY <1>3, <1>4, <3>1, Zenon
    <3>3. QED BY <1>2, <3>1, <3>2, Zenon
  <2>2. Opening(sel) \o h[n] = A \o d
    <3>1. (Opening(sel) \o h[n - 1]) \o d = Opening(sel) \o (h[n - 1] \o d)
      <4> DEFINE a == Opening(sel)
                 b == h[n - 1]
      <4>1. a \in Seq(Tokens) /\ b \in Seq(Tokens) /\ d \in Seq(Tokens)
        BY <1>6, <2>1, Zenon DEF T
      <4> HIDE DEF a, b, d
      <4>2. (a \o b) \o d = a \o (b \o d)
        BY <4>1, ConcatAssociative
      <4>3. QED BY <4>2, Zenon DEF a, b, d
    <3>2. QED BY <2>1, <3>1, Zenon
  <2>3. text = (A \o Decl(decls[n])) \o <<Mark("}")>>
    BY <1>7, <2>2, Zenon DEF Closed
  <2>4. Word(decls[n][1]) \in Tokens /\ decls[n][2] \in Tokens
    <3>1. decls[n] \in Spelled \X Tokens
      BY <1>1
    <3>2. decls[n][1] \in Spelled /\ decls[n][2] \in Tokens
      BY <3>1
    <3>3. QED BY <3>2, TokensAre, Zenon
  <2> HIDE DEF A
  <2> DEFINE w == Word(decls[n][1])
             v == decls[n][2]
             c == Mark(":")
             m == Mark(";")
             e == Mark("}")
  <2>5. d = <<w, c, v, m>> /\ DeclOpen(decls[n]) = <<w, c, v>>
    BY Zenon DEF Decl, DeclOpen
  <2>6. A \in Seq(Tokens) /\ w \in Tokens /\ c \in Tokens /\ v \in Tokens /\ m \in Tokens /\ e \in Tokens
    BY <1>6, <1>8, <2>4, Zenon DEF T
  <2> HIDE DEF w, v, c, m, e, d, A
  <2>7. (A \o <<w, c, v, m>>) \o <<e>> = (A \o <<w, c, v>>) \o <<m, e>>
    <3> DEFINE l == (A \o <<w, c, v, m>>) \o <<e>>
               r == (A \o <<w, c, v>>) \o <<m, e>>
    <3>1. l \in Seq(Tokens) /\ r \in Seq(Tokens) /\ Len(l) = Len(A) + 5 /\ Len(r) = Len(A) + 5
      BY <2>6
    <3>2. \A i \in 1..(Len(A) + 5) : l[i] = r[i]
      BY <2>6
    <3> HIDE DEF l, r
    <3>3. l = r
      BY <3>1, <3>2, SeqEqual
    <3>4. QED BY <3>3 DEF l, r
  <2>8. text = (A \o <<w, c, v, m>>) \o <<e>>
    BY <2>3, <2>5, Zenon DEF e, d
  <2>9. QED BY <2>5, <2>7, <2>8, Zenon DEF m, e
<1>10. RemoveAt(text, Len(text) - 1) = B \o <<Mark("}")>>
  <2> HIDE DEF B
  <2>1. QED BY <1>6, <1>8, <1>9, RemoveNextToLast, Zenon DEF T
<1>11. QED BY <1>5, <1>7, <1>10, Zenon DEF Unclosed, text, n

\* The text of a block that is typed.
BlockText(b, closed) ==
    IF closed THEN Block(b[1], b[2], <<>>)
    ELSE RemoveAt(Block(b[1], b[2], <<>>), Len(Block(b[1], b[2], <<>>)) - 1)

\* The selector and the declarations of a block.
LEMMA BlocksAre ==
    ASSUME NEW b \in Blocks
    PROVE  b[1] \in Spelled /\ b[2] \in Seq(Spelled \X Tokens) /\ b[2] # <<>>
BY DEF Blocks

\* Its declarations are texts as far as they are joined.
LEMMA PartsType ==
    ASSUME NEW decls \in Seq(Spelled \X Tokens), decls # <<>>, NEW h, Parts(h, decls)
    PROVE  /\ h[Len(decls)] \in Seq(Tokens) /\ h[Len(decls) - 1] \in Seq(Tokens)
           /\ decls[Len(decls)] \in Spelled \X Tokens
<1>1. Len(decls) \in Nat \ {0} /\ decls[Len(decls)] \in Spelled \X Tokens
  OBVIOUS
<1>2. Len(decls) \in 0..Len(decls) /\ Len(decls) - 1 \in 0..Len(decls)
  BY <1>1
<1>3. QED BY <1>1, <1>2 DEF Parts

\* Texts put together.
LEMMA ConcatTypes ==
    ASSUME NEW T, NEW a \in Seq(T), NEW b \in Seq(T), NEW c \in Seq(T), NEW d \in Seq(T)
    PROVE  (a \o b) \o c \in Seq(T) /\ ((a \o b) \o c) \o d \in Seq(T)
OBVIOUS

\* The text of a block is a text, ...
LEMMA BlockTextType ==
    ASSUME NEW b \in Blocks, NEW closed
    PROVE  BlockText(b, closed) \in Seq(Tokens)
<1> DEFINE sel == b[1]
           decls == b[2]
           n == Len(decls)
<1>1. sel \in Spelled /\ decls \in Seq(Spelled \X Tokens) /\ decls # <<>>
  BY BlocksAre
<1> HIDE DEF sel, decls
<1>2. PICK h : /\ Parts(h, decls)
               /\ Block(sel, decls, <<>>) = Closed(sel, h, n)
               /\ RemoveAt(Block(sel, decls, <<>>), Len(Block(sel, decls, <<>>)) - 1)
                    = Unclosed(sel, decls, h, n)
  BY <1>1, BlockParts
<1>3. h[n] \in Seq(Tokens) /\ h[n - 1] \in Seq(Tokens) /\ decls[n] \in Spelled \X Tokens
  BY <1>1, <1>2, PartsType
<1>4. Opening(sel) \in Seq(Tokens) /\ <<Mark("}")>> \in Seq(Tokens) /\ DeclOpen(decls[n]) \in Seq(Tokens)
  BY <1>1, <1>3, PartTypes, Zenon
<1>5. Closed(sel, h, n) \in Seq(Tokens) /\ Unclosed(sel, decls, h, n) \in Seq(Tokens)
  BY <1>3, <1>4, ConcatTypes, Zenon DEF Closed, Unclosed
<1>6. BlockText(b, closed) = IF closed THEN Closed(sel, h, n) ELSE Unclosed(sel, decls, h, n)
  BY <1>2, Zenon DEF BlockText, sel, decls
<1>7. QED BY <1>5, <1>6, Zenon

\* ... and so is a sheet on one line.
LEMMA OneLineType ==
    ASSUME NEW blocks \in Seq(Blocks), NEW closed
    PROVE  /\ [b \in DOMAIN blocks |-> BlockText(blocks[b], closed)] \in Seq(Seq(Tokens))
           /\ OneLine(blocks, closed)
                = FlattenSeq([b \in DOMAIN blocks |-> BlockText(blocks[b], closed)]) \o <<Mark("line")>>
           /\ OneLine(blocks, closed) \in Seq(Tokens)
<1> DEFINE q == [b \in DOMAIN blocks |-> BlockText(blocks[b], closed)]
           T == Seq(Tokens)
<1>1. DOMAIN blocks = 1..Len(blocks) /\ Len(blocks) \in Nat
  OBVIOUS
<1>2. \A b \in DOMAIN blocks : BlockText(blocks[b], closed) \in T
  <2>1. \A b \in DOMAIN blocks : blocks[b] \in Blocks
    OBVIOUS
  <2>2. QED BY <2>1, BlockTextType, Zenon
<1> HIDE DEF T
<1>3. q \in Seq(T)
  BY <1>1, <1>2
<1>4. OneLine(blocks, closed) = FlattenSeq(q) \o <<Mark("line")>>
  BY Zenon DEF OneLine, BlockText
<1> HIDE DEF q
<1>5. FlattenSeq(q) \in T
  BY <1>3, FlattenType DEF T
<1>6. <<Mark("line")>> \in T
  BY PartTypes, Zenon DEF T
<1>7. \A x \in Seq(Tokens), y \in Seq(Tokens) : x \o y \in Seq(Tokens)
  OBVIOUS
<1>8. QED BY <1>3, <1>4, <1>5, <1>6, <1>7, Zenon DEF q, T

\* What is typed is made of texts that can be read.
LEMMA GivenAre == Given \subseteq Tokens
<1>1. ASSUME NEW x \in [kind : {"word"}, v : STRING] PROVE x \in Tokens
  BY SpelledHas DEF Tokens
<1>2. [kind : {"hash"}, v : Paint] \cup [kind : {"number"}, n : Int] \subseteq Tokens
  BY Zenon DEF Tokens
<1>3. QED BY <1>1, <1>2, Zenon DEF Given

\* The sheets typed are sequences of blocks.
LEMMA SheetsAre == Typed.sheets \subseteq Seq(Blocks)
<1> DEFINE D == STRING \X Given
           E == Spelled \X Tokens
           B == STRING \X (Seq(D) \ {<<>>})
<1>1. D \subseteq E
  <2>1. \A a, b, c, d : a \subseteq c /\ b \subseteq d => a \X b \subseteq c \X d
    OBVIOUS
  <2>2. QED BY <2>1, SpelledHas, GivenAre, Zenon
<1> HIDE DEF D, E
<1>2. ASSUME NEW s \in Seq(D) PROVE s \in Seq(E)
  BY <1>1, SeqMonotonic
<1>3. ASSUME NEW x \in B PROVE x \in Blocks
  <2>1. x[1] \in STRING /\ x[2] \in Seq(D) /\ x[2] # <<>> /\ x = <<x[1], x[2]>>
    OBVIOUS
  <2>2. x[1] \in Spelled /\ x[2] \in Seq(E) \ {<<>>}
    BY <1>2, <2>1, SpelledHas
  <2>3. \A a, b, p, q : p \in a /\ q \in b => <<p, q>> \in a \X b
    OBVIOUS
  <2>4. QED BY <2>1, <2>2, <2>3, Zenon DEF Blocks, E
<1>4. Typed.sheets \subseteq Seq(B)
  BY TypedAssumption, Zenon DEF D
<1> HIDE DEF B
<1>5. ASSUME NEW s \in Seq(B) PROVE s \in Seq(Blocks)
  <2>1. B \subseteq Blocks
    BY <1>3
  <2>2. QED BY <2>1, SeqMonotonic
<1>6. QED BY <1>4, <1>5

\* The parser begins in one of its states.
LEMMA BeginningType == ASSUME NEW s \in Styles PROVE Beginning(s) \in States
<1>1. "" \in Spelled
  BY Zenon DEF Spelled
<1>2. <<>> \in Seq(Tokens)
  OBVIOUS
<1> DEFINE none == ""
<1>3. Beginning(s) = [at |-> "selector", comment |-> FALSE, sel |-> none, prop |-> none,
                      val |-> <<>>, style |-> s]
  BY Zenon DEF Beginning
<1>4. none \in Spelled
  BY <1>1, Zenon
<1> HIDE DEF none
<1>5. QED BY <1>2, <1>3, <1>4 DEF States, Places

\* What is parsed is a style.
LEMMA ParsedFits ==
    ASSUME NEW s \in Styles, NEW text \in Seq(Tokens)
    PROVE  ParseSheet(s, text) \in Styles
<1> DEFINE p == After(Beginning(s), text)
<1>1. p \in States
  BY BeginningType, ReadSteps
<1>2. ParseSheet(s, text) = IF p.at \in {"start", "value"} THEN Declare(p).style ELSE p.style
  BY Zenon DEF ParseSheet, After
<1> HIDE DEF p
<1>3. Declare(p) \in States
  BY <1>1, DeclareType
<1>4. p.style \in Styles /\ Declare(p).style \in Styles
  BY <1>1, <1>3 DEF States
<1>5. QED BY <1>2, <1>4

-----------------------------------------------------------------------------
(* Types.                                                                  *)

StyleInv == g \in Styles /\ sheet \in Seq(Tokens) /\ accent \in Paint

\* The accent of a style is a colour.
LEMMA AccentFits == ASSUME NEW s \in Styles PROVE s[<<"desktop", "accent">>] \in Paint
<1>1. <<"desktop", "accent">> \in Colours
  BY DEF Colours
<1>2. QED BY <1>1, KeysApart DEF Styles, Fits

\* A setting that is a colour.
LEMMA ConfiguredAccent ==
    ASSUME accent \in Paint, NEW t, ApplyConfig(t)
    PROVE  accent' \in Paint
<1>1. Palette \subseteq Paint
  BY TypedAssumption, Zenon
<1>2. QED BY <1>1 DEF ApplyConfig

\* Every command leaves a style, a text and a colour.
LEMMA StyleStep == StyleInv /\ [Next]_vars => StyleInv'
<1> SUFFICES ASSUME StyleInv, [Next]_vars PROVE StyleInv'
  OBVIOUS
<1>1. g \in Styles /\ sheet \in Seq(Tokens) /\ accent \in Paint
  BY DEF StyleInv
<1>2. CASE UNCHANGED <<style, accent>>
  BY <1>1, <1>2 DEF StyleInv, style
<1>3. CASE \/ \E s \in Typed.settings : ConfigCommand(s.key, s.val)
           \/ ReloadCommand
  <2>1. UNCHANGED style /\ \E t : ApplyConfig(t)
    BY <1>3 DEF ConfigCommand, ReloadCommand
  <2>2. QED BY <1>1, <2>1, ConfiguredAccent DEF StyleInv, style
<1>4. ASSUME NEW c \in Typed.styles, ThemeCommand(c) PROVE StyleInv'
  <2>1. CASE UNCHANGED vars
    BY <1>2, <2>1 DEF vars
  <2>2. CASE ~UNCHANGED vars
    <3>1. /\ g' = Apply(g, Target(c.sel, c.prop), <<c.val>>)
          /\ sheet' \in {SheetOf(g'), sheet}
          /\ accent' = g'[<<"desktop", "accent">>]
      BY <1>4, <2>2, Zenon DEF ThemeCommand, ThemeSave
    <3>2. c.val \in Tokens
      BY TypedAssumption, GivenAre, Zenon
    <3>3. <<c.val>> \in Seq(Tokens)
      BY <3>2
    <3>4. g' \in Styles
      BY <1>1, <3>1, <3>3, ApplyFits, Zenon
    <3>5. SheetOf(g') \in Seq(Tokens) /\ g'[<<"desktop", "accent">>] \in Paint
      BY <3>4, SheetType, AccentFits
    <3>6. QED BY <1>1, <3>1, <3>4, <3>5 DEF StyleInv
  <2>3. QED BY <2>1, <2>2
<1>5. ASSUME NEW events, ThemeReload(events) PROVE StyleInv'
  <2>1. g' = ParseSheet(Defaults, sheet) /\ sheet' = sheet /\ accent' = g'[<<"desktop", "accent">>]
    BY <1>5 DEF ThemeReload
  <2>2. g' \in Styles
    BY <1>1, <2>1, DefaultsFit, ParsedFits
  <2>3. QED BY <1>1, <2>1, <2>2, AccentFits DEF StyleInv
<1>6. ASSUME NEW text \in Seq(Tokens), EditSheet(text) PROVE StyleInv'
  BY <1>1, <1>6 DEF EditSheet, StyleInv
<1>7. CASE EditSheet(<<>>)
  <2>1. <<>> \in Seq(Tokens)
    OBVIOUS
  <2>2. QED BY <1>6, <1>7, <2>1
<1>8. ASSUME NEW t \in Texts, EditSheet(t.text) PROVE StyleInv'
  <2>1. PICK b \in Typed.sheets, closed \in BOOLEAN : t = [blocks |-> b, text |-> OneLine(b, closed)]
    BY DEF Texts
  <2>2. t.text = OneLine(b, closed)
    BY <2>1
  <2>3. t.text \in Seq(Tokens)
    BY <2>2, SheetsAre, OneLineType
  <2>4. QED BY <1>6, <1>8, <2>3
<1>9. CASE \/ \E m \in DOMAIN Irq, on \in BOOLEAN : ModuleSet(m, on)
           \/ Gui \/ SaveCommand \/ UNCHANGED vars
           \/ \E p \in Typed.policies : PolicySet(p)
           \/ \E p \in Typed.prompts : PromptSet(p)
           \/ ServiceStart \/ ServiceStop
           \/ \E y \in {"us", "es"} : LayoutSet(y)
           \/ \E lines \in Typed.files : EditConfig(lines)
  <2>1. UNCHANGED <<style, accent>>
    BY <1>9 DEF ModuleSet, Gui, SaveCommand, PolicySet, PromptSet, ServiceStart, ServiceStop, LayoutSet,
         ObjectSet, EditConfig, vars
  <2>2. QED BY <1>2, <2>1
<1>10. QED BY <1>3, <1>4, <1>5, <1>7, <1>8, <1>9 DEF Next

\* The layout that is configured is one of the two.
Configured(t) == \A i \in 1..Len(t) : t[i].key = "input.layout" => t[i].val \in {<<"us">>, <<"es">>}

\* config_init's layout is one of the two.
LEMMA BaseConfigures == Configured(Base)
<1> DEFINE ds == DefaultConfig
           N == Len(ds)
<1>1. /\ ds \in Seq(Entry) /\ N \in Nat
      /\ \A i \in 1..N : /\ ds[i] \in Entry /\ CutKey[ds[i].key] = ds[i].key
                         /\ ds[i].key = "input.layout" => ds[i].val \in {<<"us">>, <<"es">>}
  BY KernelKeysAssumption
<1>2. <<>> \in Table /\ Len(<<>>) = 0
  BY ConfigAssumption DEF Table
<1> HIDE DEF ds
<1>3. PICK h \in [0..N -> Table] : /\ h[0] = <<>> /\ h[N] = WithDefaults(<<>>, ds)
                                   /\ \A i \in 1..N : h[i] = SetDefault(h[i - 1], ds[i])
  BY <1>1, <1>2, DefaultsSteps
<1> HIDE DEF N
<1> DEFINE S == {i \in 0..N : Configured(h[i])}
<1>4. 0 \in S
  BY <1>1, <1>2, <1>3 DEF Configured
<1>5. ASSUME NEW i \in 0..(N - 1), i \in S PROVE i + 1 \in S
  <2> DEFINE t == h[i]
             r == h[i + 1]
             e == ds[i + 1]
  <2>1. i + 1 \in 1..N /\ (i + 1) - 1 = i /\ i \in 0..N
    BY <1>1
  <2>2. r = SetDefault(t, e) /\ t \in Table /\ e \in Entry /\ Configured(t)
    BY <1>1, <1>3, <1>5, <2>1
  <2>3. CutKey[e.key] = e.key /\ (e.key = "input.layout" => e.val \in {<<"us">>, <<"es">>})
    BY <1>1, <2>1
  <2> HIDE DEF t, r, e
  <2>4. Len(t) \in Nat /\ CFG_MAX \in Nat /\ Len(t) <= CFG_MAX
    BY <2>2, ConfigAssumption DEF Table
  <2>5. CASE Find(t, e.key) # 0 \/ Len(t) = CFG_MAX
    <3>1. r = t
      BY <2>2, <2>5, DefaultSets DEF SetTo
    <3>2. QED BY <2>1, <2>2, <3>1 DEF r
  <2>6. CASE Find(t, e.key) = 0 /\ Len(t) < CFG_MAX
    <3>1. SetTo(r, t, e.key, e.val)
      BY <2>2, <2>6, DefaultSets
    <3>2. /\ Len(r) = Len(t) + 1 /\ r[Len(t) + 1] = Setting(CutKey[e.key], e.val)
          /\ \A j \in 1..Len(t) : r[j] = t[j]
      BY <2>6, <3>1 DEF SetTo
    <3>3. r[Len(t) + 1].key = e.key /\ r[Len(t) + 1].val = e.val
      BY <2>3, <3>2 DEF Setting
    <3>4. \A j \in 1..Len(r) : j \in 1..Len(t) \/ j = Len(t) + 1
      BY <2>4, <3>2
    <3>5. Configured(r)
      BY <2>2, <2>3, <3>2, <3>3, <3>4 DEF Configured
    <3>6. QED BY <2>1, <3>5 DEF r
  <2>7. QED BY <2>4, <2>5, <2>6
<1>6. N \in S
  <2>1. 0..N \subseteq S
    <3> HIDE DEF S
    <3>1. QED BY <1>1, <1>4, <1>5, InductionUpTo
  <2>2. QED BY <1>1, <2>1
<1>7. QED BY <1>3, <1>6 DEF Base, ds

LayoutInv == layout \in {"us", "es"}

\* So is the first layout of the keyboard, ...
LEMMA LayoutInit == Init => LayoutInv
<1> SUFFICES ASSUME Init PROVE LayoutInv
  OBVIOUS
<1>1. layout = ConfigGet(Base, "input.layout", <<"us">>)[1]
  BY DEF Init, Base
<1>2. Base \in Seq(Entry) /\ Configured(Base)
  BY BaseIsGood, BaseConfigures DEF Good, Tidy, Table
<1> DEFINE f == Find(Base, "input.layout")
           v == ConfigGet(Base, "input.layout", <<"us">>)
<1>3. f # 0 => f \in 1..Len(Base) /\ Base[f].key = "input.layout"
  BY <1>2, FindIs
<1>4. v = IF f = 0 THEN <<"us">> ELSE Base[f].val
  BY DEF ConfigGet
<1> HIDE DEF f, v
<1>5. v \in {<<"us">>, <<"es">>}
  BY <1>2, <1>3, <1>4 DEF Configured
<1>6. QED BY <1>1, <1>5 DEF LayoutInv, v

\* ... and no command sets another.
LEMMA LayoutStep == LayoutInv /\ [Next]_vars => LayoutInv'
BY DEF LayoutInv, Next, vars, ModuleSet, Gui, ConfigCommand, SaveCommand, PolicySet, PromptSet, ServiceStart,
   ServiceStop, LayoutSet, ReloadCommand, EditConfig, ThemeCommand, ThemeReload, EditSheet

\* The table keeps within its size, the style within its bounds, colours are
\* colours, and a core module is never unloaded: no sheet that can be typed or
\* saved and no file leads out of this.
THEOREM ControlTyped == Spec => []TypeOK
<1>1. Init => StyleInv
  <2> SUFFICES ASSUME Init PROVE StyleInv
    OBVIOUS
  <2>1. g = Defaults /\ sheet = SheetOf(g) /\ accent = g[<<"desktop", "accent">>]
    BY DEF Init
  <2>2. g \in Styles
    BY <2>1, DefaultsFit
  <2>3. QED BY <2>1, <2>2, SheetType, AccentFits DEF StyleInv
<1>2. ModulesInv /\ [Next]_vars => ModulesInv'
  BY ModuleSetStep, GuiStep, OtherSteps, SameModules
<1>3. TablesInv /\ StyleInv /\ ModulesInv /\ LayoutInv => TypeOK
  <2> SUFFICES ASSUME TablesInv, StyleInv, ModulesInv, LayoutInv PROVE TypeOK
    OBVIOUS
  <2>1. table \in Seq(Entry) /\ Len(table) <= CFG_MAX /\ file \in Seq(Entry)
    BY DEF TablesInv, Good, Tidy, Table
  <2>2. /\ DOMAIN g = Properties /\ accent \in Paint
        /\ \A k \in Properties : Fits(k, g[k])
    BY DEF StyleInv, Styles
  <2>3. DOMAIN g = DOMAIN Defaults
    BY <2>2, Zenon DEF Properties
  <2>4. \A k \in DOMAIN Limits : g[k] \in Limits[k][1]..Limits[k][2]
    BY <2>2, KeysApart, LimitsAre DEF Fits
  <2>5. \A k \in Colours : g[k] \in Paint
    BY <2>2, KeysApart DEF Fits
  <2>6. enabled \in [DOMAIN Irq -> BOOLEAN] /\ Core \subseteq {m \in DOMAIN Irq : enabled[m]}
    BY IrqIs DEF ModulesInv, Core, Names
  <2>7. \A i \in 1..2 : masks[i] \subseteq 0..7
    BY DEF ModulesInv
  <2>8. QED BY <2>1, <2>2, <2>3, <2>4, <2>5, <2>6, <2>7, Zenon DEF TypeOK, LayoutInv
<1>4. QED BY <1>1, <1>2, <1>3, TablesHold, ModulesInit, StyleStep, LayoutInit, LayoutStep, PTL DEF Spec

-----------------------------------------------------------------------------
(* What a sheet means.                                                     *)

\* Reading two texts put together is reading one and then the other.
LEMMA ReadParts ==
    ASSUME NEW p \in States, NEW s \in Seq(Tokens), NEW t \in Seq(Tokens)
    PROVE  After(p, s \o t) = After(After(p, s), t)
<1> DEFINE m == Len(s)
           n == Len(t)
           w == s \o t
           q == After(p, s)
<1>1. m \in Nat /\ n \in Nat /\ w \in Seq(Tokens) /\ Len(w) = m + n
  OBVIOUS
<1>2. (\A i \in 1..m : w[i] = s[i]) /\ (\A i \in 1..n : w[m + i] = t[i])
  OBVIOUS
<1> HIDE DEF m, n, w
<1>3. PICK h \in [0..(m + n) -> States] : /\ h[0] = p /\ h[m + n] = After(p, w)
                                          /\ \A i \in 1..(m + n) : h[i] = Read(h[i - 1], w[i])
  BY <1>1, ReadSteps
<1>4. PICK a \in [0..m -> States] : /\ a[0] = p /\ a[m] = q
                                    /\ \A i \in 1..m : a[i] = Read(a[i - 1], s[i])
  BY <1>1, ReadSteps DEF m
<1>5. q \in States
  BY ReadSteps
<1> HIDE DEF q
<1>6. PICK b \in [0..n -> States] : /\ b[0] = q /\ b[n] = After(q, t)
                                    /\ \A i \in 1..n : b[i] = Read(b[i - 1], t[i])
  BY <1>1, <1>5, ReadSteps DEF n
<1> DEFINE S == {i \in 0..m : h[i] = a[i]}
           U == {i \in 0..n : h[m + i] = b[i]}
<1>7. 0 \in S
  BY <1>1, <1>3, <1>4
<1>8. ASSUME NEW i \in 0..(m - 1), i \in S PROVE i + 1 \in S
  <2>1. i + 1 \in 1..m /\ i + 1 \in 1..(m + n) /\ (i + 1) - 1 = i
    BY <1>1
  <2>2. h[i + 1] = Read(h[i], w[i + 1]) /\ a[i + 1] = Read(a[i], s[i + 1]) /\ w[i + 1] = s[i + 1]
    BY <1>2, <1>3, <1>4, <2>1
  <2>3. h[i + 1] = a[i + 1]
    BY <1>8, <2>2
  <2>4. QED BY <1>1, <2>1, <2>3
<1>9. m \in S
  <2>1. 0..m \subseteq S
    <3> HIDE DEF S
    <3>1. QED BY <1>1, <1>7, <1>8, InductionUpTo
  <2>2. QED BY <1>1, <2>1
<1>10. 0 \in U
  BY <1>1, <1>4, <1>6, <1>9
<1>11. ASSUME NEW i \in 0..(n - 1), i \in U PROVE i + 1 \in U
  <2>1. i + 1 \in 1..n /\ m + (i + 1) \in 1..(m + n) /\ (m + (i + 1)) - 1 = m + i /\ (i + 1) - 1 = i
    BY <1>1
  <2>2. h[m + (i + 1)] = Read(h[m + i], w[m + (i + 1)])
    BY <1>3, <2>1
  <2>3. b[i + 1] = Read(b[i], t[i + 1]) /\ w[m + (i + 1)] = t[i + 1]
    BY <1>2, <1>6, <2>1
  <2>4. h[m + (i + 1)] = b[i + 1]
    BY <1>11, <2>2, <2>3
  <2>5. QED BY <1>1, <2>1, <2>4
<1>12. n \in U
  <2>1. 0..n \subseteq U
    <3> HIDE DEF U
    <3>1. QED BY <1>1, <1>10, <1>11, InductionUpTo
  <2>2. QED BY <1>1, <2>1
<1>13. After(p, w) = After(q, t)
  BY <1>3, <1>6, <1>12
<1>14. QED BY <1>13 DEF w, q

\* Reading no token, ...
LEMMA ReadNone == ASSUME NEW p \in States PROVE After(p, <<>>) = p
<1> DEFINE text == <<>>
<1>1. text \in Seq(Tokens) /\ Len(text) = 0
  OBVIOUS
<1> HIDE DEF text
<1>2. PICK h \in [0..0 -> States] : h[0] = p /\ h[0] = After(p, text)
  BY <1>1, ReadSteps
<1>3. QED BY <1>2 DEF text

\* ... one, ...
LEMMA ReadOne ==
    ASSUME NEW p \in States, NEW a \in Tokens
    PROVE  After(p, <<a>>) = Read(p, a) /\ After(p, <<a>>) \in States
<1> DEFINE text == <<a>>
<1>1. text \in Seq(Tokens) /\ Len(text) = 1 /\ text[1] = a
  OBVIOUS
<1> HIDE DEF text
<1>2. PICK h \in [0..1 -> States] : /\ h[0] = p /\ h[1] = After(p, text)
                                    /\ \A i \in 1..1 : h[i] = Read(h[i - 1], text[i])
  BY <1>1, ReadSteps
<1>3. h[1] = Read(h[0], text[1])
  BY <1>2
<1>4. QED BY <1>1, <1>2, <1>3 DEF text

\* ... and one more.
LEMMA ReadAnother ==
    ASSUME NEW p \in States, NEW s \in Seq(Tokens), NEW a \in Tokens
    PROVE  After(p, s \o <<a>>) = Read(After(p, s), a) /\ After(p, s) \in States
<1>1. After(p, s) \in States
  BY ReadSteps
<1>2. <<a>> \in Seq(Tokens)
  OBVIOUS
<1>3. After(p, s \o <<a>>) = After(After(p, s), <<a>>)
  BY <1>2, ReadParts
<1>4. After(After(p, s), <<a>>) = Read(After(p, s), a)
  BY <1>1, ReadOne, Zenon
<1>5. QED BY <1>1, <1>3, <1>4

\* Short texts put together from tokens.
LEMMA ShortJoins ==
    ASSUME NEW T, NEW a \in T, NEW b \in T, NEW c \in T, NEW d \in T
    PROVE  /\ <<a>> \o <<b>> = <<a, b>> /\ <<a, b>> \o <<c>> = <<a, b, c>>
           /\ <<a, b, c>> \o <<d>> = <<a, b, c, d>>
<1> DEFINE l1 == <<a>> \o <<b>>
           r1 == <<a, b>>
           l2 == <<a, b>> \o <<c>>
           r2 == <<a, b, c>>
           l3 == <<a, b, c>> \o <<d>>
           r3 == <<a, b, c, d>>
<1>1. /\ l1 \in Seq(T) /\ r1 \in Seq(T) /\ Len(l1) = 2 /\ Len(r1) = 2
      /\ l2 \in Seq(T) /\ r2 \in Seq(T) /\ Len(l2) = 3 /\ Len(r2) = 3
      /\ l3 \in Seq(T) /\ r3 \in Seq(T) /\ Len(l3) = 4 /\ Len(r3) = 4
  OBVIOUS
<1>2. \A i \in 1..2 : l1[i] = r1[i]
  OBVIOUS
<1>3. \A i \in 1..3 : l2[i] = r2[i]
  OBVIOUS
<1>4. \A i \in 1..4 : l3[i] = r3[i]
  OBVIOUS
<1> HIDE DEF l1, r1, l2, r2, l3, r3
<1>5. l1 = r1 /\ l2 = r2 /\ l3 = r3
  BY <1>1, <1>2, <1>3, <1>4, SeqEqual
<1>6. QED BY <1>5 DEF l1, r1, l2, r2, l3, r3

\* Reading three tokens, ...
LEMMA ReadThree ==
    ASSUME NEW p \in States, NEW a \in Tokens, NEW b \in Tokens, NEW c \in Tokens
    PROVE  After(p, <<a, b, c>>) = Read(Read(Read(p, a), b), c)
<1>1. /\ <<a>> \in Seq(Tokens) /\ <<a, b>> \in Seq(Tokens)
      /\ <<a>> \o <<b>> = <<a, b>> /\ <<a, b>> \o <<c>> = <<a, b, c>>
  BY ShortSeqs, ShortJoins
<1>2. After(p, <<a>>) = Read(p, a)
  BY ReadOne, Zenon
<1>3. After(p, <<a>> \o <<b>>) = Read(After(p, <<a>>), b)
  BY <1>1, ReadAnother, Zenon
<1>4. After(p, <<a, b>> \o <<c>>) = Read(After(p, <<a, b>>), c)
  BY <1>1, ReadAnother, Zenon
<1>5. QED BY <1>1, <1>2, <1>3, <1>4, Zenon

\* ... and two.
LEMMA ReadTwo ==
    ASSUME NEW p \in States, NEW a \in Tokens, NEW b \in Tokens
    PROVE  After(p, <<a, b>>) = Read(Read(p, a), b)
<1>1. <<a>> \in Seq(Tokens) /\ <<a>> \o <<b>> = <<a, b>>
  BY ShortSeqs, ShortJoins
<1>2. After(p, <<a>>) = Read(p, a)
  BY ReadOne, Zenon
<1>3. After(p, <<a>> \o <<b>>) = Read(After(p, <<a>>), b)
  BY <1>1, ReadAnother, Zenon
<1>4. QED BY <1>1, <1>2, <1>3, Zenon

PlainTokens == {t \in Tokens : t.kind \in {"word", "number"}}

\* Outside a comment, a token that starts none is read by its place.
Reads(p) == p \in States /\ ~p.comment

\* The kinds of marks and words.
LEMMA MarkKinds ==
    ASSUME NEW m
    PROVE  Mark(m).kind = m /\ Word(m).kind = "word" /\ Word(m).v = m /\ Name(Word(m)) = m
BY DEF Mark, Word, Name

\* What each place makes of a token.
LEMMA ReadPlainly ==
    ASSUME NEW p, Reads(p), NEW tok, tok.kind \notin {"line", "hash"}
    PROVE  /\ p.at \in {"start", "value"} => Read(p, tok) = ReadValue(p, tok)
           /\ p.at = "selector" /\ tok.kind # "{" => Read(p, tok) = [p EXCEPT !.sel = Name(tok), !.at = "open"]
           /\ p.at = "open" => Read(p, tok) = [p EXCEPT !.at = IF tok.kind = "{" THEN "property" ELSE "selector"]
           /\ p.at = "property" /\ tok.kind = "}" => Read(p, tok) = [p EXCEPT !.at = "selector"]
           /\ p.at = "property" /\ tok.kind \notin {"}", ":"}
                => Read(p, tok) = [p EXCEPT !.prop = Name(tok), !.at = "colon"]
           /\ p.at = "colon" => Read(p, tok) = ReadOn(p, tok)
<1>1. ~(Skips(p) /\ (p.comment \/ tok.kind \in {"line", "hash"}))
  BY Zenon DEF Reads
<1>2. CASE p.at \in {"start", "value"}
  BY <1>1, <1>2 DEF Read
<1>3. CASE p.at = "selector"
  BY <1>1, <1>3 DEF Read
<1>4. CASE p.at = "open"
  BY <1>1, <1>4 DEF Read
<1>5. CASE p.at = "property"
  BY <1>1, <1>5 DEF Read
<1>6. CASE p.at = "colon"
  BY <1>1, <1>6 DEF Read
<1>7. QED BY <1>2, <1>3, <1>4, <1>5, <1>6

\* In a block with the selector sel, with the style s so far; between blocks; and
\* at the end of a value.
Within(p, sel, s) == Reads(p) /\ p.at = "property" /\ p.sel = sel /\ p.val = <<>> /\ p.style = s
Between(p, s) == Reads(p) /\ p.at = "selector" /\ p.val = <<>> /\ p.style = s
Giving(p, sel, d, s) ==
    /\ Reads(p) /\ p.at = "value" /\ p.sel = sel /\ p.style = s
    /\ p.prop = d[1] /\ p.val = <<d[2]>>

PlainDecls == Spelled \X PlainTokens

\* A declaration without a # colour.
LEMMA PlainDeclIs ==
    ASSUME NEW d \in PlainDecls
    PROVE  /\ d \in Spelled \X Tokens /\ d[1] \in Spelled /\ d[2] \in Tokens
           /\ d[2].kind \in {"word", "number"}
BY DEF PlainDecls, PlainTokens

\* A change of the parser's state leaves the rest of it.
LEMMA StatesPut ==
    ASSUME NEW p \in States
    PROVE  /\ \A w, a : LET q == [p EXCEPT !.prop = w, !.at = a]
                        IN q.at = a /\ q.comment = p.comment /\ q.sel = p.sel /\ q.prop = w
                           /\ q.val = p.val /\ q.style = p.style
           /\ \A w, a : LET q == [p EXCEPT !.sel = w, !.at = a]
                        IN q.at = a /\ q.comment = p.comment /\ q.sel = w /\ q.prop = p.prop
                           /\ q.val = p.val /\ q.style = p.style
           /\ \A w, a : LET q == [p EXCEPT !.val = Append(@, w), !.at = a]
                        IN q.at = a /\ q.comment = p.comment /\ q.sel = p.sel /\ q.prop = p.prop
                           /\ q.val = Append(p.val, w) /\ q.style = p.style
           /\ \A a : LET q == [p EXCEPT !.at = a]
                     IN q.at = a /\ q.comment = p.comment /\ q.sel = p.sel /\ q.prop = p.prop
                        /\ q.val = p.val /\ q.style = p.style
           /\ \A a : LET q == [Declare(p) EXCEPT !.at = a]
                     IN q.at = a /\ q.comment = p.comment /\ q.sel = p.sel /\ q.prop = p.prop
                        /\ q.val = <<>> /\ q.style = Apply(p.style, <<p.sel, p.prop>>, p.val)
BY DEF States, Declare

\* In a block, a declaration leads to the end of its value; ...
LEMMA ReadDeclOpen ==
    ASSUME NEW p, NEW sel, NEW s, Within(p, sel, s), NEW d \in PlainDecls
    PROVE  Giving(After(p, DeclOpen(d)), sel, d, s)
<1> DEFINE w == Word(d[1])
           c == Mark(":")
           v == d[2]
           q1 == Read(p, w)
           q2 == Read(q1, c)
           q3 == Read(q2, v)
<1>1. /\ w \in Tokens /\ c \in Tokens /\ v \in Tokens /\ v.kind \in {"word", "number"}
      /\ p \in States /\ ~p.comment /\ p.at = "property" /\ p.sel = sel /\ p.val = <<>> /\ p.style = s
  BY PlainDeclIs, TokensAre DEF Within, Reads, Marks
<1>2. w.kind = "word" /\ Name(w) = d[1] /\ c.kind = ":"
  BY MarkKinds
<1>3. DeclOpen(d) = <<w, c, v>>
  BY Zenon DEF DeclOpen
<1> HIDE DEF w, c, v
<1>3a. After(p, DeclOpen(d)) = q3
  <2>1. p \in States /\ w \in Tokens /\ c \in Tokens /\ v \in Tokens
    BY <1>1
  <2>2. After(p, <<w, c, v>>) = Read(Read(Read(p, w), c), v)
    BY <2>1, ReadThree, Zenon
  <2>3. QED BY <1>3, <2>2, Zenon
<1>4. q1 = [p EXCEPT !.prop = d[1], !.at = "colon"] /\ q1 \in States
  BY <1>1, <1>2, ReadPlainly, ReadType DEF Reads
<1> HIDE DEF q1
<1>5. /\ q1.at = "colon" /\ ~q1.comment /\ q1.sel = sel /\ q1.prop = d[1]
      /\ q1.val = <<>> /\ q1.style = s
  BY <1>1, <1>4, StatesPut
<1>6. q2 = ReadOn(q1, c) /\ q2 \in States
  BY <1>1, <1>2, <1>4, <1>5, ReadPlainly, ReadType DEF Reads
<1>7. q2 = [q1 EXCEPT !.at = "start"]
  <2>1. ReadOn(q1, c) = [q1 EXCEPT !.at = IF @ = "colon" THEN "start" ELSE "junk"]
    BY <1>2 DEF ReadOn
  <2>2. QED BY <1>5, <1>6, <2>1
<1> HIDE DEF q2
<1>8. /\ q2.at = "start" /\ ~q2.comment /\ q2.sel = sel /\ q2.prop = d[1]
      /\ q2.val = <<>> /\ q2.style = s
  BY <1>4, <1>5, <1>7, StatesPut
<1>9. q3 = ReadValue(q2, v) /\ q3 \in States
  <2>1. Reads(q2) /\ q2.at \in {"start", "value"} /\ v.kind \notin {"line", "hash"}
    BY <1>1, <1>6, <1>8 DEF Reads
  <2>2. q3 = ReadValue(q2, v)
    BY <2>1, ReadPlainly
  <2>3. QED BY <1>1, <1>6, <2>2, ReadType
<1>10. q3 = [q2 EXCEPT !.val = Append(@, v), !.at = "value"]
  BY <1>1, <1>9 DEF ReadValue
<1> HIDE DEF q3
<1>11. /\ q3.at = "value" /\ ~q3.comment /\ q3.sel = sel /\ q3.prop = d[1]
       /\ q3.val = Append(<<>>, v) /\ q3.style = s
  BY <1>6, <1>8, <1>10, StatesPut
<1>12. Append(<<>>, v) = <<v>>
  OBVIOUS
<1>13. QED BY <1>3a, <1>9, <1>11, <1>12 DEF Giving, Reads, v

\* Its ; or the } that ends the block declares it.
Declares(s, sel, d) == Apply(s, <<sel, d[1]>>, <<d[2]>>)

\* ... after its ; the parser is in the block, after } behind it.
LEMMA ReadEnds ==
    ASSUME NEW p, NEW sel, NEW s, NEW d, Giving(p, sel, d, s)
    PROVE  /\ Within(Read(p, Mark(";")), sel, Declares(s, sel, d))
           /\ Between(Read(p, Mark("}")), Declares(s, sel, d))
<1> DEFINE a == Mark(";")
           b == Mark("}")
<1>1. a \in Tokens /\ b \in Tokens /\ a.kind = ";" /\ b.kind = "}"
  BY TokensAre, MarkKinds DEF Marks
<1> HIDE DEF a, b
<1>2. /\ p \in States /\ ~p.comment /\ p.at = "value" /\ p.sel = sel /\ p.style = s
      /\ p.prop = d[1] /\ p.val = <<d[2]>>
  BY DEF Giving, Reads
<1>3. /\ Read(p, a) = ReadValue(p, a) /\ Read(p, b) = ReadValue(p, b)
      /\ Read(p, a) \in States /\ Read(p, b) \in States
  <2>1. Reads(p) /\ p.at \in {"start", "value"} /\ a.kind \notin {"line", "hash"}
        /\ b.kind \notin {"line", "hash"}
    BY <1>1, <1>2 DEF Reads
  <2>2. Read(p, a) = ReadValue(p, a) /\ Read(p, b) = ReadValue(p, b)
    BY <2>1, ReadPlainly
  <2>3. QED BY <1>1, <1>2, <2>2, ReadType
<1>4. /\ Read(p, a) = [Declare(p) EXCEPT !.at = "property"]
      /\ Read(p, b) = [Declare(p) EXCEPT !.at = "selector"]
  BY <1>1, <1>3 DEF ReadValue
<1>5. Apply(p.style, <<p.sel, p.prop>>, p.val) = Declares(s, sel, d)
  BY <1>2 DEF Declares
<1> DEFINE q == Read(p, a)
           r == Read(p, b)
<1>6. /\ q.at = "property" /\ ~q.comment /\ q.sel = sel /\ q.val = <<>>
      /\ q.style = Declares(s, sel, d)
  BY <1>2, <1>4, <1>5, StatesPut
<1>7. /\ r.at = "selector" /\ ~r.comment /\ r.val = <<>> /\ r.style = Declares(s, sel, d)
  BY <1>2, <1>4, <1>5, StatesPut
<1> HIDE DEF q, r
<1>8. q \in States /\ r \in States
  BY <1>3 DEF q, r
<1>9. Within(q, sel, Declares(s, sel, d)) /\ Between(r, Declares(s, sel, d))
  BY <1>6, <1>7, <1>8 DEF Within, Between, Reads
<1>10. QED BY <1>9 DEF q, r, a, b

\* Four tokens put together.
LEMMA JoinFour ==
    ASSUME NEW a \in Tokens, NEW b \in Tokens, NEW c \in Tokens, NEW d \in Tokens
    PROVE  <<a, b, c>> \o <<d>> = <<a, b, c, d>>
<1> DEFINE l == <<a, b, c>> \o <<d>>
           r == <<a, b, c, d>>
<1>1. l \in Seq(Tokens) /\ r \in Seq(Tokens) /\ Len(l) = 4 /\ Len(r) = 4
  OBVIOUS
<1>2. \A i \in 1..4 : l[i] = r[i]
  OBVIOUS
<1> HIDE DEF l, r
<1>3. l = r
  BY <1>1, <1>2, SeqEqual
<1>4. QED BY <1>3 DEF l, r

\* A declaration with its semicolon leads back into the block.
LEMMA ReadDecl ==
    ASSUME NEW p, NEW sel, NEW s, Within(p, sel, s), NEW d \in PlainDecls
    PROVE  Within(After(p, Decl(d)), sel, Declares(s, sel, d))
<1> DEFINE o == DeclOpen(d)
           m == Mark(";")
<1>1. p \in States /\ d \in Spelled \X Tokens /\ m \in Tokens
  BY PlainDeclIs, TokensAre DEF Within, Reads, Marks
<1>2. o \in Seq(Tokens)
  BY <1>1, PartTypes, Zenon
<1>3. Decl(d) = o \o <<m>>
  <2>1. Word(d[1]) \in Tokens /\ Mark(":") \in Tokens /\ d[2] \in Tokens
    BY PlainDeclIs, TokensAre DEF Marks
  <2> DEFINE w == Word(d[1])
             c == Mark(":")
             v == d[2]
  <2>2. Decl(d) = <<w, c, v, m>> /\ o = <<w, c, v>>
    BY Zenon DEF Decl, DeclOpen
  <2>3. w \in Tokens /\ c \in Tokens /\ v \in Tokens /\ m \in Tokens
    BY <1>1, <2>1
  <2> HIDE DEF w, c, v, m, o
  <2>4. <<w, c, v>> \o <<m>> = <<w, c, v, m>>
    BY <2>3, JoinFour, Zenon
  <2>5. QED BY <2>2, <2>4, Zenon
<1>4. Giving(After(p, o), sel, d, s)
  BY ReadDeclOpen
<1> HIDE DEF o, m
<1>5. After(p, Decl(d)) = Read(After(p, o), m)
  BY <1>1, <1>2, <1>3, ReadAnother, Zenon
<1>6. Within(Read(After(p, o), m), sel, Declares(s, sel, d))
  BY <1>4, ReadEnds, Zenon DEF m
<1>7. QED BY <1>5, <1>6, Zenon

\* Selector and { lead into a block, ...
LEMMA ReadOpening ==
    ASSUME NEW p, NEW s, Between(p, s), NEW sel \in Spelled
    PROVE  Within(After(p, Opening(sel)), sel, s)
<1> DEFINE w == Word(sel)
           c == Mark("{")
           q1 == Read(p, w)
           q2 == Read(q1, c)
<1>1. /\ w \in Tokens /\ c \in Tokens
      /\ p \in States /\ ~p.comment /\ p.at = "selector" /\ p.val = <<>> /\ p.style = s
  BY TokensAre DEF Between, Reads, Marks
<1>2. w.kind = "word" /\ Name(w) = sel /\ c.kind = "{"
  BY MarkKinds
<1>3. Opening(sel) = <<w, c>>
  BY Zenon DEF Opening
<1> HIDE DEF w, c
<1>4. After(p, Opening(sel)) = q2
  <2>1. p \in States /\ w \in Tokens /\ c \in Tokens
    BY <1>1
  <2>2. After(p, <<w, c>>) = Read(Read(p, w), c)
    BY <2>1, ReadTwo, Zenon
  <2>3. QED BY <1>3, <2>2, Zenon
<1>5. q1 = [p EXCEPT !.sel = sel, !.at = "open"] /\ q1 \in States
  BY <1>1, <1>2, ReadPlainly, ReadType DEF Reads
<1> HIDE DEF q1
<1>6. q1.at = "open" /\ ~q1.comment /\ q1.sel = sel /\ q1.val = <<>> /\ q1.style = s
  BY <1>1, <1>5, StatesPut
<1>7. q2 = [q1 EXCEPT !.at = "property"] /\ q2 \in States
  BY <1>1, <1>2, <1>5, <1>6, ReadPlainly, ReadType DEF Reads
<1> HIDE DEF q2
<1>8. q2.at = "property" /\ ~q2.comment /\ q2.sel = sel /\ q2.val = <<>> /\ q2.style = s
  BY <1>5, <1>6, <1>7, StatesPut
<1>9. QED BY <1>4, <1>7, <1>8 DEF Within, Reads

\* ... and } out of it.
LEMMA ReadClosing ==
    ASSUME NEW p, NEW sel, NEW s, Within(p, sel, s)
    PROVE  Between(Read(p, Mark("}")), s)
<1> DEFINE c == Mark("}")
           q == Read(p, c)
<1>1. /\ c \in Tokens /\ c.kind = "}"
      /\ p \in States /\ ~p.comment /\ p.at = "property" /\ p.val = <<>> /\ p.style = s
  BY TokensAre, MarkKinds DEF Within, Reads, Marks
<1> HIDE DEF c
<1>2. q = [p EXCEPT !.at = "selector"] /\ q \in States
  BY <1>1, ReadPlainly, ReadType DEF Reads
<1> HIDE DEF q
<1>3. q.at = "selector" /\ ~q.comment /\ q.val = <<>> /\ q.style = s
  <2>1. /\ q.at = "selector" /\ q.comment = p.comment
        /\ q.val = p.val /\ q.style = p.style
    BY <1>1, <1>2 DEF States
  <2>2. QED BY <1>1, <2>1
<1>4. Between(q, s)
  BY <1>2, <1>3 DEF Between, Reads
<1>5. QED BY <1>4 DEF q, c

\* A block says its declarations one after the other.
SaidBy(k, s, b) ==
    /\ k \in [0..Len(b[2]) -> Styles] /\ k[0] = s /\ k[Len(b[2])] = Said(s, b)
    /\ \A i \in 1..Len(b[2]) : k[i] = Declares(k[i - 1], b[1], b[2][i])

\* A declaration leaves a style.
LEMMA DeclaresFits ==
    ASSUME NEW s \in Styles, NEW sel, NEW d \in Spelled \X Tokens
    PROVE  Declares(s, sel, d) \in Styles
<1>1. <<d[2]>> \in Seq(Tokens)
  OBVIOUS
<1>2. QED BY <1>1, ApplyFits, Zenon DEF Declares

\* The declarations of a block, in steps.
LEMMA SaidSteps ==
    ASSUME NEW s \in Styles, NEW b \in Blocks
    PROVE  \E k : SaidBy(k, s, b)
<1> DEFINE decls == b[2]
           sel == b[1]
           N == Len(decls)
           r == Said(s, b)
           A == 1..N
           F == [q \in Styles \X A |-> Declares(q[1], sel, decls[q[2]])]
           Eq(f) == f = [u \in SUBSET A |->
                            IF u = {} THEN s
                            ELSE Declares(f[u \ {Greatest(u)}], sel, decls[Greatest(u)])]
           iter == CHOOSE f : Eq(f)
<1>1. N \in Nat /\ DOMAIN decls = A /\ A = 1..N /\ \A i \in A : decls[i] \in Spelled \X Tokens
  <2>1. decls \in Seq(Spelled \X Tokens)
    BY BlocksAre
  <2> HIDE DEF decls
  <2>2. QED BY <2>1
<1>2. r = iter[A]
  BY <1>1, Zenon DEF Said, FoldLeft, MapThenFoldSet, Max, Greatest, Declares
<1> HIDE DEF decls, sel, N, A
<1>3. ASSUME NEW x \in Styles, NEW i \in A PROVE Declares(x, sel, decls[i]) \in Styles
  BY <1>1, DeclaresFits
<1>4. /\ F \in [Styles \X A -> Styles]
      /\ \A x \in Styles, i \in A : F[<<x, i>>] = Declares(x, sel, decls[i])
  <2>1. QED BY <1>3
<1> HIDE DEF F
<1>5. Eq(iter)
  <2>1. PICK f \in [SUBSET A -> Styles] : IsSeqFold(f, A, s, F)
    BY <1>1, <1>4, SeqFoldsExist
  <2>2. ASSUME NEW u \in SUBSET A, u # {}
        PROVE  F[<<f[u \ {Greatest(u)}], Greatest(u)>>]
                 = Declares(f[u \ {Greatest(u)}], sel, decls[Greatest(u)])
    <3>1. Greatest(u) \in A
      BY <1>1, <2>2, InitialSegments
    <3>2. f[u \ {Greatest(u)}] \in Styles
      OBVIOUS
    <3>3. QED BY <1>4, <3>1, <3>2
  <2>3. Eq(f)
    BY <2>1, <2>2 DEF IsSeqFold
  <2>4. QED
    <3> HIDE DEF Eq
    <3>1. QED BY <2>3
<1> HIDE DEF iter, r
<1>6. FoldsAs(iter, N, A, Styles, s, F)
  <2>1. iter[{}] = s
    BY <1>5
  <2>2. ASSUME NEW u \in SUBSET A, u # {}, iter[u \ {Greatest(u)}] \in Styles
        PROVE  iter[u] = F[<<iter[u \ {Greatest(u)}], Greatest(u)>>]
    <3>1. Greatest(u) \in A
      BY <1>1, <2>2, InitialSegments
    <3>2. iter[u] = Declares(iter[u \ {Greatest(u)}], sel, decls[Greatest(u)])
      BY <1>5, <2>2
    <3>3. QED BY <1>4, <2>2, <3>1, <3>2
  <2> HIDE DEF Eq
  <2>3. QED BY <1>1, <1>4, <2>1, <2>2 DEF FoldsAs
<1>7. PICK h : Reaches(h, N, Styles, s, F, r)
  BY <1>2, <1>6, FoldReaches
<1>8. /\ h \in [0..N -> Styles] /\ h[0] = s /\ h[N] = r
      /\ \A i \in 1..N : h[i] = F[<<h[i - 1], i>>] /\ h[i - 1] \in Styles
  BY <1>7 DEF Reaches
<1>9. \A i \in 1..N : h[i] = Declares(h[i - 1], sel, decls[i])
  BY <1>1, <1>4, <1>8
<1>10. SaidBy(h, s, b)
  BY <1>8, <1>9 DEF SaidBy, N, r, sel, decls
<1>11. QED BY <1>10

\* A block without # colours, on one line, is read as what it says.
PlainBlock(b) == b \in Blocks /\ b[2] \in Seq(PlainDecls)

\* It is read as what it says, closed or not.
LEMMA ReadBlock ==
    ASSUME NEW p, NEW s \in Styles, Between(p, s), NEW b, PlainBlock(b), NEW closed
    PROVE  Between(After(p, BlockText(b, closed)), Said(s, b))
<1> DEFINE sel == b[1]
           decls == b[2]
           n == Len(decls)
           o == After(p, Opening(sel))
           e == Mark("}")
<1>1. /\ p \in States /\ b \in Blocks
      /\ sel \in Spelled /\ decls \in Seq(Spelled \X Tokens) /\ decls # <<>> /\ decls \in Seq(PlainDecls)
  BY BlocksAre DEF PlainBlock, Between, Reads
<1>2. PICK k : SaidBy(k, s, b)
  BY <1>1, SaidSteps
<1>3. PICK h : /\ Parts(h, decls)
               /\ Block(sel, decls, <<>>) = Closed(sel, h, n)
               /\ RemoveAt(Block(sel, decls, <<>>), Len(Block(sel, decls, <<>>)) - 1)
                    = Unclosed(sel, decls, h, n)
  BY <1>1, BlockParts
<1>4. BlockText(b, closed) = IF closed THEN Closed(sel, h, n) ELSE Unclosed(sel, decls, h, n)
  BY <1>3, Zenon DEF BlockText
<1>5. Within(o, sel, s)
  BY <1>1, ReadOpening
<1>6. /\ k[0] = s /\ k[n] = Said(s, b)
      /\ \A i \in 1..n : k[i] = Declares(k[i - 1], sel, decls[i])
  BY <1>2 DEF SaidBy
<1> HIDE DEF sel, decls
<1>7. n \in Nat \ {0} /\ \A i \in 1..n : decls[i] \in PlainDecls /\ decls[i] \in Spelled \X Tokens
  BY <1>1
<1>8. /\ h \in [0..n -> Seq(Tokens)] /\ h[0] = <<>>
      /\ \A i \in 1..n : h[i] = h[i - 1] \o Decl(decls[i])
  BY <1>3 DEF Parts
<1>9. o \in States
  BY <1>5 DEF Within, Reads
<1>10. Opening(sel) \in Seq(Tokens) /\ e \in Tokens
  BY <1>1, PartTypes, TokensAre DEF Marks
<1> HIDE DEF n, e
<1> DEFINE S == {i \in 0..n : Within(After(o, h[i]), sel, k[i])}
<1>11. 0 \in S
  <2>1. After(o, h[0]) = o
    BY <1>8, <1>9, ReadNone
  <2>2. QED BY <1>5, <1>6, <1>7, <2>1
<1> HIDE DEF o
<1>12. ASSUME NEW i \in 0..(n - 1), i \in S PROVE i + 1 \in S
  <2> DEFINE d == decls[i + 1]
             t == h[i]
  <2>1. i + 1 \in 1..n /\ (i + 1) - 1 = i /\ i \in 0..n /\ i + 1 \in 0..n
    BY <1>7
  <2>2. d \in PlainDecls /\ Decl(d) \in Seq(Tokens) /\ t \in Seq(Tokens)
    BY <1>7, <1>8, <2>1, PartTypes
  <2>3. h[i + 1] = t \o Decl(d) /\ k[i + 1] = Declares(k[i], sel, d)
    BY <1>6, <1>8, <2>1
  <2> HIDE DEF d, t
  <2>4. After(o, t \o Decl(d)) = After(After(o, t), Decl(d))
    BY <1>9, <2>2, ReadParts
  <2>5. Within(After(o, t), sel, k[i])
    BY <1>12 DEF t
  <2>6. Within(After(After(o, t), Decl(d)), sel, Declares(k[i], sel, d))
    BY <2>2, <2>5, ReadDecl
  <2>7. Within(After(o, h[i + 1]), sel, k[i + 1])
    BY <2>3, <2>4, <2>6, Zenon
  <2>8. QED BY <2>1, <2>7
<1>13. \A i \in 0..n : Within(After(o, h[i]), sel, k[i])
  <2>1. 0..n \subseteq S
    <3> HIDE DEF S
    <3>1. QED BY <1>7, <1>11, <1>12, InductionUpTo
  <2>2. QED BY <2>1
<1>14. n \in 0..n /\ n - 1 \in 0..n /\ n \in 1..n
  BY <1>7
<1>15. h[n] \in Seq(Tokens) /\ h[n - 1] \in Seq(Tokens) /\ DeclOpen(decls[n]) \in Seq(Tokens)
  BY <1>7, <1>8, <1>14, PartTypes
<1>16. \A x \in Seq(Tokens), y \in Seq(Tokens) : x \o y \in Seq(Tokens)
  OBVIOUS
<1>17. ASSUME NEW t \in Seq(Tokens) PROVE After(p, Opening(sel) \o t) = After(o, t)
  BY <1>1, <1>10, <1>17, ReadParts, Zenon DEF o
<1>18. Between(After(p, Closed(sel, h, n)), Said(s, b))
  <2> DEFINE t == Opening(sel) \o h[n]
  <2>1. t \in Seq(Tokens) /\ After(p, t) = After(o, h[n])
    BY <1>10, <1>15, <1>16, <1>17
  <2> HIDE DEF t
  <2>2. After(p, t \o <<e>>) = Read(After(p, t), e)
    BY <1>1, <1>10, <2>1, ReadAnother
  <2>3. Between(Read(After(o, h[n]), e), k[n])
    BY <1>13, <1>14, ReadClosing DEF e
  <2>4. Closed(sel, h, n) = t \o <<e>>
    BY Zenon DEF Closed, t, e
  <2>5. QED BY <1>6, <2>1, <2>2, <2>3, <2>4, Zenon
<1>19. Between(After(p, Unclosed(sel, decls, h, n)), Said(s, b))
  <2> DEFINE d == decls[n]
             t == Opening(sel) \o h[n - 1]
             v == t \o DeclOpen(d)
  <2>1. t \in Seq(Tokens) /\ After(p, t) = After(o, h[n - 1])
    BY <1>10, <1>15, <1>16, <1>17
  <2>2. Unclosed(sel, decls, h, n) = v \o <<e>>
    BY Zenon DEF Unclosed, e
  <2>3. DeclOpen(d) \in Seq(Tokens) /\ d \in PlainDecls
    BY <1>7, <1>14, <1>15
  <2>4. k[n] = Declares(k[n - 1], sel, d)
    BY <1>6, <1>14
  <2> HIDE DEF t, d
  <2>5. v \in Seq(Tokens)
    BY <1>16, <2>1, <2>3, Zenon
  <2>6. After(p, v) = After(After(p, t), DeclOpen(d))
    BY <1>1, <2>1, <2>3, ReadParts
  <2> HIDE DEF v
  <2>7. After(p, v \o <<e>>) = Read(After(p, v), e)
    BY <1>1, <1>10, <2>5, ReadAnother
  <2>8. Within(After(p, t), sel, k[n - 1])
    BY <1>13, <1>14, <2>1
  <2>9. Giving(After(p, v), sel, d, k[n - 1])
    BY <2>3, <2>6, <2>8, ReadDeclOpen
  <2>10. Between(Read(After(p, v), e), Declares(k[n - 1], sel, d))
    BY <2>9, ReadEnds, Zenon DEF e
  <2>11. QED BY <1>6, <2>2, <2>4, <2>7, <2>10, Zenon
<1>20. QED BY <1>4, <1>18, <1>19, Zenon

\* A sheet says its blocks one after the other.
SheetSaid(k, blocks) ==
    /\ k \in [0..Len(blocks) -> Styles] /\ k[0] = Defaults /\ k[Len(blocks)] = Meaning(blocks)
    /\ \A i \in 1..Len(blocks) : k[i] = Said(k[i - 1], blocks[i])

\* What a block says is a style.
LEMMA SaidFits == ASSUME NEW s \in Styles, NEW b \in Blocks PROVE Said(s, b) \in Styles
<1>1. PICK k : SaidBy(k, s, b)
  BY SaidSteps
<1>2. Len(b[2]) \in 0..Len(b[2])
  BY BlocksAre
<1>3. QED BY <1>1, <1>2 DEF SaidBy

\* The blocks of a sheet, in steps.
LEMMA MeaningSteps ==
    ASSUME NEW blocks \in Seq(Blocks)
    PROVE  \E k : SheetSaid(k, blocks)
<1> DEFINE N == Len(blocks)
           r == Meaning(blocks)
           A == 1..N
           F == [q \in Styles \X A |-> Said(q[1], blocks[q[2]])]
           Eq(f) == f = [u \in SUBSET A |->
                            IF u = {} THEN Defaults
                            ELSE Said(f[u \ {Greatest(u)}], blocks[Greatest(u)])]
           iter == CHOOSE f : Eq(f)
<1>1. N \in Nat /\ DOMAIN blocks = A /\ A = 1..N /\ \A i \in A : blocks[i] \in Blocks
  OBVIOUS
<1>2. r = iter[A]
  BY <1>1, Zenon DEF Meaning, FoldLeft, MapThenFoldSet, Max, Greatest
<1> HIDE DEF N, A
<1>3. ASSUME NEW x \in Styles, NEW i \in A PROVE Said(x, blocks[i]) \in Styles
  BY <1>1, SaidFits
<1>4. /\ F \in [Styles \X A -> Styles]
      /\ \A x \in Styles, i \in A : F[<<x, i>>] = Said(x, blocks[i])
  <2>1. QED BY <1>3
<1> HIDE DEF F
<1>5. Eq(iter)
  <2>1. PICK f \in [SUBSET A -> Styles] : IsSeqFold(f, A, Defaults, F)
    BY <1>1, <1>4, DefaultsFit, SeqFoldsExist
  <2>2. ASSUME NEW u \in SUBSET A, u # {}
        PROVE  F[<<f[u \ {Greatest(u)}], Greatest(u)>>]
                 = Said(f[u \ {Greatest(u)}], blocks[Greatest(u)])
    <3>1. Greatest(u) \in A
      BY <1>1, <2>2, InitialSegments
    <3>2. f[u \ {Greatest(u)}] \in Styles
      OBVIOUS
    <3>3. QED BY <1>4, <3>1, <3>2
  <2>3. Eq(f)
    BY <2>1, <2>2 DEF IsSeqFold
  <2>4. QED
    <3> HIDE DEF Eq
    <3>1. QED BY <2>3
<1> HIDE DEF iter, r
<1>6. FoldsAs(iter, N, A, Styles, Defaults, F)
  <2>1. iter[{}] = Defaults
    BY <1>5
  <2>2. ASSUME NEW u \in SUBSET A, u # {}, iter[u \ {Greatest(u)}] \in Styles
        PROVE  iter[u] = F[<<iter[u \ {Greatest(u)}], Greatest(u)>>]
    <3>1. Greatest(u) \in A
      BY <1>1, <2>2, InitialSegments
    <3>2. iter[u] = Said(iter[u \ {Greatest(u)}], blocks[Greatest(u)])
      BY <1>5, <2>2
    <3>3. QED BY <1>4, <2>2, <3>1, <3>2
  <2> HIDE DEF Eq
  <2>3. QED BY <1>1, <1>4, <2>1, <2>2, DefaultsFit DEF FoldsAs
<1>7. PICK h : Reaches(h, N, Styles, Defaults, F, r)
  BY <1>2, <1>6, FoldReaches
<1>8. /\ h \in [0..N -> Styles] /\ h[0] = Defaults /\ h[N] = r
      /\ \A i \in 1..N : h[i] = F[<<h[i - 1], i>>] /\ h[i - 1] \in Styles
  BY <1>7 DEF Reaches
<1>9. \A i \in 1..N : h[i] = Said(h[i - 1], blocks[i])
  BY <1>1, <1>4, <1>8
<1>10. SheetSaid(h, blocks)
  BY <1>8, <1>9 DEF SheetSaid, N, r
<1>11. QED BY <1>10

\* The parser begins outside every block.
LEMMA BeginsBetween == Between(Beginning(Defaults), Defaults)
<1> DEFINE p == Beginning(Defaults)
<1>1. p \in States
  BY DefaultsFit, BeginningType
<1>2. p.at = "selector" /\ ~p.comment /\ p.val = <<>> /\ p.style = Defaults
  <2> DEFINE none == ""
             d == Defaults
  <2>1. p = [at |-> "selector", comment |-> FALSE, sel |-> none, prop |-> none,
             val |-> <<>>, style |-> d]
    BY Zenon DEF Beginning
  <2> HIDE DEF p, none, d
  <2>2. p.style = d /\ p.at = "selector" /\ ~p.comment /\ p.val = <<>>
    BY <2>1
  <2>3. QED BY <2>2 DEF d
<1>3. QED BY <1>1, <1>2, Zenon DEF Between, Reads

\* A line end between blocks changes nothing.
LEMMA ReadLineEnd ==
    ASSUME NEW p, NEW s, Between(p, s)
    PROVE  Between(Read(p, Mark("line")), s)
<1> DEFINE c == Mark("line")
           q == Read(p, c)
<1>1. /\ c \in Tokens /\ c.kind = "line"
      /\ p \in States /\ ~p.comment /\ p.at = "selector" /\ p.val = <<>> /\ p.style = s
  BY TokensAre, MarkKinds DEF Between, Reads, Marks
<1> HIDE DEF c
<1>2. q = Skip(p, c) /\ q \in States
  <2>1. Skips(p)
    BY <1>1 DEF Skips
  <2>2. QED BY <1>1, <2>1, ReadType DEF Read
<1> HIDE DEF q
<1>3. q = [p EXCEPT !.comment = FALSE]
  BY <1>1, <1>2 DEF Skip
<1>4. q.at = p.at /\ ~q.comment /\ q.val = p.val /\ q.style = p.style
  BY <1>1, <1>3 DEF States
<1>5. Between(q, s)
  BY <1>1, <1>2, <1>4 DEF Between, Reads
<1>6. QED BY <1>5 DEF q, c

\* A sheet without # colours, on one line, is read as what it says.
LEMMA ReadSheet ==
    ASSUME NEW blocks \in Seq(Blocks), \A i \in 1..Len(blocks) : PlainBlock(blocks[i]), NEW closed
    PROVE  ParseSheet(Defaults, OneLine(blocks, closed)) = Meaning(blocks)
<1> DEFINE q == [b \in DOMAIN blocks |-> BlockText(blocks[b], closed)]
           n == Len(blocks)
           p == Beginning(Defaults)
           e == Mark("line")
           T == Seq(Tokens)
<1>1. n \in Nat /\ DOMAIN blocks = 1..n
  OBVIOUS
<1>2. q \in Seq(T) /\ OneLine(blocks, closed) = FlattenSeq(q) \o <<e>>
  BY OneLineType
<1>3. Len(q) = n /\ \A i \in 1..n : q[i] = BlockText(blocks[i], closed) /\ q[i] \in T
  BY <1>1, <1>2
<1> HIDE DEF q, T
<1>4. PICK h \in [0..n -> T] : /\ h[0] = <<>> /\ h[n] = FlattenSeq(q)
                               /\ \A i \in 1..n : h[i] = h[i - 1] \o q[i]
  <2>1. q \in Seq(T) /\ Len(q) = n
    BY <1>2, <1>3
  <2> HIDE DEF n
  <2>2. QED BY <2>1, FlattenSteps DEF T
<1>5. PICK k : SheetSaid(k, blocks)
  BY MeaningSteps
<1>6. /\ k \in [0..n -> Styles] /\ k[0] = Defaults /\ k[n] = Meaning(blocks)
      /\ \A i \in 1..n : k[i] = Said(k[i - 1], blocks[i])
  BY <1>5 DEF SheetSaid
<1>7. Between(p, Defaults) /\ p \in States
  BY BeginsBetween DEF Between, Reads
<1> HIDE DEF n, p
<1> DEFINE S == {i \in 0..n : Between(After(p, h[i]), k[i])}
<1>8. 0 \in S
  <2>1. After(p, h[0]) = p
    BY <1>4, <1>7, ReadNone
  <2>2. QED BY <1>1, <1>6, <1>7, <2>1
<1>9. ASSUME NEW i \in 0..(n - 1), i \in S PROVE i + 1 \in S
  <2> DEFINE t == h[i]
             u == q[i + 1]
             b == blocks[i + 1]
  <2>1. i + 1 \in 1..n /\ (i + 1) - 1 = i /\ i \in 0..n /\ i + 1 \in 0..n
    BY <1>1
  <2>2. /\ t \in Seq(Tokens) /\ u \in Seq(Tokens) /\ u = BlockText(b, closed)
        /\ h[i + 1] = t \o u /\ k[i + 1] = Said(k[i], b) /\ k[i] \in Styles /\ PlainBlock(b)
    BY <1>3, <1>4, <1>6, <2>1 DEF T, n
  <2>3. Between(After(p, t), k[i])
    BY <1>9
  <2> HIDE DEF t, u, b
  <2>4. After(p, t \o u) = After(After(p, t), u)
    BY <1>7, <2>2, ReadParts
  <2>5. Between(After(After(p, t), u), Said(k[i], b))
    BY <2>2, <2>3, ReadBlock
  <2>6. Between(After(p, h[i + 1]), k[i + 1])
    BY <2>2, <2>4, <2>5, Zenon
  <2>7. QED BY <2>1, <2>6
<1>10. n \in S
  <2>1. 0..n \subseteq S
    <3> HIDE DEF S
    <3>1. QED BY <1>1, <1>8, <1>9, InductionUpTo
  <2>2. QED BY <1>1, <2>1
<1> DEFINE t == h[n]
           z == After(p, t \o <<e>>)
<1>11. t \in Seq(Tokens) /\ Between(After(p, t), Meaning(blocks)) /\ e \in Tokens
  <2>1. n \in 0..n
    BY <1>1
  <2>2. QED BY <1>4, <1>6, <1>10, <2>1, TokensAre DEF T, Marks
<1> HIDE DEF t
<1>12. Between(z, Meaning(blocks))
  <2>1. After(p, t \o <<e>>) = Read(After(p, t), e)
    BY <1>7, <1>11, ReadAnother
  <2>2. QED BY <1>11, <2>1, ReadLineEnd
<1>13. ParseSheet(Defaults, OneLine(blocks, closed))
         = IF z.at \in {"start", "value"} THEN Declare(z).style ELSE z.style
  <2>1. OneLine(blocks, closed) = t \o <<e>>
    BY <1>2, <1>4 DEF t
  <2>2. QED BY <2>1, Zenon DEF ParseSheet, After, p
<1> HIDE DEF z
<1>14. QED BY <1>12, <1>13 DEF Between

\* Typed blocks without # colours are plain.
LEMMA PlainIs ==
    ASSUME NEW b \in STRING \X (Seq(STRING \X Given) \ {<<>>}), b \in Blocks,
           \A d \in Range(b[2]) : d[2].kind # "hash"
    PROVE  PlainBlock(b)
<1> DEFINE s == b[2]
           n == Len(s)
           D == STRING \X Given
<1>1. s \in Seq(D)
  OBVIOUS
<1> HIDE DEF s, D
<1>2. n \in Nat /\ DOMAIN s = 1..n /\ \A i \in 1..n : s[i] \in D
  BY <1>1
<1>3. ASSUME NEW i \in 1..n PROVE s[i] \in PlainDecls
  <2> DEFINE d == s[i]
  <2>1. d[2].kind # "hash"
    BY <1>2 DEF Range, s
  <2>2. d \in STRING \X Given
    BY <1>2 DEF D
  <2> HIDE DEF d
  <2>3. d[1] \in STRING /\ d[2] \in Given /\ d = <<d[1], d[2]>>
    BY <2>2
  <2>4. d[1] \in Spelled /\ d[2] \in Tokens
    BY <2>3, SpelledHas, GivenAre
  <2>5. d[2].kind \in {"word", "hash", "number"}
    BY <2>3 DEF Given
  <2>6. d[2] \in PlainTokens
    BY <2>1, <2>4, <2>5 DEF PlainTokens
  <2>7. QED BY <2>3, <2>4, <2>6 DEF PlainDecls, d
<1>4. s \in Seq(PlainDecls)
  BY <1>1, <1>2, <1>3
<1>5. QED BY <1>4 DEF PlainBlock, s

\* A sheet without # colours means to m1ss_parse what its declarations say, taken
\* one after the other: line ends and the last semicolon of a block do not matter.
THEOREM PlainSheetsApply == Spec => PlainSheetApplies
<1> DEFINE Applies == \A t \in Texts :
        /\ sheet = t.text
        /\ \A b \in Range(t.blocks) : \A d \in Range(b[2]) : d[2].kind # "hash"
        /\ \E events \in {<<>>, <<"ok">>} : ThemeReload(events)
        => g' = Meaning(t.blocks)
<1>1. Applies
  <2> SUFFICES ASSUME NEW t \in Texts, sheet = t.text,
                      \A b \in Range(t.blocks) : \A d \in Range(b[2]) : d[2].kind # "hash",
                      NEW events, ThemeReload(events)
               PROVE  g' = Meaning(t.blocks)
    OBVIOUS
  <2>1. PICK q \in Typed.sheets, closed \in BOOLEAN : t = [blocks |-> q, text |-> OneLine(q, closed)]
    BY DEF Texts
  <2>2. t.blocks = q /\ t.text = OneLine(q, closed)
    BY <2>1
  <2> DEFINE E == STRING \X (Seq(STRING \X Given) \ {<<>>})
  <2>3. q \in Seq(Blocks) /\ q \in Seq(E)
    BY SheetsAre, TypedAssumption, Zenon
  <2>4. ASSUME NEW i \in 1..Len(q) PROVE PlainBlock(q[i])
    <3> DEFINE b == q[i]
    <3> HIDE DEF E
    <3>1. b \in Blocks /\ b \in E /\ b \in Range(q)
      BY <2>3 DEF Range
    <3> HIDE DEF b
    <3>2. \A d \in Range(b[2]) : d[2].kind # "hash"
      BY <2>2, <3>1
    <3>3. PlainBlock(b)
      BY <3>1, <3>2, PlainIs DEF E
    <3>4. QED BY <3>3 DEF b
  <2>5. ParseSheet(Defaults, OneLine(q, closed)) = Meaning(q)
    BY <2>3, <2>4, ReadSheet
  <2>6. g' = ParseSheet(Defaults, sheet)
    BY DEF ThemeReload
  <2>7. QED BY <2>2, <2>5, <2>6
<1>2. QED BY <1>1, PTL DEF PlainSheetApplies
=============================================================================
