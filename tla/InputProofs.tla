---------------------------- MODULE InputProofs ----------------------------
(***************************************************************************)
(* The ring of keyboard.c is a bounded FIFO, for every size of the ring    *)
(* and however the interrupt interleaves with the reader; the interrupt    *)
(* and the task of input.c use it as one; and the decoder's modifiers end  *)
(* up where the user's hands are, for every user.                          *)
(***************************************************************************)
EXTENDS Input, TLAPS

-----------------------------------------------------------------------------
(* The ring.                                                                 *)


\* A remainder at most once around, either way.
LEMMA AroundOnce ==
    ASSUME NEW N \in Nat \ {0}, NEW x \in -N..2 * N - 1
    PROVE  x % N = IF x < 0 THEN x + N ELSE IF x < N THEN x ELSE x - N
<1> DEFINE q == x \div N
           r == x % N
<1>1. q \in Int /\ r \in 0..N - 1 /\ x = N * q + r
  OBVIOUS
<1>2. q \in {-1, 0, 1}
  <2>1. CASE q >= 2
    <3>1. N * q >= N * 2
      BY <1>1, <2>1
    <3> QED BY <1>1, <3>1
  <2>2. CASE q <= -2
    <3>1. N * q <= N * (-2)
      BY <1>1, <2>2
    <3> QED BY <1>1, <3>1
  <2> QED BY <1>1, <2>1, <2>2
<1>3. CASE q = -1
  BY <1>1, <1>3
<1>4. CASE q = 0
  BY <1>1, <1>4
<1>5. CASE q = 1
  BY <1>1, <1>5
<1> QED BY <1>2, <1>3, <1>4, <1>5

\* The place of the i-th key from t on, and how many there are from t to h.
Place(t, i) == IF (t + i) - 1 < BufSize THEN (t + i) - 1 ELSE ((t + i) - 1) - BufSize
Gap(h, t) == IF h >= t THEN h - t ELSE (h - t) + BufSize
After(x) == IF x + 1 = BufSize THEN 0 ELSE x + 1

\* The index arithmetic of the ring without remainders.
LEMMA RingArithmetic ==
    ASSUME NEW h \in Index, NEW t \in Index
    PROVE  /\ (h - t) % BufSize = Gap(h, t)
           /\ (h + 1) % BufSize = After(h)
           /\ \A i \in 1..BufSize - 1 : (t + i - 1) % BufSize = Place(t, i)
<1>1. BufSize \in Nat \ {0} /\ BufSize >= 2
  BY KeyQueueAssumption
<1>2. (h - t) % BufSize = Gap(h, t)
  <2>1. h - t \in -BufSize..2 * BufSize - 1
    BY <1>1 DEF Index
  <2>2. (h - t) % BufSize
          = IF h - t < 0 THEN (h - t) + BufSize ELSE IF h - t < BufSize THEN h - t ELSE (h - t) - BufSize
    BY <1>1, <2>1, AroundOnce
  <2> QED BY <1>1, <2>2 DEF Gap, Index
<1>3. (h + 1) % BufSize = After(h)
  <2>1. h + 1 \in -BufSize..2 * BufSize - 1
    BY <1>1 DEF Index
  <2>2. (h + 1) % BufSize
          = IF h + 1 < 0 THEN (h + 1) + BufSize ELSE IF h + 1 < BufSize THEN h + 1 ELSE (h + 1) - BufSize
    BY <1>1, <2>1, AroundOnce
  <2> QED BY <1>1, <2>2 DEF After, Index
<1>4. ASSUME NEW i \in 1..BufSize - 1 PROVE (t + i - 1) % BufSize = Place(t, i)
  <2>1. t + i - 1 \in -BufSize..2 * BufSize - 1
    BY <1>1 DEF Index
  <2>2. (t + i - 1) % BufSize
          = IF t + i - 1 < 0 THEN (t + i - 1) + BufSize
            ELSE IF t + i - 1 < BufSize THEN t + i - 1 ELSE (t + i - 1) - BufSize
    BY <1>1, <2>1, AroundOnce
  <2> QED BY <1>1, <2>2 DEF Place, Index
<1> QED BY <1>2, <1>3, <1>4

\* The keys waiting, without remainders.
LEMMA WaitingIs ==
    ASSUME head \in Index, tail \in Index
    PROVE  /\ Gap(head, tail) \in 0..BufSize - 1
           /\ Waiting = [i \in 1..Gap(head, tail) |-> buf[Place(tail, i)]]
           /\ \A i \in 1..Gap(head, tail) : Place(tail, i) \in Index /\ Place(tail, i) # head
<1>1. Gap(head, tail) \in 0..BufSize - 1
  BY KeyQueueAssumption DEF Gap, Index
<1>2. (head - tail) % BufSize = Gap(head, tail)
  BY RingArithmetic
<1>3. ASSUME NEW i \in 1..Gap(head, tail)
      PROVE  /\ (tail + i - 1) % BufSize = Place(tail, i)
             /\ Place(tail, i) \in Index /\ Place(tail, i) # head
  <2>1. i \in 1..BufSize - 1
    BY <1>1, KeyQueueAssumption
  <2>2. (tail + i - 1) % BufSize = Place(tail, i)
    BY <2>1, RingArithmetic
  <2>3. Place(tail, i) \in Index /\ Place(tail, i) # head
    BY KeyQueueAssumption DEF Place, Gap, Index
  <2> QED BY <2>2, <2>3
<1>4. Waiting = [i \in 1..Gap(head, tail) |-> buf[Place(tail, i)]]
  BY <1>2, <1>3 DEF Waiting
<1> QED BY <1>1, <1>3, <1>4

\* What waits are keys; with the types and PeekedIsOldest it is inductive.
KeysWait == \A i \in 1..Gap(head, tail) : buf[Place(tail, i)] \in Keys

RingInv == RingTypeOK /\ KeysWait /\ PeekedIsOldest

LEMMA RingInvInit == RingInit => RingInv
BY KeyQueueAssumption DEF RingInit, RingInv, RingTypeOK, KeysWait, PeekedIsOldest, Index, Gap

\* One more key behind those that wait.
LEMMA PushStep ==
    ASSUME RingInv, NEW k \in Keys, Push(k)
    PROVE  /\ RingInv'
           /\ IF HasRoom THEN Fifo!Put(k) ELSE Fifo!Refuse
<1> USE KeyQueueAssumption
<1>0. /\ buf \in [Index -> Keys \cup {NoKey}] /\ head \in Index /\ tail \in Index
      /\ c' = c /\ got' = got /\ tail' = tail
  BY DEF RingInv, RingTypeOK, Push
<1>1. (head + 1) % BufSize = After(head)
  BY <1>0, RingArithmetic
<1>2. /\ Waiting = [i \in 1..Gap(head, tail) |-> buf[Place(tail, i)]]
      /\ Gap(head, tail) \in 0..BufSize - 1
      /\ \A i \in 1..Gap(head, tail) : Place(tail, i) \in Index /\ Place(tail, i) # head
  BY <1>0, WaitingIs
<1>3. Len(Waiting) = Gap(head, tail)
  BY <1>2
<1>4. CASE ~HasRoom
  <2>1. buf' = buf /\ head' = head
    BY <1>4 DEF Push
  <2>2. RingInv'
    BY <1>0, <2>1 DEF RingInv, RingTypeOK, KeysWait, PeekedIsOldest, Gap, Place
  <2>3. After(head) = tail
    BY <1>1, <1>4 DEF HasRoom
  <2>4. Gap(head, tail) = BufSize - 1
    BY <1>0, <2>3 DEF After, Gap, Index
  <2>5. Waiting' = Waiting
    BY <1>0, <2>1 DEF Waiting
  <2> QED BY <1>0, <1>3, <1>4, <2>2, <2>4, <2>5 DEF Fifo!Refuse, Fifo!vars
<1>5. CASE HasRoom
  <2>1. buf' = [buf EXCEPT ![head] = k] /\ head' = After(head)
    BY <1>1, <1>5 DEF Push
  <2>2. After(head) # tail
    BY <1>1, <1>5 DEF HasRoom
  <2>3. /\ head' \in Index
        /\ Gap(head', tail) = Gap(head, tail) + 1
        /\ Gap(head, tail) < BufSize - 1
        /\ Place(tail, Gap(head, tail) + 1) = head
    <3>1. head' \in Index
      BY <1>0, <2>1 DEF After, Index
    <3>2. Gap(head', tail) = Gap(head, tail) + 1 /\ Gap(head, tail) < BufSize - 1
      BY <1>0, <2>1, <2>2 DEF After, Index, Gap
    <3>3. Place(tail, Gap(head, tail) + 1) = head
      BY <1>0 DEF Index, Gap, Place
    <3> QED BY <3>1, <3>2, <3>3
  <2>4. /\ buf' \in [Index -> Keys \cup {NoKey}]
        /\ buf'[head] = k
        /\ \A j \in Index : j # head => buf'[j] = buf[j]
    BY <1>0, <2>1
  <2>5. \A i \in 1..Gap(head, tail) : buf'[Place(tail, i)] = buf[Place(tail, i)]
    BY <1>2, <2>4
  <2>6. RingInv'
    <3>1. RingTypeOK'
      BY <1>0, <2>3, <2>4 DEF RingInv, RingTypeOK
    <3>2. KeysWait'
      <4>1. \A i \in 1..Gap(head, tail) + 1 : buf'[Place(tail, i)] \in Keys
        BY <1>2, <2>3, <2>4, <2>5 DEF RingInv, KeysWait
      <4>2. Gap(head, tail)' = Gap(head, tail) + 1
        BY <1>0, <2>3 DEF Gap
      <4>3. \A i \in 1..Gap(head, tail) + 1 : Place(tail, i)' = Place(tail, i)
        BY <1>0 DEF Place
      <4> QED BY <4>1, <4>2, <4>3 DEF KeysWait
    <3>3. PeekedIsOldest'
      BY <1>0, <2>1, <2>2, <2>4 DEF RingInv, PeekedIsOldest
    <3> QED BY <3>1, <3>2, <3>3 DEF RingInv
  <2>7. Waiting' = Append(Waiting, k)
    <3>1. Waiting' = [i \in 1..Gap(head', tail) |-> buf'[Place(tail, i)]]
      <4>1. /\ (head' - tail) % BufSize = Gap(head', tail)
            /\ \A i \in 1..BufSize - 1 : (tail + i - 1) % BufSize = Place(tail, i)
        BY <1>0, <2>3, RingArithmetic
      <4>2. Gap(head', tail) \in 0..BufSize - 1
        BY <1>2, <2>3
      <4> QED BY <1>0, <4>1, <4>2 DEF Waiting
    <3>2. Waiting \in Seq(Keys)
      BY <1>2 DEF RingInv, KeysWait
    <3>3. Append(Waiting, k) = [i \in 1..Gap(head, tail) + 1 |->
              IF i = Gap(head, tail) + 1 THEN k ELSE buf[Place(tail, i)]]
      BY <1>2, <1>3, <3>2
    <3>4. ASSUME NEW i \in 1..Gap(head, tail) + 1
          PROVE  buf'[Place(tail, i)] = IF i = Gap(head, tail) + 1 THEN k ELSE buf[Place(tail, i)]
      <4>1. CASE i = Gap(head, tail) + 1
        BY <2>3, <2>4, <4>1
      <4>2. CASE i # Gap(head, tail) + 1
        BY <1>2, <2>5, <4>2
      <4> QED BY <4>1, <4>2
    <3> QED BY <2>3, <3>1, <3>3, <3>4
  <2> QED BY <1>0, <1>3, <1>5, <2>3, <2>6, <2>7 DEF Fifo!Put
<1> QED BY <1>4, <1>5

\* Reading the oldest key moves nothing.
LEMMA PeekStep ==
    ASSUME RingInv, Peek
    PROVE  RingInv' /\ UNCHANGED Fifo!vars
<1>1. /\ buf' = buf /\ head' = head /\ tail' = tail /\ got' = got
      /\ c' = buf[tail] /\ head # tail
  BY DEF Peek
<1>2. head \in Index /\ tail \in Index /\ buf \in [Index -> Keys \cup {NoKey}]
  BY DEF RingInv, RingTypeOK
<1>3. RingInv'
  BY <1>1, <1>2 DEF RingInv, RingTypeOK, KeysWait, PeekedIsOldest, Gap, Place
<1>4. Waiting' = Waiting
  BY <1>1 DEF Waiting
<1> QED BY <1>1, <1>3, <1>4 DEF Fifo!vars

\* Storing tail takes away the key that was read, which is the oldest.
LEMMA AdvanceStep ==
    ASSUME RingInv, Advance
    PROVE  RingInv' /\ Fifo!Get
<1> USE KeyQueueAssumption
<1>0. /\ buf \in [Index -> Keys \cup {NoKey}] /\ head \in Index /\ tail \in Index
      /\ buf' = buf /\ head' = head /\ got' = c /\ c' = NoKey
      /\ head # tail /\ c = buf[tail] /\ c # NoKey
  BY DEF RingInv, RingTypeOK, PeekedIsOldest, Advance
<1>1. tail' = After(tail)
  <2>1. (tail + 1) % BufSize = After(tail)
    BY <1>0, RingArithmetic
  <2> QED BY <2>1 DEF Advance
<1>2. /\ Waiting = [i \in 1..Gap(head, tail) |-> buf[Place(tail, i)]]
      /\ Gap(head, tail) \in 1..BufSize - 1
      /\ Place(tail, 1) = tail
  <2>1. Waiting = [i \in 1..Gap(head, tail) |-> buf[Place(tail, i)]]
    BY <1>0, WaitingIs
  <2>2. Gap(head, tail) \in 1..BufSize - 1
    BY <1>0 DEF Gap, Index
  <2>3. Place(tail, 1) = tail
    BY <1>0 DEF Place, Index
  <2> QED BY <2>1, <2>2, <2>3
<1>3. /\ tail' \in Index
      /\ Gap(head, tail') = Gap(head, tail) - 1
      /\ \A i \in 1..Gap(head, tail) - 1 : Place(tail', i) = Place(tail, i + 1)
  <2>1. tail' \in Index
    BY <1>0, <1>1 DEF After, Index
  <2>2. Gap(head, tail') = Gap(head, tail) - 1
    BY <1>0, <1>1 DEF After, Index, Gap
  <2>3. ASSUME NEW i \in 1..Gap(head, tail) - 1 PROVE Place(tail', i) = Place(tail, i + 1)
    BY <1>0, <1>1, <1>2 DEF After, Index, Place
  <2> QED BY <2>1, <2>2, <2>3
<1>4. RingInv'
  <2>1. RingTypeOK'
    BY <1>0, <1>3 DEF RingInv, RingTypeOK
  <2>2. KeysWait'
    <3>1. \A i \in 1..Gap(head, tail) - 1 : buf[Place(tail', i)] \in Keys
      BY <1>2, <1>3 DEF RingInv, KeysWait
    <3>2. Gap(head, tail)' = Gap(head, tail) - 1
      BY <1>0, <1>3 DEF Gap
    <3>3. \A i \in 1..Gap(head, tail) - 1 : Place(tail, i)' = Place(tail', i)
      BY DEF Place
    <3> QED BY <1>0, <3>1, <3>2, <3>3 DEF KeysWait
  <2>3. PeekedIsOldest'
    BY <1>0 DEF PeekedIsOldest
  <2> QED BY <2>1, <2>2, <2>3 DEF RingInv
<1>5. Waiting # <<>> /\ Head(Waiting) = c
  BY <1>0, <1>2
<1>6. Waiting' = Tail(Waiting)
  <2>1. Waiting' = [i \in 1..Gap(head, tail') |-> buf[Place(tail', i)]]
    <3>1. /\ (head - tail') % BufSize = Gap(head, tail')
          /\ \A i \in 1..BufSize - 1 : (tail' + i - 1) % BufSize = Place(tail', i)
      BY <1>0, <1>3, RingArithmetic
    <3>2. Gap(head, tail') \in 0..BufSize - 1
      BY <1>2, <1>3
    <3> QED BY <1>0, <3>1, <3>2 DEF Waiting
  <2>2. Waiting \in Seq(Keys) /\ Len(Waiting) = Gap(head, tail)
    BY <1>2 DEF RingInv, KeysWait
  <2>3. Tail(Waiting) = [i \in 1..Gap(head, tail) - 1 |-> buf[Place(tail, i + 1)]]
    BY <1>2, <2>2
  <2> QED BY <1>3, <2>1, <2>3
<1> QED BY <1>0, <1>4, <1>5, <1>6 DEF Fifo!Get

\* keyboard.c, push and keyboard_getc_nonblock: the key a reader holds between
\* its two steps is still the oldest one in the ring.
THEOREM RingInvHolds == RingSpec => [](RingTypeOK /\ PeekedIsOldest)
<1>1. RingInv /\ [RingNext]_ring => RingInv'
  <2> SUFFICES ASSUME RingInv, [RingNext]_ring PROVE RingInv'
    OBVIOUS
  <2>1. CASE UNCHANGED ring
    BY <2>1 DEF ring, RingInv, RingTypeOK, KeysWait, PeekedIsOldest, Gap, Place
  <2>2. CASE RingNext
    BY <2>2, PushStep, PeekStep, AdvanceStep DEF RingNext
  <2> QED BY <2>1, <2>2
<1>2. RingInv => RingTypeOK /\ PeekedIsOldest
  BY DEF RingInv
<1> QED BY <1>1, <1>2, RingInvInit, PTL DEF RingSpec

\* The ring implements the bounded FIFO of BUF_SIZE - 1 keys: every step of it
\* puts a key, refuses one, takes the oldest one or does nothing.
THEOREM RingIsFifo == RingSpec => KeysInOrder
<1>1. RingInit => Fifo!Init
  <2> SUFFICES ASSUME RingInit PROVE Fifo!Init
    OBVIOUS
  <2>1. head = 0 /\ tail = 0 /\ got = NoKey
    BY DEF RingInit
  <2>2. 0 \in Index /\ Gap(0, 0) = 0
    BY KeyQueueAssumption DEF Index, Gap
  <2>3. Waiting = [i \in 1..0 |-> buf[Place(tail, i)]]
    BY <2>1, <2>2, WaitingIs
  <2>4. Waiting = <<>>
    BY <2>3
  <2> QED BY <2>1, <2>4 DEF Fifo!Init
<1>2. RingInv /\ [RingNext]_ring => RingInv' /\ [Fifo!Next]_Fifo!vars
  <2> SUFFICES ASSUME RingInv, [RingNext]_ring PROVE RingInv' /\ [Fifo!Next]_Fifo!vars
    OBVIOUS
  <2>1. CASE UNCHANGED ring
    <3>1. RingInv'
      BY <2>1 DEF ring, RingInv, RingTypeOK, KeysWait, PeekedIsOldest, Gap, Place
    <3>2. Waiting' = Waiting /\ got' = got
      BY <2>1 DEF ring, Waiting
    <3> QED BY <3>1, <3>2 DEF Fifo!vars
  <2>2. ASSUME NEW k \in Keys, Push(k) PROVE RingInv' /\ [Fifo!Next]_Fifo!vars
    BY <2>2, PushStep DEF Fifo!Next
  <2>3. CASE Peek
    BY <2>3, PeekStep
  <2>4. CASE Advance
    BY <2>4, AdvanceStep DEF Fifo!Next
  <2> QED BY <2>1, <2>2, <2>3, <2>4 DEF RingNext
<1> QED BY <1>1, <1>2, RingInvInit, PTL DEF RingSpec, KeysInOrder, Fifo!Spec
-----------------------------------------------------------------------------
(* The interrupt and the task only push, peek and advance.                   *)

\* A key that kb_callback pushes is one of Keys.
LEMMA GlyphsAreKeys ==
    ASSUME DecoderTypeOK, NEW b \in Bytes, b # E0, NEW d \in {"none", "acute", "diaeresis"}
    PROVE  /\ b.code \notin Shifts \cup {"caps"} => GlyphOf(b.code, d) \in Keys \cup {NoKey}
           /\ <<"up", "none", "plain">> \in Keys
<1>1. b.code \in Codes
  BY DEF Bytes, E0
<1>2. <<"up", "none", "plain">> \in Glyphs
  BY DEF Glyphs
<1>3. ASSUME b.code = "u" PROVE GlyphOf(b.code, d) \in Glyphs
  BY <1>3 DEF GlyphOf, Glyphs
<1>4. ASSUME b.code \in {"one", "accent"} PROVE GlyphOf(b.code, d) \in Glyphs
  BY <1>4 DEF GlyphOf, Glyphs
<1>5. ASSUME b.code \in {"alt", "up"} PROVE GlyphOf(b.code, d) = NoKey
  BY <1>5 DEF GlyphOf
<1>6. b.code \notin Shifts \cup {"caps"} => b.code \in {"u", "one", "accent", "alt", "up"}
  BY <1>1 DEF Codes
<1> QED BY <1>2, <1>3, <1>4, <1>5, <1>6, InputAssumption

\* One byte pushes at most one key.
LEMMA CallbackRings ==
    ASSUME DecoderTypeOK, NEW b \in Bytes, KbCallback(b)
    PROVE  DecoderTypeOK' /\ [RingNext]_ring
<1>1. CASE b = E0
  BY <1>1 DEF KbCallback, DecoderTypeOK
<1>2. CASE b # E0 /\ ext
  <2>1. Extended(b)
    BY <1>2 DEF KbCallback
  <2>2. b.up \in BOOLEAN
    BY <1>2 DEF Bytes, E0
  <2>3. DecoderTypeOK'
    BY <2>1, <2>2 DEF Extended, DecoderTypeOK
  <2>4. [RingNext]_ring
    BY <1>2, <2>1, GlyphsAreKeys DEF Extended, Emit, RingNext
  <2> QED BY <2>3, <2>4
<1>3. CASE b # E0 /\ ~ext /\ b.up
  BY <1>3 DEF KbCallback, Released, DecoderTypeOK
<1>4. CASE b # E0 /\ ~ext /\ ~b.up
  <2>1. Pressed(b)
    BY <1>4 DEF KbCallback
  <2>2. CASE PressedModifier(b)
    BY <2>2 DEF PressedModifier, DecoderTypeOK
  <2>3. CASE PressedAccent(b)
    BY <2>3 DEF PressedAccent, DecoderTypeOK
  <2>4. CASE PressedKey(b)
    <3>1. DecoderTypeOK'
      BY <2>4 DEF PressedKey, DecoderTypeOK
    <3> DEFINE d == IF layout = "es" THEN dead ELSE "none"
    <3>2. d \in {"none", "acute", "diaeresis"}
      BY DEF DecoderTypeOK
    <3>3. b.code \notin Shifts \cup {"caps"} /\ Emit(GlyphOf(b.code, d))
      BY <2>4 DEF PressedKey
    <3> HIDE DEF d
    <3>4. GlyphOf(b.code, d) \in Keys \cup {NoKey}
      BY <1>4, <3>2, <3>3, GlyphsAreKeys
    <3>5. [RingNext]_ring
      BY <3>3, <3>4 DEF Emit, RingNext
    <3> QED BY <3>1, <3>5
  <2> QED BY <2>1, <2>2, <2>3, <2>4 DEF Pressed
<1> QED BY <1>1, <1>2, <1>3, <1>4 DEF KbCallback

-----------------------------------------------------------------------------
(* The wire w: the bytes between the user's hands and the decoder.           *)

Prefixed == {"alt", "up"}

\* Prefixed codes and only those follow a 0xE0, which may be decoded already.
Framed(w, e) ==
    /\ \A i \in 1..Len(w) : w[i].code = "e0" => i + 1 \in 1..Len(w) /\ w[i + 1].code \in Prefixed
    /\ \A i \in 1..Len(w) : i > 1 /\ w[i].code \in Prefixed => w[i - 1].code = "e0"
    /\ IF Len(w) = 0 THEN ~e ELSE e <=> w[1].code \in Prefixed

\* The last byte with one of the codes S, if any.
NoneOf(w, S) == \A i \in 1..Len(w) : w[i].code \notin S
LastOf(w, S, i) ==
    i \in 1..Len(w) /\ w[i].code \in S /\ \A j \in 1..Len(w) : j > i => w[j].code \notin S

\* q is w with a press (~up) or a release.
Extends(w, q, code, up) ==
    /\ \A i \in 1..Len(w) : q[i] = w[i]
    /\ q[Len(q)].code = code /\ (q[Len(q)].up <=> up)
    /\ IF code \in Prefixed THEN Len(q) = Len(w) + 2 /\ q[Len(w) + 1].code = "e0"
       ELSE Len(q) = Len(w) + 1

LEMMA FramedSent ==
    ASSUME NEW w, NEW q, NEW e, NEW code, NEW up, code # "e0", Len(w) \in Nat,
           Framed(w, e), Extends(w, q, code, up)
    PROVE  Framed(q, e)
<1> DEFINE n == Len(w)
           m == Len(q)
<1>1. n \in Nat /\ \A i \in 1..n : q[i] = w[i]
  BY DEF Extends
<1>2. q[m].code = code /\ (m = n + 1 \/ m = n + 2)
  BY DEF Extends
<1>3. m = n + 2 => q[n + 1].code = "e0" /\ code \in Prefixed
  BY <1>1 DEF Extends
<1>4. m = n + 1 => code \notin Prefixed
  BY <1>1 DEF Extends
<1>5. \A i \in 1..n : w[i].code = "e0" => i + 1 \in 1..n /\ w[i + 1].code \in Prefixed
  BY DEF Framed
<1>6. \A i \in 1..n : i > 1 /\ w[i].code \in Prefixed => w[i - 1].code = "e0"
  BY DEF Framed
<1>7. IF n = 0 THEN ~e ELSE e <=> w[1].code \in Prefixed
  BY DEF Framed
<1>8. Framed(q, e) <=>
        /\ \A i \in 1..m : q[i].code = "e0" => i + 1 \in 1..m /\ q[i + 1].code \in Prefixed
        /\ \A i \in 1..m : i > 1 /\ q[i].code \in Prefixed => q[i - 1].code = "e0"
        /\ IF m = 0 THEN ~e ELSE e <=> q[1].code \in Prefixed
  BY DEF Framed
<1>9. "e0" \notin Prefixed
  BY DEF Prefixed
<1> HIDE DEF n, m
<1>10. m \in Nat /\ m > n
  BY <1>1, <1>2
<1>11. \A i \in 1..m : i \in 1..n \/ i = m \/ (i = n + 1 /\ m = n + 2)
  BY <1>1, <1>2
<1>12. ASSUME NEW i \in 1..m, q[i].code = "e0"
       PROVE  i + 1 \in 1..m /\ q[i + 1].code \in Prefixed
  <2>1. CASE i \in 1..n
    <3>1. i + 1 \in 1..n /\ w[i + 1].code \in Prefixed
      BY <1>1, <1>5, <1>12, <2>1
    <3> QED BY <1>1, <1>10, <3>1
  <2>2. CASE i = n + 1 /\ m = n + 2
    <3>1. i + 1 = m /\ i + 1 \in 1..m
      BY <1>1, <2>2
    <3> QED BY <1>2, <1>3, <2>2, <3>1
  <2>3. CASE i = m
    BY <1>2, <1>12, <2>3
  <2> QED BY <1>11, <2>1, <2>2, <2>3
<1>13. ASSUME NEW i \in 1..m, i > 1, q[i].code \in Prefixed
       PROVE  q[i - 1].code = "e0"
  <2>1. CASE i \in 1..n
    <3>1. w[i - 1].code = "e0" /\ i - 1 \in 1..n
      BY <1>1, <1>6, <1>13, <2>1
    <3> QED BY <1>1, <3>1
  <2>2. CASE i = m
    <3>1. m = n + 2
      BY <1>2, <1>4, <1>13, <2>2
    <3>2. i - 1 = n + 1
      BY <1>1, <2>2, <3>1
    <3> QED BY <1>3, <3>1, <3>2
  <2>3. CASE i = n + 1 /\ m = n + 2
    BY <1>3, <1>9, <1>13, <2>3
  <2> QED BY <1>11, <2>1, <2>2, <2>3
<1>14. m # 0 /\ (e <=> q[1].code \in Prefixed)
  <2>1. CASE n = 0 /\ m = n + 1
    <3>1. m = 1 /\ q[1].code \notin Prefixed
      BY <1>2, <1>4, <2>1
    <3> QED BY <1>7, <2>1, <3>1
  <2>2. CASE n = 0 /\ m = n + 2
    <3>1. m = 2 /\ q[1].code = "e0"
      BY <1>3, <2>2
    <3> QED BY <1>7, <1>9, <2>2, <3>1
  <2>3. CASE n # 0
    <3>1. 1 \in 1..n /\ m # 0
      BY <1>1, <1>10, <2>3
    <3> QED BY <1>1, <1>7, <2>3, <3>1
  <2> QED BY <1>2, <2>1, <2>2, <2>3
<1> QED BY <1>8, <1>12, <1>13, <1>14

\* What sending and decoding a byte does to the last byte with one of the codes.
Decides(w, q, S, code, up) ==
    /\ code \in S => /\ ~NoneOf(q, S)
                     /\ \A i : LastOf(q, S, i) => (q[i].up <=> up)
    /\ code \notin S => /\ NoneOf(q, S) => NoneOf(w, S)
                        /\ \A i : LastOf(q, S, i) => LastOf(w, S, i) /\ q[i] = w[i]

Passes(w, q, S) ==
    /\ NoneOf(q, S) => IF w[1].code \in S THEN LastOf(w, S, 1) ELSE NoneOf(w, S)
    /\ \A i : LastOf(q, S, i) => LastOf(w, S, i + 1) /\ q[i] = w[i + 1]

\* A new byte with one of the codes decides, any other leaves the decision.
LEMMA LastSent ==
    ASSUME NEW w, NEW q, NEW code, NEW up, Len(w) \in Nat, Extends(w, q, code, up),
           NEW S, "e0" \notin S
    PROVE  Decides(w, q, S, code, up)
<1> DEFINE n == Len(w)
           m == Len(q)
<1>1. n \in Nat /\ \A i \in 1..n : q[i] = w[i]
  BY DEF Extends
<1>2. q[m].code = code /\ (q[m].up <=> up) /\ (m = n + 1 \/ m = n + 2)
  BY DEF Extends
<1>3. m = n + 2 => q[n + 1].code = "e0"
  BY <1>1 DEF Extends
<1>4. NoneOf(q, S) <=> \A i \in 1..m : q[i].code \notin S
  BY DEF NoneOf
<1>5. NoneOf(w, S) <=> \A i \in 1..n : w[i].code \notin S
  BY DEF NoneOf
<1>6. \A i : LastOf(q, S, i) <=>
         i \in 1..m /\ q[i].code \in S /\ \A j \in 1..m : j > i => q[j].code \notin S
  BY DEF LastOf
<1>7. \A i : LastOf(w, S, i) <=>
         i \in 1..n /\ w[i].code \in S /\ \A j \in 1..n : j > i => w[j].code \notin S
  BY DEF LastOf
<1> HIDE DEF n, m
<1>8. m \in Nat /\ m > n /\ m \in 1..m /\ \A i \in 1..n : i \in 1..m
  BY <1>1, <1>2
<1>9. \A i \in 1..m : i \in 1..n \/ i = m \/ (i = n + 1 /\ m = n + 2)
  BY <1>1, <1>2
<1>10. ASSUME code \in S
       PROVE  ~NoneOf(q, S) /\ \A i : LastOf(q, S, i) => (q[i].up <=> up)
  <2>1. ~NoneOf(q, S)
    BY <1>2, <1>4, <1>8, <1>10
  <2>2. ASSUME NEW i, LastOf(q, S, i) PROVE i = m
    <3>1. i \in 1..m /\ ~(m > i)
      BY <1>2, <1>6, <1>8, <1>10, <2>2
    <3> QED BY <1>8, <3>1
  <2> QED BY <1>2, <1>10, <2>1, <2>2
<1>11. ASSUME code \notin S
       PROVE  /\ NoneOf(q, S) => NoneOf(w, S)
              /\ \A i : LastOf(q, S, i) => LastOf(w, S, i) /\ q[i] = w[i]
  <2>1. NoneOf(q, S) => NoneOf(w, S)
    BY <1>1, <1>4, <1>5, <1>8
  <2>2. ASSUME NEW i, LastOf(q, S, i) PROVE LastOf(w, S, i) /\ q[i] = w[i]
    <3>1. i \in 1..m /\ q[i].code \in S /\ \A j \in 1..m : j > i => q[j].code \notin S
      BY <1>6, <2>2
    <3>2. i \in 1..n
      BY <1>2, <1>3, <1>9, <1>11, <3>1
    <3>3. \A j \in 1..n : j > i => w[j].code \notin S
      BY <1>1, <1>8, <3>1
    <3> QED BY <1>1, <1>7, <3>1, <3>2, <3>3
  <2> QED BY <1>11, <2>1, <2>2
<1> QED BY <1>10, <1>11 DEF Decides

\* q is what is left of w when its first byte has been decoded.
LEMMA FramedTaken ==
    ASSUME NEW w, Len(w) \in Nat, w # <<>>, NEW q, Len(q) = Len(w) - 1,
           \A i \in 1..Len(q) : q[i] = w[i + 1], NEW e, Framed(w, e), Len(w) # 0
    PROVE  Framed(q, w[1].code = "e0")
<1> DEFINE n == Len(w)
           m == Len(q)
<1>1. n \in Nat /\ n >= 1 /\ m = n - 1 /\ \A i \in 1..m : q[i] = w[i + 1]
  OBVIOUS
<1>2. \A i \in 1..n : w[i].code = "e0" => i + 1 \in 1..n /\ w[i + 1].code \in Prefixed
  BY DEF Framed
<1>3. \A i \in 1..n : i > 1 /\ w[i].code \in Prefixed => w[i - 1].code = "e0"
  BY DEF Framed
<1>4. Framed(q, w[1].code = "e0") <=>
        /\ \A i \in 1..m : q[i].code = "e0" => i + 1 \in 1..m /\ q[i + 1].code \in Prefixed
        /\ \A i \in 1..m : i > 1 /\ q[i].code \in Prefixed => q[i - 1].code = "e0"
        /\ IF m = 0 THEN ~(w[1].code = "e0") ELSE (w[1].code = "e0") <=> q[1].code \in Prefixed
  BY DEF Framed
<1> HIDE DEF n, m
<1>5. ASSUME NEW i \in 1..m, q[i].code = "e0"
      PROVE  i + 1 \in 1..m /\ q[i + 1].code \in Prefixed
  <2>1. i + 1 \in 1..n /\ w[i + 1].code = "e0"
    BY <1>1, <1>5
  <2>2. i + 1 + 1 \in 1..n /\ w[i + 1 + 1].code \in Prefixed
    BY <1>2, <2>1
  <2>3. i + 1 \in 1..m
    BY <1>1, <2>2
  <2> QED BY <1>1, <2>2, <2>3
<1>6. ASSUME NEW i \in 1..m, i > 1, q[i].code \in Prefixed
      PROVE  q[i - 1].code = "e0"
  <2>1. i + 1 \in 1..n /\ i + 1 > 1 /\ w[i + 1].code \in Prefixed
    BY <1>1, <1>6
  <2>2. w[i + 1 - 1].code = "e0" /\ i + 1 - 1 = i - 1 + 1 /\ i - 1 \in 1..m
    BY <1>1, <1>3, <1>6, <2>1
  <2> QED BY <1>1, <2>2
<1>7. CASE m = 0
  <2>1. n = 1 /\ 1 \in 1..n /\ 1 + 1 \notin 1..n
    BY <1>1, <1>7
  <2> QED BY <1>2, <1>4, <1>5, <1>6, <1>7, <2>1
<1>8. CASE m # 0
  <2>1. 1 \in 1..m /\ 1 \in 1..n /\ 2 \in 1..n /\ q[1] = w[2]
    BY <1>1, <1>8
  <2>2. w[1].code = "e0" => w[2].code \in Prefixed
    BY <1>2, <2>1
  <2>3. w[2].code \in Prefixed => w[1].code = "e0"
    BY <1>3, <2>1
  <2> QED BY <1>4, <1>5, <1>6, <1>8, <2>1, <2>2, <2>3
<1> QED BY <1>7, <1>8

LEMMA LastTaken ==
    ASSUME NEW w, Len(w) \in Nat, Len(w) # 0, NEW q, Len(q) = Len(w) - 1,
           \A i \in 1..Len(q) : q[i] = w[i + 1], NEW S
    PROVE  Passes(w, q, S)
<1> DEFINE n == Len(w)
           m == Len(q)
<1>1. n \in Nat /\ n >= 1 /\ m = n - 1 /\ \A i \in 1..m : q[i] = w[i + 1]
  OBVIOUS
<1>4. NoneOf(q, S) <=> \A i \in 1..m : q[i].code \notin S
  BY DEF NoneOf
<1>5. NoneOf(w, S) <=> \A i \in 1..n : w[i].code \notin S
  BY DEF NoneOf
<1>6. \A i : LastOf(q, S, i) <=>
         i \in 1..m /\ q[i].code \in S /\ \A j \in 1..m : j > i => q[j].code \notin S
  BY DEF LastOf
<1>7. \A i : LastOf(w, S, i) <=>
         i \in 1..n /\ w[i].code \in S /\ \A j \in 1..n : j > i => w[j].code \notin S
  BY DEF LastOf
<1> HIDE DEF n, m
<1>8. \A j \in 1..n : j > 1 => j - 1 \in 1..m /\ w[j] = q[j - 1]
  <2>1. ASSUME NEW j \in 1..n, j > 1 PROVE j - 1 \in 1..m /\ w[j] = q[j - 1]
    <3>1. j - 1 \in 1..m /\ j - 1 + 1 = j
      BY <1>1, <2>1
    <3> QED BY <1>1, <3>1
  <2> QED BY <2>1
<1>9. ASSUME NoneOf(q, S) PROVE IF w[1].code \in S THEN LastOf(w, S, 1) ELSE NoneOf(w, S)
  <2>1. \A j \in 1..n : j > 1 => w[j].code \notin S
    BY <1>4, <1>8, <1>9
  <2>2. 1 \in 1..n /\ \A j \in 1..n : j = 1 \/ j > 1
    BY <1>1
  <2> QED BY <1>5, <1>7, <2>1, <2>2
<1>10. ASSUME NEW i, LastOf(q, S, i) PROVE LastOf(w, S, i + 1) /\ q[i] = w[i + 1]
  <2>1. i \in 1..m /\ q[i].code \in S /\ \A j \in 1..m : j > i => q[j].code \notin S
    BY <1>6, <1>10
  <2>2. i + 1 \in 1..n /\ q[i] = w[i + 1]
    BY <1>1, <2>1
  <2>3. ASSUME NEW j \in 1..n, j > i + 1 PROVE w[j].code \notin S
    <3>1. j > 1 /\ j - 1 > i
      BY <2>1, <2>3
    <3> QED BY <1>8, <2>1, <3>1
  <2> QED BY <1>7, <2>1, <2>2, <2>3
<1> QED BY <1>9, <1>10 DEF Passes

-----------------------------------------------------------------------------
(* The modifiers: what is still on the wire about one decides, and when there *)
(* is nothing the decoder has it right.                                       *)

Either(h) == "lshift" \in h \/ "rshift" \in h
Both(h) == "lshift" \in h /\ "rshift" \in h

Alts == {"alt"}

AltGrOn(w, h, a) ==
    /\ NoneOf(w, Alts) => (a <=> "ralt" \in h)
    /\ \A i : LastOf(w, Alts, i) => (w[i].up <=> "ralt" \notin h)

ShiftOn(w, h, s, o) ==
    /\ ~o => ~Both(h)
    /\ NoneOf(w, Shifts) => (s => Either(h)) /\ (~o /\ Either(h) => s)
    /\ \A i : LastOf(w, Shifts, i) => /\ w[i].up /\ ~o => ~Either(h)
                                      /\ ~w[i].up => Either(h)

\* The code of a key, its prefix apart.
Coded(k) == IF k = "ralt" THEN "alt" ELSE IF k = "arrow" THEN "up" ELSE k

LEMMA CodedIs ==
    ASSUME NEW k \in UserKeys
    PROVE  /\ Coded(k) \in Codes /\ Coded(k) # "e0" /\ (Coded(k) = "alt" <=> k = "ralt")
           /\ (Coded(k) \in Shifts <=> k \in Shifts)
           /\ (Coded(k) \in Prefixed <=> k \in {"ralt", "arrow"})
<1>1. k \in {"lshift", "rshift", "ralt", "arrow", "caps", "u", "one", "accent"}
  BY InputAssumption DEF Shifts
<1> QED BY <1>1 DEF Coded, Codes, Shifts, Prefixed

LEMMA AltGrSent ==
    ASSUME NEW w, NEW q, NEW h, NEW a, NEW k \in UserKeys, NEW up, Len(w) \in Nat,
           Extends(w, q, Coded(k), up), AltGrOn(w, h, a),
           NEW g, g = IF up THEN h \ {k} ELSE h \cup {k}
    PROVE  AltGrOn(q, g, a)
<1>1. Decides(w, q, Alts, Coded(k), up)
  <2>1. "e0" \notin Alts
    BY DEF Alts
  <2> QED BY <2>1, LastSent
<1>2. Coded(k) \in Alts <=> k = "ralt"
  BY CodedIs DEF Alts
<1>3. CASE k = "ralt"
  <2>1. up <=> "ralt" \notin g
    BY <1>3
  <2> QED BY <1>1, <1>2, <1>3, <2>1 DEF AltGrOn, Decides, Passes
<1>4. CASE k # "ralt"
  <2>1. "ralt" \in g <=> "ralt" \in h
    BY <1>4
  <2>2. NoneOf(q, Alts) => (a <=> "ralt" \in g)
    BY <1>1, <1>2, <1>4, <2>1 DEF AltGrOn, Decides, Passes
  <2>0. \A i : LastOf(q, Alts, i) => LastOf(w, Alts, i) /\ q[i] = w[i]
    <3>1. Coded(k) \notin Alts
      BY <1>2, <1>4
    <3> QED BY <1>1, <3>1 DEF Decides
  <2>3. ASSUME NEW i, LastOf(q, Alts, i) PROVE q[i].up <=> "ralt" \notin g
    <3>1. LastOf(w, Alts, i) /\ q[i] = w[i]
      BY <2>0, <2>3
    <3>2. w[i].up <=> "ralt" \notin h
      BY <3>1 DEF AltGrOn, Decides, Passes
    <3> QED BY <2>1, <3>1, <3>2
  <2> QED BY <2>2, <2>3 DEF AltGrOn, Decides, Passes
<1> QED BY <1>3, <1>4

LEMMA ShiftSent ==
    ASSUME NEW w, NEW q, NEW h, NEW s, NEW o, NEW k \in UserKeys, NEW up, Len(w) \in Nat,
           Extends(w, q, Coded(k), up), ShiftOn(w, h, s, o), up => k \in h,
           NEW g, g = IF up THEN h \ {k} ELSE h \cup {k},
           NEW oo, o => oo, ~oo => ~Both(g)
    PROVE  ShiftOn(q, g, s, oo)
<1>1. Decides(w, q, Shifts, Coded(k), up)
  <2>1. "e0" \notin Shifts
    BY DEF Shifts
  <2> QED BY <2>1, LastSent
<1>2. Coded(k) \in Shifts <=> k \in Shifts
  BY CodedIs
<1>3. CASE k \in Shifts
  <2>1. up /\ ~oo => ~Either(g)
    <3> SUFFICES ASSUME up, ~oo PROVE ~Either(g)
      OBVIOUS
    <3>1. k \in h /\ g = h \ {k} /\ ~Both(h)
      BY DEF ShiftOn, Decides, Passes
    <3> QED BY <1>3, <3>1 DEF Either, Both, Shifts
  <2>2. ~up => Either(g)
    BY <1>3 DEF Either, Shifts
  <2> QED BY <1>1, <1>2, <1>3, <2>1, <2>2 DEF ShiftOn, Decides, Passes
<1>4. CASE k \notin Shifts
  <2>1. Either(g) <=> Either(h)
    BY <1>4 DEF Either, Shifts
  <2>2. NoneOf(q, Shifts) => (s => Either(g)) /\ (~oo /\ Either(g) => s)
    BY <1>1, <1>2, <1>4, <2>1 DEF ShiftOn, Decides, Passes
  <2>0. \A i : LastOf(q, Shifts, i) => LastOf(w, Shifts, i) /\ q[i] = w[i]
    <3>1. Coded(k) \notin Shifts
      BY <1>2, <1>4
    <3> QED BY <1>1, <3>1 DEF Decides
  <2>3. ASSUME NEW i, LastOf(q, Shifts, i)
        PROVE  /\ q[i].up /\ ~oo => ~Either(g)
               /\ ~q[i].up => Either(g)
    <3>1. LastOf(w, Shifts, i) /\ q[i] = w[i]
      BY <2>0, <2>3
    <3>2. /\ w[i].up /\ ~o => ~Either(h)
          /\ ~w[i].up => Either(h)
      BY <3>1 DEF ShiftOn, Decides, Passes
    <3> QED BY <2>1, <3>1, <3>2
  <2> QED BY <2>2, <2>3 DEF ShiftOn, Decides, Passes
<1> QED BY <1>3, <1>4

LEMMA AltGrTaken ==
    ASSUME NEW w, Len(w) \in Nat, Len(w) # 0, NEW q, Len(q) = Len(w) - 1,
           \A i \in 1..Len(q) : q[i] = w[i + 1], NEW h, NEW a, NEW aa
    PROVE  /\ AltGrOn(w, h, a)
           /\ w[1].code = "alt" => (aa <=> ~w[1].up)
           /\ w[1].code # "alt" => (aa <=> a)
           => AltGrOn(q, h, aa)
<1>1. Passes(w, q, Alts)
  BY LastTaken
<1> SUFFICES ASSUME AltGrOn(w, h, a),
                    w[1].code = "alt" => (aa <=> ~w[1].up), w[1].code # "alt" => (aa <=> a)
             PROVE  AltGrOn(q, h, aa)
  OBVIOUS
<1>2. w[1].code \in Alts <=> w[1].code = "alt"
  BY DEF Alts
<1>3. ASSUME NoneOf(q, Alts) PROVE aa <=> "ralt" \in h
  BY <1>1, <1>2, <1>3 DEF AltGrOn, Decides, Passes
<1>4. ASSUME NEW i, LastOf(q, Alts, i) PROVE q[i].up <=> "ralt" \notin h
  BY <1>1, <1>4 DEF AltGrOn, Decides, Passes
<1> QED BY <1>3, <1>4 DEF AltGrOn, Decides, Passes

LEMMA ShiftTaken ==
    ASSUME NEW w, Len(w) \in Nat, Len(w) # 0, NEW q, Len(q) = Len(w) - 1,
           \A i \in 1..Len(q) : q[i] = w[i + 1], NEW h, NEW s, NEW o, ShiftOn(w, h, s, o),
           NEW ss, w[1].code \in Shifts => (ss <=> ~w[1].up), w[1].code \notin Shifts => (ss <=> s)
    PROVE  ShiftOn(q, h, ss, o)
<1>1. Passes(w, q, Shifts)
  BY LastTaken
<1>2. ASSUME NoneOf(q, Shifts) PROVE (ss => Either(h)) /\ (~o /\ Either(h) => ss)
  BY <1>1, <1>2 DEF ShiftOn, Decides, Passes
<1>3. ASSUME NEW i, LastOf(q, Shifts, i)
      PROVE  /\ q[i].up /\ ~o => ~Either(h)
             /\ ~q[i].up => Either(h)
  BY <1>1, <1>3 DEF ShiftOn, Decides, Passes
<1>4. ~o => ~Both(h)
  BY DEF ShiftOn, Decides, Passes
<1> QED BY <1>2, <1>3, <1>4 DEF ShiftOn, Decides, Passes

\* What a press or a release puts on the wire.
LEMMA SentBytes ==
    ASSUME NEW w \in Seq(Bytes), NEW k \in UserKeys, NEW up \in BOOLEAN,
           NEW q, q = w \o Scancode(k, up)
    PROVE  q \in Seq(Bytes) /\ Extends(w, q, Coded(k), up)
<1> DEFINE b == [code |-> Coded(k), up |-> up]
<1>1. b \in Bytes /\ E0 \in Bytes /\ Len(w) \in Nat
  BY CodedIs DEF Bytes
<1>2. b.code = Coded(k) /\ b.up = up /\ E0.code = "e0"
  BY DEF E0
<1>3. CASE k \in {"ralt", "arrow"}
  <2>1. Scancode(k, up) = <<E0, b>> /\ Coded(k) \in Prefixed
    BY <1>3 DEF Scancode, Coded, Prefixed
  <2> HIDE DEF b
  <2>2. q = w \o <<E0, b>>
    BY <2>1
  <2>3. q \in Seq(Bytes) /\ Len(q) = Len(w) + 2
    BY <1>1, <2>2
  <2>4. q[Len(w) + 1] = E0 /\ q[Len(w) + 2] = b /\ \A i \in 1..Len(w) : q[i] = w[i]
    BY <1>1, <2>2
  <2> QED BY <1>2, <2>1, <2>3, <2>4 DEF Extends
<1>4. CASE k \notin {"ralt", "arrow"}
  <2>1. Scancode(k, up) = <<b>> /\ Coded(k) \notin Prefixed
    <3>1. Coded(k) \notin Prefixed
      BY <1>4, CodedIs
    <3> QED BY <1>4, <3>1 DEF Scancode, Coded
  <2> HIDE DEF b
  <2>2. q = w \o <<b>>
    BY <2>1
  <2>3. q \in Seq(Bytes) /\ Len(q) = Len(w) + 1
    BY <1>1, <2>2
  <2>4. q[Len(w) + 1] = b /\ \A i \in 1..Len(w) : q[i] = w[i]
    BY <1>1, <2>2
  <2> QED BY <1>2, <2>1, <2>3, <2>4 DEF Extends
<1> QED BY <1>3, <1>4

\* What decoding a byte does to the three flags, given that a prefixed byte comes
\* when one is due.
LEMMA CallbackModes ==
    ASSUME DecoderTypeOK, NEW b \in Bytes, ext <=> b.code \in Prefixed, KbCallback(b)
    PROVE  /\ ext' <=> b.code = "e0"
           /\ b.code = "alt" => (altgr' <=> ~b.up)
           /\ b.code # "alt" => (altgr' <=> altgr)
           /\ b.code \in Shifts => (shift' <=> ~b.up)
           /\ b.code \notin Shifts => (shift' <=> shift)
<1>1. b = E0 <=> b.code = "e0"
  BY DEF Bytes, E0, Codes, Shifts
<1>2. "e0" \notin Shifts /\ "alt" \notin Shifts /\ "alt" \in Prefixed /\ Prefixed \cap Shifts = {}
  BY DEF Shifts, Prefixed
<1>3. CASE b = E0
  BY <1>1, <1>2, <1>3 DEF KbCallback
<1>4. CASE b # E0 /\ ext
  <2>1. b.code \notin Shifts
    BY <1>2, <1>4
  <2>2. Extended(b)
    BY <1>4 DEF KbCallback
  <2> QED BY <1>1, <1>4, <2>1, <2>2 DEF Extended
<1>5. CASE b # E0 /\ ~ext /\ b.up
  <2>1. b.code # "alt"
    BY <1>2, <1>5
  <2>2. Released(b)
    BY <1>5 DEF KbCallback
  <2> QED BY <1>1, <1>5, <2>1, <2>2 DEF Released
<1>6. CASE b # E0 /\ ~ext /\ ~b.up
  <2>1. b.code # "alt"
    BY <1>2, <1>6
  <2>2. Pressed(b)
    BY <1>6 DEF KbCallback
  <2>3. CASE PressedModifier(b)
    BY <1>1, <1>6, <2>1, <2>3 DEF PressedModifier
  <2>4. CASE PressedAccent(b)
    <3>1. b.code \notin Shifts
      BY <2>4 DEF PressedAccent, Shifts
    <3> QED BY <1>1, <1>6, <2>1, <2>4, <3>1 DEF PressedAccent
  <2>5. CASE PressedKey(b)
    BY <1>1, <1>6, <2>1, <2>5 DEF PressedKey
  <2> QED BY <2>2, <2>3, <2>4, <2>5 DEF Pressed
<1> QED BY <1>3, <1>4, <1>5, <1>6 DEF KbCallback

-----------------------------------------------------------------------------
(* The invariant, and one lemma per kind of step.                            *)

HandsInv ==
    /\ wire \in Seq(Bytes) /\ DecoderTypeOK /\ overlap \in BOOLEAN
    /\ held \subseteq UserKeys
    /\ Framed(wire, ext)
    /\ AltGrOn(wire, held, altgr)
    /\ ShiftOn(wire, held, shift, overlap)

LEMMA HandsInit == Init => HandsInv
<1> SUFFICES ASSUME Init PROVE HandsInv
  OBVIOUS
<1>1. /\ wire = <<>> /\ held = {} /\ overlap = FALSE
      /\ ext = FALSE /\ altgr = FALSE /\ shift = FALSE
  BY DEF Init, DecoderInit
<1>2. DecoderTypeOK
  BY DEF Init, DecoderInit, DecoderTypeOK
<1>3. Len(wire) = 0 /\ wire \in Seq(Bytes) /\ 1..Len(wire) = {}
  BY <1>1
<1>4. Framed(wire, ext)
  BY <1>1, <1>3 DEF Framed
<1>5. AltGrOn(wire, held, altgr)
  BY <1>1, <1>3 DEF AltGrOn, LastOf
<1>6. ShiftOn(wire, held, shift, overlap)
  BY <1>1, <1>3 DEF ShiftOn, LastOf, Either, Both
<1> QED BY <1>1, <1>2, <1>3, <1>4, <1>5, <1>6 DEF HandsInv

LEMMA HandsSent ==
    ASSUME HandsInv, NEW k \in UserKeys, NEW up \in BOOLEAN, up => k \in held,
           wire' = wire \o Scancode(k, up), held' = IF up THEN held \ {k} ELSE held \cup {k},
           overlap' \in BOOLEAN, overlap => overlap', ~overlap' => ~Both(held'),
           UNCHANGED decoder
    PROVE  HandsInv'
<1>1. /\ wire \in Seq(Bytes) /\ DecoderTypeOK /\ held \subseteq UserKeys
      /\ Framed(wire, ext) /\ AltGrOn(wire, held, altgr)
      /\ ShiftOn(wire, held, shift, overlap)
  BY DEF HandsInv
<1>2. Len(wire) \in Nat
  BY <1>1
<1>3. wire' \in Seq(Bytes) /\ Extends(wire, wire', Coded(k), up)
  BY <1>1, SentBytes
<1>4. Framed(wire', ext)
  <2>1. Coded(k) # "e0"
    BY CodedIs
  <2> QED BY <1>1, <1>2, <1>3, <2>1, FramedSent
<1>5. AltGrOn(wire', held', altgr)
  BY <1>1, <1>2, <1>3, AltGrSent
<1>6. ShiftOn(wire', held', shift, overlap')
  BY <1>1, <1>2, <1>3, ShiftSent
<1>7. ext' = ext /\ altgr' = altgr /\ shift' = shift
  BY DEF decoder
<1>8. DecoderTypeOK'
  BY <1>1 DEF decoder, DecoderTypeOK
<1>9. held' \subseteq UserKeys
  BY <1>1
<1> QED BY <1>3, <1>4, <1>5, <1>6, <1>7, <1>8, <1>9 DEF HandsInv

LEMMA HandsTaken ==
    ASSUME HandsInv, KeyboardIrq
    PROVE  HandsInv' /\ [RingNext]_ring
<1>1. /\ wire \in Seq(Bytes) /\ DecoderTypeOK /\ held \subseteq UserKeys
      /\ Framed(wire, ext) /\ AltGrOn(wire, held, altgr)
      /\ ShiftOn(wire, held, shift, overlap) /\ overlap \in BOOLEAN
  BY DEF HandsInv
<1>2. /\ wire # <<>> /\ wire' = Tail(wire) /\ KbCallback(Head(wire))
      /\ held' = held /\ overlap' = overlap
  BY DEF KeyboardIrq
<1>3. /\ Len(wire) \in Nat /\ Len(wire) # 0 /\ Head(wire) = wire[1] /\ wire[1] \in Bytes
      /\ wire' \in Seq(Bytes) /\ Len(wire') = Len(wire) - 1
      /\ \A i \in 1..Len(wire') : wire'[i] = wire[i + 1]
  BY <1>1, <1>2
<1>4. DecoderTypeOK' /\ [RingNext]_ring
  BY <1>1, <1>2, <1>3, CallbackRings
<1>5. ext <=> wire[1].code \in Prefixed
  BY <1>1, <1>3 DEF Framed
<1>6. /\ ext' <=> wire[1].code = "e0"
      /\ wire[1].code = "alt" => (altgr' <=> ~wire[1].up)
      /\ wire[1].code # "alt" => (altgr' <=> altgr)
      /\ wire[1].code \in Shifts => (shift' <=> ~wire[1].up)
      /\ wire[1].code \notin Shifts => (shift' <=> shift)
  BY <1>1, <1>2, <1>3, <1>5, CallbackModes
<1>7. Framed(wire', ext')
  <2>1. Framed(wire', wire[1].code = "e0")
    BY <1>1, <1>2, <1>3, FramedTaken
  <2> QED BY <1>6, <2>1 DEF Framed
<1>8. AltGrOn(wire', held, altgr')
  BY <1>1, <1>3, <1>6, AltGrTaken
<1>9. ShiftOn(wire', held, shift', overlap)
  BY <1>1, <1>3, <1>6, ShiftTaken
<1> QED BY <1>1, <1>2, <1>3, <1>4, <1>7, <1>8, <1>9 DEF HandsInv

\* Every other step leaves the wire, the hands and the modifiers alone, and
\* uses the ring as its reader.
LEMMA HandsRest ==
    ASSUME HandsInv, UNCHANGED <<wire, held, overlap, shift, ext, altgr>>, DecoderTypeOK'
    PROVE  HandsInv'
BY DEF HandsInv, Framed, AltGrOn, ShiftOn, NoneOf, LastOf

LEMMA HandsStep == HandsInv /\ [Next]_vars => HandsInv' /\ [RingNext]_ring
<1> SUFFICES ASSUME HandsInv, [Next]_vars PROVE HandsInv' /\ [RingNext]_ring
  OBVIOUS
<1>0. DecoderTypeOK /\ overlap \in BOOLEAN /\ held \subseteq UserKeys
  BY DEF HandsInv
<1>1. ASSUME NEW k \in UserKeys, Press(k) PROVE HandsInv' /\ [RingNext]_ring
  <2>1. /\ wire' = wire \o Scancode(k, FALSE) /\ held' = held \cup {k}
        /\ overlap' = (overlap \/ Shifts \subseteq held')
        /\ UNCHANGED decoder /\ UNCHANGED ring
    BY <1>1 DEF Press
  <2>2. overlap' \in BOOLEAN /\ (overlap => overlap') /\ (~overlap' => ~Both(held'))
    BY <1>0, <2>1 DEF Both, Shifts
  <2>3. HandsInv'
    BY <2>1, <2>2, HandsSent
  <2> QED BY <2>1, <2>3
<1>2. ASSUME NEW k \in UserKeys, ReleaseKey(k) PROVE HandsInv' /\ [RingNext]_ring
  <2>1. /\ wire' = wire \o Scancode(k, TRUE) /\ held' = held \ {k} /\ k \in held
        /\ overlap' = overlap /\ UNCHANGED decoder /\ UNCHANGED ring
    BY <1>2 DEF ReleaseKey
  <2>2. overlap' \in BOOLEAN /\ (overlap => overlap') /\ (~overlap' => ~Both(held'))
    BY <1>0, <2>1 DEF HandsInv, ShiftOn, Both
  <2>3. HandsInv'
    BY <2>1, <2>2, HandsSent
  <2> QED BY <2>1, <2>3
<1>3. ASSUME NEW s \in TerminalKeys, Type(s) PROVE HandsInv' /\ [RingNext]_ring
  <2>1. UNCHANGED <<wire, held, overlap, shift, ext, altgr, caps, layout, dead>> /\ UNCHANGED ring
    BY <1>3 DEF Type, physical, decoder
  <2>2. DecoderTypeOK'
    BY <1>0, <2>1 DEF DecoderTypeOK
  <2> QED BY <2>1, <2>2, HandsRest
<1>4. CASE KeyboardIrq
  BY <1>4, HandsTaken
<1>5. CASE TimerIrq \/ GetChar \/ PollKeyboard \/ ReturnKey \/ PollSerial \/ Halt \/ UNCHANGED vars
  <2>1. UNCHANGED <<wire, held, overlap, shift, ext, altgr, caps, layout, dead>>
    BY <1>5 DEF TimerIrq, GetChar, PollKeyboard, ReturnKey, PollSerial, Halt, vars, physical, decoder
  <2>2. UNCHANGED ring \/ Peek \/ Advance
    BY <1>5 DEF TimerIrq, GetChar, PollKeyboard, ReturnKey, PollSerial, Halt, vars
  <2>3. DecoderTypeOK'
    BY <1>0, <2>1 DEF DecoderTypeOK
  <2> QED BY <2>1, <2>2, <2>3, HandsRest DEF RingNext
<1>6. CASE ChangeLayout
  <2>1. PICK l \in {"us", "es"} : SetLayout(l)
    BY <1>6 DEF ChangeLayout
  <2>2. UNCHANGED <<wire, held, overlap, shift, ext, altgr, caps, dead>> /\ layout' = l /\ UNCHANGED ring
    BY <1>6, <2>1 DEF ChangeLayout, SetLayout, physical
  <2>3. DecoderTypeOK'
    BY <1>0, <2>2 DEF DecoderTypeOK
  <2> QED BY <2>2, <2>3, HandsRest
<1> QED BY <1>1, <1>2, <1>3, <1>4, <1>5, <1>6 DEF Next, Reader

\* keyboard.c, kb_callback: once every byte is decoded no modifier sticks and
\* no 0xE0 is left over, for every user, however long and fast he types.
THEOREM ModifiersFollow == Spec => []ModifiersFollowHands
<1>1. HandsInv => ModifiersFollowHands
  <2> SUFFICES ASSUME HandsInv, wire = <<>>
               PROVE  /\ ~ext
                      /\ altgr <=> "ralt" \in held
                      /\ shift => held \cap Shifts # {}
                      /\ ~overlap => (shift <=> held \cap Shifts # {})
    BY DEF ModifiersFollowHands
  <2>1. Len(wire) = 0 /\ NoneOf(wire, Alts) /\ NoneOf(wire, Shifts)
    BY DEF NoneOf
  <2>2. ~ext
    BY <2>1 DEF HandsInv, Framed
  <2>3. altgr <=> "ralt" \in held
    BY <2>1 DEF HandsInv, AltGrOn
  <2>4. (shift => Either(held)) /\ (~overlap /\ Either(held) => shift)
    BY <2>1 DEF HandsInv, ShiftOn
  <2>5. Either(held) <=> held \cap Shifts # {}
    BY DEF Either, Shifts
  <2> QED BY <2>2, <2>3, <2>4, <2>5
<1> QED BY <1>1, HandsInit, HandsStep, PTL DEF Spec

\* keyboard.c under input.c: the interrupt handler and the waiting task use the
\* ring as a bounded FIFO.
THEOREM InputQueueIsFifo == Spec => KeysInOrder
<1>1. Init => RingInit
  BY DEF Init
<1>2. Spec => RingSpec
  BY <1>1, HandsInit, HandsStep, PTL DEF Spec, RingSpec
<1> QED BY <1>2, RingIsFifo

-----------------------------------------------------------------------------
(* The serial line: one key at a time is on it, and the parser is as far into *)
(* an arrow as the bytes taken from it.                                       *)

Upcoming == {<<<<>>, 0>>, <<<<"x">>, 0>>, <<<<"esc", Bracket, "A">>, 0>>,
             <<<<Bracket, "A">>, 1>>, <<<<"A">>, 2>>}

LineInv ==
    /\ <<rx, escState>> \in Upcoming
    /\ result[1] = "serial" => result[2] \in {"x", "up"}
    /\ pc \in {"idle", "poll", "key", "serial", "hlt", "halted"}

LEMMA LineTaken ==
    ASSUME LineInv, rx # <<>>
    PROVE  /\ <<Tail(rx), NextEsc(Head(rx))>> \in Upcoming
           /\ Translated(Head(rx)) \in {"x", "up", NoKey}
<1>1. CASE rx = <<"x">> /\ escState = 0
  <2>1. Head(rx) = "x" /\ Tail(rx) = <<>>
    BY <1>1
  <2>2. NextEsc("x") = 0 /\ Translated("x") = "x"
    BY <1>1 DEF NextEsc, Translated
  <2> QED BY <2>1, <2>2 DEF Upcoming
<1>2. CASE rx = <<"esc", Bracket, "A">> /\ escState = 0
  <2>1. Head(rx) = "esc" /\ Tail(rx) = <<Bracket, "A">>
    BY <1>2
  <2>2. NextEsc("esc") = 1 /\ Translated("esc") = NoKey
    BY <1>2 DEF NextEsc, Translated
  <2> QED BY <2>1, <2>2 DEF Upcoming
<1>3. CASE rx = <<Bracket, "A">> /\ escState = 1
  <2>1. Head(rx) = Bracket /\ Tail(rx) = <<"A">>
    BY <1>3
  <2>2. NextEsc(Bracket) = 2 /\ Translated(Bracket) = NoKey
    BY <1>3 DEF NextEsc, Translated
  <2> QED BY <2>1, <2>2 DEF Upcoming
<1>4. CASE rx = <<"A">> /\ escState = 2
  <2>1. Head(rx) = "A" /\ Tail(rx) = <<>>
    BY <1>4
  <2>2. NextEsc("A") = 0 /\ Translated("A") = "up"
    BY <1>4 DEF NextEsc, Translated
  <2> QED BY <2>1, <2>2 DEF Upcoming
<1> QED BY <1>1, <1>2, <1>3, <1>4 DEF LineInv, Upcoming

LEMMA LineInit == Init => LineInv
<1> SUFFICES ASSUME Init PROVE LineInv
  OBVIOUS
<1>1. rx = <<>> /\ escState = 0 /\ pc = "idle" /\ result[1] = "none"
  BY DEF Init
<1> QED BY <1>1 DEF LineInv, Upcoming

LEMMA LineStep == LineInv /\ [Next]_vars => LineInv'
<1> SUFFICES ASSUME LineInv, [Next]_vars PROVE LineInv'
  OBVIOUS
<1>0. /\ <<rx, escState>> \in Upcoming
      /\ result[1] = "serial" => result[2] \in {"x", "up"}
      /\ pc \in {"idle", "poll", "key", "serial", "hlt", "halted"}
  BY DEF LineInv
<1>1. ASSUME NEW k \in UserKeys, Press(k) \/ ReleaseKey(k) PROVE LineInv'
  <2>1. UNCHANGED <<rx, escState, result, pc>>
    BY <1>1 DEF Press, ReleaseKey, line, task
  <2> QED BY <1>0, <2>1 DEF LineInv
<1>2. ASSUME NEW s \in TerminalKeys, Type(s) PROVE LineInv'
  <2>1. rx = <<>> /\ rx' = rx \o s /\ UNCHANGED <<escState, result, pc>>
    BY <1>2 DEF Type, task
  <2>2. escState = 0
    BY <1>0, <2>1 DEF Upcoming
  <2>3. s = <<"x">> \/ s = <<"esc", Bracket, "A">>
    BY <1>2 DEF TerminalKeys
  <2>4. rx' = s
    BY <2>1, <2>3
  <2>5. <<rx, escState>>' \in Upcoming
    BY <2>1, <2>2, <2>3, <2>4 DEF Upcoming
  <2> QED BY <1>0, <2>1, <2>5 DEF LineInv
<1>3. CASE KeyboardIrq \/ TimerIrq \/ GetChar \/ Halt \/ PollKeyboard
  <2>1. UNCHANGED <<rx, escState, result>>
    BY <1>3 DEF KeyboardIrq, TimerIrq, GetChar, Halt, PollKeyboard, line
  <2>2. pc' \in {"idle", "poll", "key", "serial", "hlt", "halted"}
    BY <1>0, <1>3 DEF KeyboardIrq, TimerIrq, GetChar, Halt, PollKeyboard, Woken
  <2> QED BY <1>0, <2>1, <2>2 DEF LineInv
<1>4. CASE ReturnKey
  <2>1. UNCHANGED <<rx, escState>> /\ pc' = "idle" /\ result' = <<"keyboard", c>>
    BY <1>4 DEF ReturnKey, line
  <2>2. result'[1] = "keyboard"
    BY <2>1
  <2> QED BY <1>0, <2>1, <2>2 DEF LineInv
<1>5. CASE PollSerial
  <2>1. CASE rx = <<>> /\ pc' = "hlt" /\ UNCHANGED <<rx, escState, result>>
    BY <1>0, <2>1 DEF LineInv
  <2>2. CASE rx # <<>>
    <3>1. /\ rx' = Tail(rx) /\ escState' = NextEsc(Head(rx))
          /\ \/ pc' = "hlt" /\ result' = result
             \/ /\ Translated(Head(rx)) # NoKey
                /\ pc' = "idle" /\ result' = <<"serial", Translated(Head(rx))>>
      BY <1>5, <2>2 DEF PollSerial
    <3>2. <<rx, escState>>' \in Upcoming
      BY <2>2, <3>1, LineTaken
    <3>3. Translated(Head(rx)) # NoKey => Translated(Head(rx)) \in {"x", "up"}
      BY <2>2, LineTaken
    <3> QED BY <1>0, <3>1, <3>2, <3>3 DEF LineInv
  <2> QED BY <1>5, <2>1, <2>2 DEF PollSerial
<1>6. CASE ChangeLayout \/ UNCHANGED vars
  <2>1. UNCHANGED <<rx, escState, result, pc>>
    BY <1>6 DEF ChangeLayout, vars, line, task
  <2> QED BY <1>0, <2>1 DEF LineInv
<1> QED BY <1>1, <1>2, <1>3, <1>4, <1>5, <1>6 DEF Next, Reader

\* input.c, translate_serial: an arrow of the terminal arrives as one key and no
\* part of it gets through, whatever comes between its bytes.
THEOREM SequencesAreWhole == Spec => []SequencesStayWhole
<1>1. LineInv => SequencesStayWhole
  BY DEF LineInv, Upcoming, SequencesStayWhole
<1> QED BY <1>1, LineInit, LineStep, PTL DEF Spec

\* The variables of keyboard.c and input.c keep their types.
THEOREM InputTypes == Spec => []TypeOK
<1>1. HandsInv /\ LineInv /\ RingTypeOK => TypeOK
  <2> SUFFICES ASSUME HandsInv, LineInv, RingTypeOK PROVE TypeOK
    OBVIOUS
  <2>1. escState \in 0..2 /\ pc \in {"idle", "poll", "key", "serial", "hlt", "halted"}
    BY DEF LineInv, Upcoming
  <2>2. \A i \in DOMAIN wire : wire[i] \in Bytes
    BY DEF HandsInv
  <2> QED BY <2>1, <2>2 DEF HandsInv, TypeOK
<1>2. Init => RingInit
  BY DEF Init
<1>3. Spec => RingSpec
  BY <1>2, HandsInit, HandsStep, PTL DEF Spec, RingSpec
<1> QED BY <1>1, <1>3, RingInvHolds, HandsInit, HandsStep, LineInit, LineStep, PTL DEF Spec
=============================================================================
