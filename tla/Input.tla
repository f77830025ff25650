------------------------------- MODULE Input -------------------------------
(***************************************************************************)
(* Keyboard, serial line and the task that waits for a key                 *)
(* (kernel/drivers/keyboard.c, serial.c, input.c).  Actors: the user at    *)
(* the PS/2 keyboard, whose bytes wait in the 8042; a serial terminal,     *)
(* whose bytes wait in the 16550; IRQ1; the timer interrupt; and the task  *)
(* in input_getchar, which polls and halts until the next interrupt.       *)
(***************************************************************************)
EXTENDS Keyboard

CONSTANTS
    UserKeys,   \* bound: the keys the user presses
    MaxEvents,  \* bound: presses and releases
    WireSize,   \* bound: bytes waiting in the 8042
    MaxLine     \* bound: keys typed on the serial terminal

ASSUME InputAssumption ==
    /\ UserKeys \subseteq Shifts \cup {"ralt", "arrow", "caps", "u", "one", "accent"}
    /\ Glyphs \subseteq Keys

VARIABLES
    held,       \* keys the user holds down
    wire,       \* bytes in the 8042, oldest first
    events,     \* presses and releases so far
    overlap,    \* history: both shifts have been down together
    rx,         \* bytes in the 16550, oldest first
    sent,       \* keys typed on the terminal so far
    escState,   \* esc_state
    pc,         \* the waiting task
    result      \* the last key input_getchar returned, and whence

physical == <<held, wire, events, overlap>>
line == <<rx, sent>>
task == <<escState, pc, result>>
vars == <<ring, decoder, physical, line, task>>

-----------------------------------------------------------------------------
(* The outside. *)

\* The bytes a key sends; the right Alt and the arrow are extended keys.
Scancode(k, up) ==
    IF k = "ralt" THEN <<E0, [code |-> "alt", up |-> up]>>
    ELSE IF k = "arrow" THEN <<E0, [code |-> "up", up |-> up]>>
    ELSE <<[code |-> k, up |-> up]>>

\* A press, or the repeat of a key that is down.
Press(k) ==
    /\ events < MaxEvents /\ Len(wire) < WireSize
    /\ events' = events + 1
    /\ held' = held \cup {k}
    /\ wire' = wire \o Scancode(k, FALSE)
    /\ overlap' = (overlap \/ Shifts \subseteq held')
    /\ UNCHANGED <<ring, decoder, line, task>>

ReleaseKey(k) ==
    /\ events < MaxEvents /\ Len(wire) < WireSize /\ k \in held
    /\ events' = events + 1
    /\ held' = held \ {k}
    /\ wire' = wire \o Scancode(k, TRUE)
    /\ UNCHANGED <<ring, decoder, overlap, line, task>>

\* What a terminal sends: a character, or an arrow as an escape sequence.
Bracket == "["
TerminalKeys == {<<"x">>, <<"esc", Bracket, "A">>}

Type(s) ==
    /\ sent < MaxLine /\ rx = <<>>
    /\ sent' = sent + 1
    /\ rx' = rx \o s
    /\ UNCHANGED <<ring, decoder, physical, task>>

-----------------------------------------------------------------------------
(* Interrupts.  Either one ends a hlt that has begun. *)

Woken == IF pc = "halted" THEN "poll" ELSE pc

KeyboardIrq ==
    /\ wire # <<>>
    /\ KbCallback(Head(wire))
    /\ wire' = Tail(wire)
    /\ pc' = Woken
    /\ UNCHANGED <<held, events, overlap, line, escState, result>>

\* Mutant of TimerIrq: only the keyboard ends a hlt.
TimerWithoutWake == UNCHANGED vars

TimerIrq == pc' = Woken /\ UNCHANGED <<ring, decoder, physical, line, escState, result>>

-----------------------------------------------------------------------------
(* input_getchar and input_poll. *)

\* The caller asks for a key.
GetChar ==
    /\ pc = "idle" /\ pc' = "poll"
    /\ UNCHANGED <<ring, decoder, physical, line, escState, result>>

\* keyboard_getc_nonblock finds the ring empty or reads a key ..
PollKeyboard ==
    /\ pc = "poll"
    /\ \/ head = tail /\ pc' = "serial" /\ UNCHANGED ring
       \/ Peek /\ pc' = "key"
    /\ UNCHANGED <<decoder, physical, line, escState, result>>

\* .. and returns it.
ReturnKey ==
    /\ pc = "key" /\ Advance
    /\ pc' = "idle" /\ result' = <<"keyboard", c>>
    /\ UNCHANGED <<decoder, physical, line, escState>>

\* Mutant of NextEsc: the bracket of an escape sequence ends it.
NextEscShort(b) == IF escState = 0 /\ b = "esc" THEN 1 ELSE 0

\* translate_serial: the next state of the parser, and what it returns.
NextEsc(b) == IF escState = 1 THEN IF b = Bracket THEN 2 ELSE 0
              ELSE IF escState = 2 THEN 0
              ELSE IF b = "esc" THEN 1 ELSE 0

Translated(b) == IF escState = 2 THEN IF b = "A" THEN "up" ELSE NoKey
                 ELSE IF escState = 1 \/ b = "esc" THEN NoKey ELSE b

\* serial_getc_nonblock; nothing, or part of a sequence, leads to hlt.
PollSerial ==
    /\ pc = "serial"
    /\ \/ rx = <<>> /\ pc' = "hlt" /\ UNCHANGED <<rx, escState, result>>
       \/ /\ rx # <<>> /\ rx' = Tail(rx)
          /\ escState' = NextEsc(Head(rx))
          /\ IF Translated(Head(rx)) = NoKey
             THEN pc' = "hlt" /\ UNCHANGED result
             ELSE pc' = "idle" /\ result' = <<"serial", Translated(Head(rx))>>
    /\ UNCHANGED <<ring, decoder, physical, sent>>

\* hlt: an interrupt that came before it does not end it.
Halt ==
    /\ pc = "hlt" /\ pc' = "halted"
    /\ UNCHANGED <<ring, decoder, physical, line, escState, result>>

\* A shell or desktop command changes the layout between two keys.
ChangeLayout ==
    /\ pc = "idle"
    /\ \E l \in {"us", "es"} : SetLayout(l)
    /\ UNCHANGED <<physical, line, task>>

Reader == GetChar \/ PollKeyboard \/ ReturnKey \/ PollSerial \/ Halt

-----------------------------------------------------------------------------
Init ==
    /\ RingInit /\ DecoderInit
    /\ held = {} /\ wire = <<>> /\ events = 0 /\ overlap = FALSE
    /\ rx = <<>> /\ sent = 0
    /\ escState = 0 /\ pc = "idle" /\ result = <<"none", NoKey>>

Next ==
    \/ \E k \in UserKeys : Press(k) \/ ReleaseKey(k)
    \/ \E s \in TerminalKeys : Type(s)
    \/ KeyboardIrq
    \/ TimerIrq
    \/ Reader
    \/ ChangeLayout

Spec == Init /\ [][Next]_vars

\* The PIT runs, the 8042 raises IRQ1 while it holds a byte, and the reader,
\* the boot task, gets the CPU again and again (NobodyStarves of Scheduler.tla) and
\* loops around input_getchar.
FairSpec == Spec /\ WF_vars(TimerIrq) /\ WF_vars(KeyboardIrq) /\ WF_vars(Reader)

-----------------------------------------------------------------------------
(* Properties.                                                               *)

TypeOK ==
    /\ RingTypeOK /\ DecoderTypeOK
    /\ held \subseteq UserKeys
    /\ \A i \in DOMAIN wire : wire[i] \in Bytes
    /\ escState \in 0..2
    /\ pc \in {"idle", "poll", "key", "serial", "hlt", "halted"}

\* When every byte has been decoded the decoder agrees with the user's hands:
\* no modifier sticks and no 0xE0 is left over.  (A user who holds both shifts
\* and lets one go types lower case: the code keeps one bit for the two.)
ModifiersFollowHands ==
    wire = <<>> =>
        /\ ~ext
        /\ altgr <=> "ralt" \in held
        /\ shift => held \cap Shifts # {}
        /\ ~overlap => (shift <=> held \cap Shifts # {})

\* A terminal's arrow keys arrive as one key each, although keyboard keys and
\* hlts come between the bytes: no part of a sequence gets through.
SequencesStayWhole ==
    /\ result[1] = "serial" => result[2] \in {"x", "up"}
    /\ (escState # 0 => rx # <<>>)

\* Whatever is typed, at the keyboard or on the terminal, is eventually read,
\* although a key may arrive between the poll and the hlt and the serial line
\* has no interrupt at all.
InputIsRead == /\ (head # tail) ~> (head = tail)
               /\ (rx # <<>>) ~> (rx = <<>>)
=============================================================================
