------------------------------- MODULE Mouse -------------------------------
(***************************************************************************)
(* The PS/2 mouse (kernel/drivers/mouse.c) and the 8042 it shares with the *)
(* keyboard.  mouse_init polls port 0x60 for the answers to its commands   *)
(* while IRQ1, and from the second call on IRQ12, read that same port.     *)
(* The controller, the mouse and the user's hands are external.            *)
(***************************************************************************)
EXTENDS Integers, Sequences, FiniteSets

CONSTANTS
    Width, Height,  \* sw, sh
    Ccb0,           \* the command byte of the 8042 at boot
    Scan,           \* the scancode of each key
    Plans,          \* bound: what the user does, each a pair: the points to bring the
                    \* mouse to, with the button up or down, and the keys to press
    PortSize,       \* bound: bytes waiting in the 8042
    KeySize         \* bound: keys on their way to the task

VARIABLES
    mx, my, btn_left,   \* statics of mouse.c
    packet,     \* the bytes of the packet that have come; cycle is how many
    port,       \* bytes behind port 0x60, oldest first
    latch,      \* what a poll of port 0x60 finds when none waits: the last one read
    ccb,        \* command byte of the 8042
    irq12,      \* IRQ12 has its handler and is unmasked
    streaming,  \* the mouse sends packets
    keys,       \* keys pushed and not yet polled (the ring of KeyQueue)
    pc,         \* where the task is
    moves, typing,  \* what the user has still to do
    there,      \* history: position and button after all reports so far
    crossed     \* history: a byte went to another reader than its own, or a reset
                \* of mouse_init tore a report

mouse == <<mx, my, btn_left, packet>>
device == <<port, latch, ccb, irq12, streaming>>
hands == <<moves, typing, there>>
mouseVars == <<mouse, device, keys, hands, crossed>>

Byte(s, v) == [src |-> s, val |-> v]
ACK == 250
Bit(v, m) == (v \div m) % 2 = 1     \* v & m, for the masks of the code
Clamp(v, n) == IF v < 0 THEN 0 ELSE IF v >= n THEN n - 1 ELSE v
Abs(v) == IF v < 0 THEN -v ELSE v
Flag(b, v) == IF b THEN v ELSE 0
With(v, m) == v + Flag(~Bit(v, m), m)
Without(v, m) == v - Flag(Bit(v, m), m)

MouseInit0 ==
    /\ mx = 0 /\ my = 0 /\ btn_left = FALSE /\ packet = <<>>
    /\ port = <<>> /\ latch = 0 /\ ccb = Ccb0
    /\ irq12 = FALSE /\ streaming = FALSE
    /\ keys = <<>>
    /\ \E p \in Plans : moves = p[1] /\ typing = p[2]
    /\ there = [x |-> 0, y |-> 0, left |-> FALSE]
    /\ crossed = FALSE

-----------------------------------------------------------------------------
(* The user and the mouse. *)

\* A report: the movement towards a point on the screen, and the button.  A movement
\* past 255 sets the overflow bit of its axis.
Report ==
    LET s == Head(moves)
        dx == s.x - mx
        dy == my - s.y
        far == Abs(dx) > 255 \/ Abs(dy) > 255
        first == 8 + Flag(s.left, 1) + Flag(dx < 0, 16) + Flag(dy < 0, 32)
                   + Flag(Abs(dx) > 255, 64) + Flag(Abs(dy) > 255, 128)
    IN
    /\ streaming /\ moves # <<>> /\ Len(port) + 3 <= PortSize
    /\ moves' = Tail(moves)
    /\ port' = port \o <<Byte("aux", first), Byte("aux", dx % 256), Byte("aux", dy % 256)>>
    /\ there' = [x |-> IF far THEN there.x ELSE Clamp(there.x + dx, Width),
                 y |-> IF far THEN there.y ELSE Clamp(there.y - dy, Height),
                 left |-> s.left]
    /\ UNCHANGED <<mouse, latch, ccb, irq12, streaming, keys, typing, crossed>>

PressKey ==
    /\ typing # <<>> /\ Len(port) < PortSize
    /\ Len(keys) + Cardinality({i \in DOMAIN port : port[i].src = "key"}) < KeySize
    /\ typing' = Tail(typing)
    /\ port' = Append(port, [src |-> "key", val |-> Scan[Head(typing)], key |-> Head(typing)])
    /\ UNCHANGED <<mouse, latch, ccb, irq12, streaming, keys, moves, there, crossed>>

-----------------------------------------------------------------------------
(* Interrupts: the controller raises IRQ12 for a byte of the mouse, IRQ1   *)
(* for any other, each while the command byte enables it.                  *)

FromMouse == port # <<>> /\ Head(port).src \in {"aux", "ack"}

Taken ==
    /\ port' = Tail(port)
    /\ latch' = IF pc \in {"status", "ackF6", "ackF4"} THEN Head(port).val ELSE latch

\* Mutant of Signed: the sign bits of the first byte are not looked at.
SignedNot(v, negative) == v

\* A movement of nine bits, its sign in the first byte.
Signed(v, negative) == IF negative THEN v - 256 ELSE v

\* The pointer moves, and stays on the screen; nothing after an overflow.
Moved(data) ==
    LET first == packet[1]
        overflow == Bit(first, 64) \/ Bit(first, 128)
        dx == IF overflow THEN 0 ELSE Signed(packet[2], Bit(first, 16))
        dy == IF overflow THEN 0 ELSE Signed(data, Bit(first, 32))
    IN  /\ btn_left' = Bit(first, 1)
        /\ mx' = Clamp(mx + dx, Width)
        /\ my' = Clamp(my - dy, Height)

\* mouse_callback.  A first byte without bit 3 is dropped; the third byte moves
\* the pointer.
Callback(data) ==
    IF Len(packet) < 2
    THEN /\ packet' = IF packet = <<>> /\ ~Bit(data, 8) THEN <<>> ELSE Append(packet, data)
         /\ UNCHANGED <<mx, my, btn_left>>
    ELSE packet' = <<>> /\ Moved(data)

MouseIrq ==
    /\ irq12 /\ Bit(ccb, 2) /\ FromMouse
    /\ Callback(Head(port).val) /\ Taken
    /\ crossed' = (crossed \/ Head(port).src = "ack")
    /\ UNCHANGED <<ccb, irq12, streaming, keys, hands>>

\* kb_callback reads whatever waits; the status byte maps to no key.
KeyboardIrq ==
    /\ Bit(ccb, 1) /\ port # <<>> /\ ~FromMouse
    /\ keys' = IF Head(port).src = "key" THEN Append(keys, Head(port).key) ELSE keys
    /\ Taken
    /\ UNCHANGED <<mouse, ccb, irq12, streaming, hands, crossed>>

-----------------------------------------------------------------------------
(* mouse_init, from one place to the next where an interrupt may come       *)
(* between: the resets of the statics and the polls of port 0x60.           *)

\* A reset tears the report that is on its way.
Reset(next) ==
    /\ crossed' = (crossed \/ packet # <<>> \/ \E i \in DOMAIN port : port[i].src = "aux")
    /\ pc' = next
    /\ UNCHANGED <<device, moves, typing>>

\* The call; what is counted since then begins in the middle as well.
MouseInit ==
    /\ Reset("resety")
    /\ mx' = Width \div 2 /\ there' = [there EXCEPT !.x = Width \div 2]
    /\ UNCHANGED <<my, btn_left, packet>>

ResetY ==
    /\ pc = "resety" /\ Reset("resetcycle")
    /\ my' = Height \div 2 /\ there' = [there EXCEPT !.y = Height \div 2]
    /\ UNCHANGED <<mx, btn_left, packet, keys>>

ResetCycle ==
    /\ pc = "resetcycle" /\ Reset("resetleft")
    /\ packet' = <<>>
    /\ UNCHANGED <<mx, my, btn_left, keys, there>>

ResetLeft ==
    /\ pc = "resetleft" /\ Reset("reset")
    /\ btn_left' = FALSE /\ there' = [there EXCEPT !.left = FALSE]
    /\ UNCHANGED <<mx, my, packet, keys>>

\* 0xA8, then 0x20 asks for the command byte.
AskStatus ==
    /\ pc = "reset" /\ pc' = "status"
    /\ ccb' = Without(ccb, 32)
    /\ port' = Append(port, Byte("ctl", ccb'))
    /\ UNCHANGED <<mouse, latch, irq12, streaming, keys, hands, crossed>>

\* mouse_read: the byte that waits, or after the timeout the last one read.
Answer == IF port = <<>> THEN latch ELSE Head(port).val
Rest == IF port = <<>> THEN <<>> ELSE Tail(port)

\* The answer is the one asked for, not a key or a byte of a packet.
Meant(s, v) == IF port = <<>> THEN latch = v ELSE Head(port).src = s

\* Bit 1 set, bit 5 cleared, written back; then 0xF6, which ends streaming.
SetDefaults ==
    /\ pc = "status"
    /\ ccb' = Without(With(Answer, 2), 32)
    /\ latch' = Answer
    /\ port' = Append(Rest, Byte("ack", ACK))
    /\ streaming' = FALSE
    /\ crossed' = (crossed \/ ~Meant("ctl", ccb))
    /\ pc' = "ackF6"
    /\ UNCHANGED <<mouse, irq12, keys, hands>>

\* The answer to 0xF6 is read; 0xF4 starts streaming.
Enable ==
    /\ pc = "ackF6"
    /\ latch' = Answer
    /\ port' = Append(Rest, Byte("ack", ACK))
    /\ streaming' = TRUE
    /\ crossed' = (crossed \/ ~Meant("ack", ACK))
    /\ pc' = "ackF4"
    /\ UNCHANGED <<mouse, ccb, irq12, keys, hands>>

\* The answer to 0xF4 is read and the interrupt opened.
OpenIrq ==
    /\ pc = "ackF4"
    /\ latch' = 0 /\ port' = Rest
    /\ irq12' = TRUE
    /\ crossed' = (crossed \/ ~Meant("ack", ACK))
    /\ pc' = "opened"
    /\ UNCHANGED <<mouse, ccb, streaming, keys, hands>>

-----------------------------------------------------------------------------
MouseTypeOK ==
    /\ mx \in 0..(Width - 1) /\ my \in 0..(Height - 1)
    /\ btn_left \in BOOLEAN /\ Len(packet) <= 2
    /\ Len(port) <= PortSize + 2 /\ latch \in 0..255 /\ ccb \in 0..255
    /\ irq12 \in BOOLEAN /\ streaming \in BOOLEAN
    /\ Len(keys) <= KeySize
    /\ there \in [x : 0..(Width - 1), y : 0..(Height - 1), left : BOOLEAN]

\* As long as no byte of an initialisation was taken by another reader and no
\* report torn by its resets, the keyboard stays enabled and the pointer and the
\* button are, between packets, where the sum of all reports puts them: no byte
\* is lost, doubled or taken for another, whatever the desktop and the keyboard
\* do in between.
PointerFollowsHand ==
    ~crossed => /\ Bit(ccb, 1)
                /\ (packet = <<>> /\ \A i \in DOMAIN port : port[i].src # "aux")
                     => there = [x |-> mx, y |-> my, left |-> btn_left]
=============================================================================
