------------------------------ MODULE Keyboard ------------------------------
(***************************************************************************)
(* The scancode decoder of kernel/drivers/keyboard.c: one call of          *)
(* kb_callback per byte, the modifiers it remembers, and what it pushes.   *)
(*                                                                         *)
(* Bytes are records of a code and the release bit.  The codes stand for   *)
(* the kinds of keys the decoder tells apart: the two shifts, CapsLock,    *)
(* 0x38 (Alt, after 0xE0 AltGr), 0x48 (a keypad key, after 0xE0 an arrow), *)
(* a vowel (0x16, u), a key the layouts disagree on (0x02) and the accent  *)
(* key (0x28).  A pushed key is a base with what its glyph shows.          *)
(***************************************************************************)
EXTENDS KeyQueue

VARIABLES
    shift, caps, ext, altgr,    \* the booleans of that name
    layout,                     \* "us" or "es"
    dead                        \* the pending accent

decoder == <<shift, caps, ext, altgr, layout, dead>>

Shifts == {"lshift", "rshift"}
Codes == Shifts \cup {"caps", "alt", "up", "u", "one", "accent"}
E0 == [code |-> "e0", up |-> TRUE]
Bytes == [code : Codes, up : BOOLEAN] \cup {E0}

DecoderInit ==
    /\ shift = FALSE /\ caps = FALSE /\ ext = FALSE /\ altgr = FALSE
    /\ layout = "us" /\ dead = "none"

\* The glyphs: a letter with its accent and case; another key with the
\* modifier that picked its symbol.
Glyphs ==
    ({"u"} \X {"none", "acute", "diaeresis"} \X {"lower", "upper"})
        \cup ({"one", "accent"} \X {"none"} \X {"plain", "shift", "altgr"})
        \cup {<<"up", "none", "plain">>}

\* es_lookup, combine_accent and the US maps: what a printable key gives while
\* accent d is pending; NoKey for a code both maps hold 0 for.
GlyphOf(code, d) ==
    IF code \in {"alt", "up"} THEN NoKey
    ELSE IF code = "u" THEN <<"u", d, IF shift # caps THEN "upper" ELSE "lower">>
    ELSE <<code, "none", IF layout = "es" /\ altgr /\ code = "one" THEN "altgr"
                         ELSE IF shift THEN "shift" ELSE "plain">>

Emit(k) == IF k = NoKey THEN UNCHANGED ring ELSE Push(k)

\* Mutant of Extended: letting AltGr go is taken for another press.
ExtendedDown(b) ==
    /\ ext' = FALSE
    /\ altgr' = (altgr \/ b.code = "alt")
    /\ Emit(IF b.code = "up" /\ ~b.up THEN <<"up", "none", "plain">> ELSE NoKey)
    /\ UNCHANGED <<shift, caps, layout, dead>>

\* The byte after 0xE0.
Extended(b) ==
    /\ ext' = FALSE
    /\ altgr' = IF b.code = "alt" THEN ~b.up ELSE altgr
    /\ Emit(IF b.code = "up" /\ ~b.up THEN <<"up", "none", "plain">> ELSE NoKey)
    /\ UNCHANGED <<shift, caps, layout, dead>>

Released(b) ==
    /\ shift' = (shift /\ b.code \notin Shifts)
    /\ UNCHANGED <<caps, ext, altgr, layout, dead, ring>>

\* shift and CapsLock.
PressedModifier(b) ==
    /\ b.code \in Shifts \cup {"caps"}
    /\ shift' = (shift \/ b.code \in Shifts)
    /\ caps' = IF b.code = "caps" THEN ~caps ELSE caps
    /\ UNCHANGED <<ext, altgr, layout, dead, ring>>

\* The accent key of the Spanish layout waits for the next key.
PressedAccent(b) ==
    /\ b.code = "accent" /\ layout = "es" /\ ~altgr
    /\ dead' = IF shift THEN "diaeresis" ELSE "acute"
    /\ UNCHANGED <<shift, caps, ext, altgr, layout, ring>>

\* Any other key: in the Spanish layout it uses a pending accent up, and a
\* letter that has no such glyph drops it.
PressedKey(b) ==
    /\ b.code \notin Shifts \cup {"caps"}
    /\ ~(b.code = "accent" /\ layout = "es" /\ ~altgr)
    /\ Emit(GlyphOf(b.code, IF layout = "es" THEN dead ELSE "none"))
    /\ dead' = IF layout = "es" THEN "none" ELSE dead
    /\ UNCHANGED <<shift, caps, ext, altgr, layout>>

Pressed(b) == PressedModifier(b) \/ PressedAccent(b) \/ PressedKey(b)

KbCallback(b) ==
    \/ b = E0 /\ ext' = TRUE /\ UNCHANGED <<shift, caps, altgr, layout, dead, ring>>
    \/ b # E0 /\ ext /\ Extended(b)
    \/ b # E0 /\ ~ext /\ b.up /\ Released(b)
    \/ b # E0 /\ ~ext /\ ~b.up /\ Pressed(b)

\* keyboard_set_layout, a plain store outside any critical section.
SetLayout(l) == layout' = l /\ UNCHANGED <<shift, caps, ext, altgr, dead, ring>>

DecoderTypeOK ==
    /\ {shift, caps, ext, altgr} \subseteq BOOLEAN
    /\ layout \in {"us", "es"}
    /\ dead \in {"none", "acute", "diaeresis"}
=============================================================================
