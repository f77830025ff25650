----------------------------- MODULE MCReadLine ----------------------------
EXTENDS ReadLine, Printf

MCGlyphs == {"a", "b", "o", "p", ">", " ", "nl", "cr", "bs", "tab"}

MCPrompt == <<">">>

\* Nothing, a text without a newline, and one that moves the cursor about.
MCOutputs == {<<>>, <<"o">>, <<"tab", "o", "cr", "bs", "p", "nl">>}

-----------------------------------------------------------------------------
(* The pure functions, against what C says of them. *)

Ints == (-(2^(W - 1)))..(2^(W - 1) - 1)

\* The text of a number, read back, is the number, the least one included.
ASSUME ConversionsAgree == \A v \in Ints : atoi(itoa(v, 10)) = v

\* Positional notation: no leading zero, and the digits sum up to the number.
ASSUME UtoaIsPositional ==
    \A v \in 0..(2^W - 1), base \in {2, 10, 16} :
        LET t == utoa(v, base)
            digit(c) == CHOOSE d \in 0..15 : Digits[d + 1] = c
            f[i \in 0..Len(t)] == IF i = 0 THEN 0 ELSE f[i - 1] * base + digit(t[i])
        IN  f[Len(t)] = v /\ (t[1] = "0" => v = 0)

\* A field is as wide as its text, or as asked for if that is more, and shows
\* the text; a negative number filled up with zeros comes out one wider.
ASSUME FieldsAreWide ==
    \A v \in Ints, width \in 0..9, flags \in {<<>>, <<"0">>, <<"-">>, <<"0", "-">>} :
        LET t == format(<<"[", "%">> \o flags \o <<Digits[width + 1], "d", "]">>, <<v>>)
            plain == itoa(v, 10)
            wide == IF width > Len(plain) THEN width ELSE Len(plain)
            quirk == flags = <<"0">> /\ v < 0 /\ width >= Len(plain)
        IN  /\ Len(t) = 2 + wide + (IF quirk THEN 1 ELSE 0)
            /\ atoi(SubSeq(t, 2, Len(t) - 1)) = v

\* A buffer never holds more than size - 1 characters, always a beginning of
\* the text; the result is the length of the whole, whether it fits or not.
ASSUME BuffersAreBounded ==
    \A size \in 1..9, n \in 0..4, v \in {-3, 0, 127} :
        LET fmt == SubSeq(<<"%", "s", "=", "%", "u", "%", "%">>, 1, n + 3)
            args == <<Repeat("k", n), v>>
            r == kvsnprintf(size, fmt, args)
        IN  /\ Len(r.buf) < size /\ r.result = Len(format(fmt, args))
            /\ r.buf = SubSeq(format(fmt, args), 1, Len(r.buf))
            /\ Len(r.buf) = size - 1 \/ Len(r.buf) = r.result
=============================================================================
