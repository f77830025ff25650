------------------------------- MODULE Printf -------------------------------
(***************************************************************************)
(* Formatted output (kernel/lib/printf.c) and the conversions of numbers   *)
(* (kernel/lib/string.c), on texts as sequences of characters and integers *)
(* of W bits.                                                              *)
(***************************************************************************)
EXTENDS Integers, Sequences

CONSTANT W  \* the width of int and unsigned int

Digits == <<"0", "1", "2", "3", "4", "5", "6", "7", "8", "9", "a", "b", "c", "d", "e", "f">>
DigitOf == [c \in {Digits[i] : i \in 1..10} |-> CHOOSE d \in 0..9 : Digits[d + 1] = c]
Capital == [c \in {"a", "b", "c", "d", "e", "f"} |->
    CASE c = "a" -> "A" [] c = "b" -> "B" [] c = "c" -> "C"
      [] c = "d" -> "D" [] c = "e" -> "E" [] OTHER -> "F"]

Unsigned(v) == v % 2^W
ToSigned(v) == ((v + 2^(W - 1)) % 2^W) - 2^(W - 1)

utoa(v, base) ==
    LET f[n \in Nat] == IF n = 0 THEN <<>> ELSE Append(f[n \div base], Digits[(n % base) + 1])
    IN  IF base \notin 2..16 THEN <<>> ELSE IF v = 0 THEN <<"0">> ELSE f[v]

\* -value wraps for the least int, which as unsigned is its magnitude.
itoa(v, base) ==
    IF base = 10 /\ v < 0 THEN <<"-">> \o utoa(Unsigned(-v), base) ELSE utoa(Unsigned(v), base)

\* The first position from i on where s does not hold one of chars.
Past(s, i, chars) == CHOOSE j \in i..(Len(s) + 1) :
    /\ j = Len(s) + 1 \/ s[j] \notin chars
    /\ \A k \in i..(j - 1) : s[k] \in chars

\* The number in s[i .. j-1], where its digits are.
Number(s, i, j) ==
    LET f[k \in (i - 1)..(j - 1)] == IF k < i THEN 0 ELSE ToSigned(f[k - 1] * 10 + DigitOf[s[k]])
    IN  f[j - 1]

atoi(s) ==
    LET i == Past(s, 1, {" ", "\t"})
        signed == i <= Len(s) /\ s[i] \in {"-", "+"}
        from == IF signed THEN i + 1 ELSE i
        val == Number(s, from, Past(s, from, DOMAIN DigitOf))
    IN  IF signed /\ s[i] = "-" THEN ToSigned(-val) ELSE val

Repeat(c, n) == [i \in 1..n |-> c]

\* The sign is printed before the zeros and no longer counted.
emit_pad(str, width, zero, left) ==
    LET sign == IF zero /\ ~left /\ str # <<>> /\ str[1] = "-" THEN 1 ELSE 0
        text == SubSeq(str, sign + 1, Len(str))
        pad == Repeat(IF zero /\ ~left THEN "0" ELSE " ", width - Len(text))
    IN  IF left THEN text \o pad ELSE SubSeq(str, 1, sign) \o pad \o text

\* One conversion of an argument: %c and %% take no width, %p has its own.
Converted(conv, arg, width, zero, left) ==
    CASE conv = "c" -> <<arg>>
      [] conv = "s" -> emit_pad(arg, width, FALSE, left)
      [] conv \in {"d", "i"} -> emit_pad(itoa(arg, 10), width, zero, left)
      [] conv = "u" -> emit_pad(utoa(Unsigned(arg), 10), width, zero, left)
      [] conv = "x" -> emit_pad(utoa(Unsigned(arg), 16), width, zero, left)
      [] conv = "X" ->
           LET x == utoa(Unsigned(arg), 16)
           IN  emit_pad([i \in DOMAIN x |-> IF x[i] \in DOMAIN Capital THEN Capital[x[i]] ELSE x[i]],
                        width, zero, left)
      [] conv = "p" -> <<"0", "x">> \o emit_pad(utoa(Unsigned(arg), 16), 8, TRUE, FALSE)

Taking == {"c", "s", "d", "i", "u", "x", "X", "p"}

\* format: what the sink is given.  A % at the end prints nothing, an unknown
\* conversion prints itself.
format(fmt, args) ==
    LET n == Len(fmt)
        Out[i \in 1..(n + 2), a \in 1..(Len(args) + 1)] ==
            IF i > n THEN <<>>
            ELSE IF fmt[i] # "%" THEN <<fmt[i]>> \o Out[i + 1, a]
            ELSE LET k == Past(fmt, i + 1, {"0", "-"})
                     m == Past(fmt, k, DOMAIN DigitOf)
                     flags == {fmt[j] : j \in (i + 1)..(k - 1)}
                 IN  IF m > n THEN <<>>
                     ELSE IF fmt[m] \in Taking
                     THEN Converted(fmt[m], args[a], Number(fmt, k, m), "0" \in flags, "-" \in flags)
                          \o Out[m + 1, a + 1]
                     ELSE (IF fmt[m] = "%" THEN <<"%">> ELSE <<"%", fmt[m]>>) \o Out[m + 1, a]
    IN  Out[1, 1]

\* kvsnprintf: what is left in a buffer of size bytes, before the NUL, and the
\* result, the length of the whole text.
kvsnprintf(size, fmt, args) ==
    LET t == format(fmt, args)
    IN  [buf |-> SubSeq(t, 1, IF Len(t) < size THEN Len(t) ELSE size - 1), result |-> Len(t)]
=============================================================================
