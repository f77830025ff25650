------------------------------- MODULE Theme -------------------------------
(***************************************************************************)
(* The style sheet of kernel/gui/m1ss.c: the style, the text it is written *)
(* to and the parser that reads one, as operators.  A text is a sequence   *)
(* of tokens; blanks between them and remarks are left out, but line ends  *)
(* are kept: they end a comment that begins with #.  A colour is a name    *)
(* for its value, whether the text spells it as a name or as digits; words *)
(* fit in the parser's buffers.                                            *)
(***************************************************************************)
EXTENDS Integers, SequencesExt

CONSTANTS
    Paint,      \* bound: the colours that are used
    Named,      \* those the parser knows by name
    Sheet       \* the blocks of a saved sheet: <<selector, properties>>

Mark(s) == [kind |-> s]                     \* { } : ; and the end of a line
Word(w) == [kind |-> "word", v |-> w]
Hash(c) == [kind |-> "hash", v |-> c]       \* # and the six digits of c
Number(n) == [kind |-> "number", n |-> n]

\* What a declaration may give a property.
Given == [kind : {"word"}, v : STRING] \cup [kind : {"hash"}, v : Paint] \cup [kind : {"number"}, n : Int]

\* The fields of a style by selector and property.
Keyed(fields) ==
    [k \in UNION {{sel} \X DOMAIN fields[sel] : sel \in DOMAIN fields} |-> fields[k[1]][k[2]]]

\* theme_defaults.
Defaults ==
    Keyed([desktop |-> [accent |-> "orange", wallpaper |-> "aurora", glow1 |-> "orange", glow2 |-> "violet"],
           window |-> [radius |-> 14, blur |-> 6, opacity |-> 58, shadow |-> 16, border |-> 1,
                       tint |-> "slate"],
           taskbar |-> [visible |-> "true", position |-> "bottom", height |-> 34, opacity |-> 70],
           terminal |-> [background |-> "ink", foreground |-> "white"]])

Colours == {<<"desktop", "accent">>, <<"desktop", "glow1">>, <<"desktop", "glow2">>,
            <<"window", "tint">>, <<"terminal", "background">>, <<"terminal", "foreground">>}

\* The numbers with their bounds.
Limits ==
    Keyed([window |-> [radius |-> <<0, 40>>, blur |-> <<0, 12>>, opacity |-> <<0, 100>>,
                       shadow |-> <<0, 40>>, border |-> <<0, 1>>],
           taskbar |-> [height |-> <<18, 64>>, opacity |-> <<0, 100>>]])

\* A saved sheet has properties that there are, and theme_defaults' colours are colours.
ASSUME ThemeAssumption ==
    /\ {"orange", "violet", "slate", "ink", "white"} \cup Named \subseteq Paint
    /\ Sheet \in Seq(STRING \X Seq(STRING))
    /\ \A b \in DOMAIN Sheet : \A i \in DOMAIN Sheet[b][2] :
          <<Sheet[b][1], Sheet[b][2][i]>> \in DOMAIN Defaults

-----------------------------------------------------------------------------
(* apply: one declaration, whose value is the sequence of tokens x.        *)

IsWord(x, words) == Len(x) = 1 /\ x[1].kind = "word" /\ x[1].v \in words

Colour(x) == Len(x) = 1 /\ (x[1].kind = "hash" \/ IsWord(x, Named))

\* atoi, which takes anything else for 0.
Atoi(x) == IF x # <<>> /\ x[1].kind = "number" THEN x[1].n ELSE 0

\* Mutant of Clamp: the upper bound is forgotten.
ClampBelow(n, limits) == IF n < limits[1] THEN limits[1] ELSE n

\* clampi.
Clamp(n, limits) == IF n < limits[1] THEN limits[1] ELSE IF n > limits[2] THEN limits[2] ELSE n

Choice(x, words, otherwise) == IF IsWord(x, words) THEN x[1].v ELSE otherwise

IsTrue(x) == IsWord(x, {"true", "on", "yes"}) \/ x = <<Number(1)>>

Apply(g, key, x) ==
    CASE key \in Colours -> IF Colour(x) THEN [g EXCEPT ![key] = x[1].v] ELSE g
      [] key \in DOMAIN Limits -> [g EXCEPT ![key] = Clamp(Atoi(x), Limits[key])]
      [] key = <<"desktop", "wallpaper">> ->
            [g EXCEPT ![key] = Choice(x, {"gradient", "grid", "solid"}, "aurora")]
      [] key = <<"taskbar", "visible">> -> [g EXCEPT ![key] = IF IsTrue(x) THEN "true" ELSE "false"]
      [] key = <<"taskbar", "position">> -> [g EXCEPT ![key] = Choice(x, {"top"}, "bottom")]
      [] OTHER -> g

-----------------------------------------------------------------------------
(* m1ss_parse.  "at" is the place in the grammar the next token is read    *)
(* from; skip_ws runs everywhere but inside a value and when it gives a    *)
(* declaration up.  After a selector without { the parser drops a single   *)
(* character; here it drops the token, as no text of the model has one.    *)

Skips(p) == p.at \notin {"value", "junk"}

Declare(p) == [p EXCEPT !.style = Apply(@, <<p.sel, p.prop>>, p.val), !.val = <<>>]

Name(tok) == IF tok.kind = "word" THEN tok.v ELSE ""

Skip(p, tok) ==
    [p EXCEPT !.comment = (@ \/ tok.kind = "hash") /\ tok.kind # "line"]

\* Mutant of ReadValue: a value ends only with a semicolon.
ReadValueOpen(p, tok) ==
    IF tok.kind = ";" THEN [Declare(p) EXCEPT !.at = "property"]
    ELSE [p EXCEPT !.val = Append(@, tok), !.at = "value"]

ReadValue(p, tok) ==
    CASE tok.kind = ";" -> [Declare(p) EXCEPT !.at = "property"]
      [] tok.kind = "}" -> [Declare(p) EXCEPT !.at = "selector"]
      [] OTHER -> [p EXCEPT !.val = Append(@, tok), !.at = "value"]

\* Before the : of a declaration, or when the colon is missing.
ReadOn(p, tok) ==
    CASE tok.kind = "}" -> [p EXCEPT !.at = "selector"]
      [] tok.kind = ";" -> [p EXCEPT !.at = "property"]
      [] tok.kind = ":" -> [p EXCEPT !.at = IF @ = "colon" THEN "start" ELSE "junk"]
      [] OTHER -> [p EXCEPT !.at = "junk"]

Read(p, tok) ==
    IF Skips(p) /\ (p.comment \/ tok.kind \in {"line", "hash"}) THEN Skip(p, tok)
    ELSE CASE p.at \in {"start", "value"} -> ReadValue(p, tok)
           [] p.at = "selector" ->
                 IF tok.kind = "{" THEN [p EXCEPT !.sel = "", !.at = "property"]
                 ELSE [p EXCEPT !.sel = Name(tok), !.at = "open"]
           [] p.at = "open" -> [p EXCEPT !.at = IF tok.kind = "{" THEN "property" ELSE "selector"]
           [] p.at = "property" ->
                 CASE tok.kind = "}" -> [p EXCEPT !.at = "selector"]
                   [] tok.kind = ":" -> [p EXCEPT !.prop = "", !.at = "start"]
                   [] OTHER -> [p EXCEPT !.prop = Name(tok), !.at = "colon"]
           [] OTHER -> ReadOn(p, tok)

Beginning(g) == [at |-> "selector", comment |-> FALSE, sel |-> "", prop |-> "",
                 val |-> <<>>, style |-> g]

\* A text that ends in a value still declares it.
ParseSheet(g, text) ==
    LET p == FoldLeft(Read, Beginning(g), text)
    IN IF p.at \in {"start", "value"} THEN Declare(p).style ELSE p.style

-----------------------------------------------------------------------------
(* theme_save: every property on a line of its own, colours as digits.     *)

Value(g, key) ==
    CASE key \in Colours -> Hash(g[key])
      [] key \in DOMAIN Limits -> Number(g[key])
      [] OTHER -> Word(g[key])

\* A block of declarations; end is what each of its lines ends in.
Block(sel, decls, end) ==
    <<Word(sel), Mark("{")>> \o end
    \o FlattenSeq([i \in DOMAIN decls |->
            <<Word(decls[i][1]), Mark(":"), decls[i][2], Mark(";")>> \o end])
    \o <<Mark("}")>> \o end

SheetOf(g) ==
    FlattenSeq([b \in DOMAIN Sheet |->
        LET sel == Sheet[b][1]
            props == Sheet[b][2]
        IN Block(sel, [i \in DOMAIN props |-> <<props[i], Value(g, <<sel, props[i]>>)>>],
                 <<Mark("line")>>)])

\* A text on one line, as the shell's write makes it; closed says whether the
\* last declaration of a block has its semicolon.
OneLine(blocks, closed) ==
    FlattenSeq([b \in DOMAIN blocks |->
        LET text == Block(blocks[b][1], blocks[b][2], <<>>)
        IN IF closed THEN text ELSE RemoveAt(text, Len(text) - 1)])
    \o <<Mark("line")>>

\* The property that theme_set means: some may be named without selector.
Target(sel, prop) ==
    IF sel # "" THEN <<sel, prop>>
    ELSE CASE prop \in {"accent", "wallpaper", "glow1", "glow2"} -> <<"desktop", prop>>
           [] prop \in {"radius", "blur", "opacity", "shadow", "border", "tint"} -> <<"window", prop>>
           [] OTHER -> <<>>
=============================================================================
