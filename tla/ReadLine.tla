------------------------------ MODULE ReadLine -----------------------------
(***************************************************************************)
(* The line editor of the shell (kernel/shell/shell.c): read_line echoes   *)
(* every key on the console, erases by backspaces, goes up and down the    *)
(* history; shell_run stores the line, splits it, runs it and prompts      *)
(* again.  What the commands do is the matter of other modules: here they  *)
(* print something, or clear the screen.                                   *)
(***************************************************************************)
EXTENDS Console, FiniteSets, SequencesExt

CONSTANTS
    LINE_MAX, HIST_MAX, ARG_MAX,
    Glyphs,     \* what the console is given to draw
    Prompt,     \* the text of the prompt
    Chars,      \* the characters typed: read_line takes no others
    Outputs,    \* what a command may print, each a sequence of characters
    MaxKeys     \* bound: keys pressed

\* Nothing the kernel prints leaves a line behind that a carriage return has
\* taken the cursor back into.
EndsReturns(t) == \A i \in DOMAIN t : t[i] = "cr" => \E j \in DOMAIN t : j > i /\ t[j] = "nl"

ASSUME ReadLineAssumption ==
    /\ LINE_MAX \in Nat \ {0} /\ HIST_MAX \in Nat \ {0} /\ ARG_MAX \in Nat \ {0}
    /\ {Blank, "bs", "nl"} \subseteq Glyphs
    /\ Chars \subseteq Glyphs \ {"nl", "cr", "bs", "tab"}
    /\ Prompt \in Seq(Glyphs) /\ Outputs \subseteq Seq(Glyphs)
    /\ \A t \in Outputs \cup {Prompt} : EndsReturns(t)

VARIABLES
    screen,     \* the grid of console.c
    buf,        \* the line
    hist, hist_pos,
    argv,       \* the words of the last line, as execute got them
    pressed,    \* keys pressed so far
    roll,       \* history: all that was printed since the last clear
    entered,    \* history: all lines entered
    start,      \* history: the column where the line begins
    longest     \* history: how long the line has been since the prompt

vars == <<screen, buf, hist, hist_pos, argv, pressed, roll, entered, start, longest>>

Init ==
    /\ screen = Puts(Cleared, Prompt) /\ roll = RollPuts(NewRoll, Prompt)
    /\ buf = <<>> /\ hist = <<>> /\ hist_pos = 0 /\ argv = <<>>
    /\ pressed = 0 /\ entered = <<>>
    /\ start = screen.x /\ longest = 0

-----------------------------------------------------------------------------
Show(t) == screen' = Puts(screen, t) /\ roll' = RollPuts(roll, t)

\* Mutant of Erased: the first character of the line is left.
ErasedShort(n) == [i \in 1..(3 * (n - 1)) |-> IF i % 3 = 2 THEN Blank ELSE "bs"]

\* erase_line.
Erased(n) == [i \in 1..(3 * n) |-> IF i % 3 = 2 THEN Blank ELSE "bs"]

\* The line becomes b; t is printed.
Edit(b, t) ==
    /\ buf' = b /\ Show(t)
    /\ longest' = IF Len(b) > longest THEN Len(b) ELSE longest
    /\ UNCHANGED <<hist, argv, entered, start>>

Insert(c) ==
    /\ IF Len(buf) < LINE_MAX - 1 THEN Edit(Append(buf, c), <<c>>) ELSE Edit(buf, <<>>)
    /\ UNCHANGED hist_pos

Backspace ==
    /\ IF buf # <<>> THEN Edit(Front(buf), Erased(1)) ELSE Edit(buf, <<>>)
    /\ UNCHANGED hist_pos

Up ==
    /\ hist_pos > 0
    /\ hist_pos' = hist_pos - 1
    /\ Edit(hist[hist_pos], Erased(Len(buf)) \o hist[hist_pos])

\* Below the last line of the history the line is empty.
Down ==
    LET next == IF hist_pos + 1 = Len(hist) THEN <<>> ELSE hist[hist_pos + 2] IN
    /\ hist_pos < Len(hist)
    /\ hist_pos' = hist_pos + 1
    /\ Edit(next, Erased(Len(buf)) \o next)

\* Mutant of HistoryAdd: a full history keeps its oldest line.
HistoryAddFull(line) ==
    IF line = <<>> \/ (hist # <<>> /\ Last(hist) = line) THEN hist ELSE Append(hist, line)

\* Mutant of HistoryAdd: a line is looked for in the whole history.
HistoryAddOnce(line) ==
    IF line = <<>> \/ \E i \in DOMAIN hist : hist[i] = line THEN hist
    ELSE IF Len(hist) = HIST_MAX THEN Append(Tail(hist), line)
    ELSE Append(hist, line)

\* history_add: neither empty lines nor the same one twice; the oldest makes room.
HistoryAdd(line) ==
    IF line = <<>> \/ (hist # <<>> /\ Last(hist) = line) THEN hist
    ELSE IF Len(hist) = HIST_MAX THEN Append(Tail(hist), line)
    ELSE Append(hist, line)

\* tokenize: where each word begins, and where the text of its argument ends:
\* before the next blank, but the last of ARG_MAX is not cut off.
Tokens(line) ==
    LET n == Len(line)
        blank(i) == i = 0 \/ i = n + 1 \/ line[i] = Blank
        first == SetToSortSeq({i \in 1..n : blank(i - 1) /\ ~blank(i)}, <)
        argc == IF Len(first) < ARG_MAX THEN Len(first) ELSE ARG_MAX
        end(i) == CHOOSE j \in i..n : blank(j + 1) /\ \A k \in i..j : ~blank(k)
    IN  [k \in 1..argc |-> SubSeq(line, first[k], IF k = ARG_MAX THEN n ELSE end(first[k]))]

\* Enter: the rest of shell_run's pass, up to the next key.
Enter ==
    /\ hist' = HistoryAdd(buf)
    /\ argv' = Tokens(buf)
    /\ \/ \E o \in (IF argv' = <<>> THEN {<<>>} ELSE Outputs) : Show(<<"nl">> \o o \o Prompt)
       \/ argv' # <<>> /\ screen' = Puts(Cleared, Prompt) /\ roll' = RollPuts(NewRoll, Prompt)
    /\ buf' = <<>> /\ hist_pos' = Len(hist')
    /\ entered' = Append(entered, buf)
    /\ start' = screen'.x /\ longest' = 0

Next ==
    /\ pressed < MaxKeys /\ pressed' = pressed + 1
    /\ (\E c \in Chars : Insert(c)) \/ Backspace \/ Up \/ Down \/ Enter

Spec == Init /\ [][Next]_vars

-----------------------------------------------------------------------------
IsLine(b) == b \in Seq(Chars) /\ Len(b) < LINE_MAX

TypeOK ==
    /\ IsLine(buf)
    /\ hist \in Seq(Seq(Chars)) /\ Len(hist) <= HIST_MAX /\ \A i \in DOMAIN hist : IsLine(hist[i])
    /\ hist_pos \in 0..Len(hist)
    /\ screen.x \in 0..(Cols - 1) /\ screen.y \in 0..(Rows - 1)

\* Nothing printed is lost, doubled or out of place: the screen is the last
\* rows of all that was printed since it was cleared, over wraps, tabs,
\* backspaces and any number of scrolls.
ConsoleIsRoll == screen = Window(roll)

\* The screen shows the line and only the line after the prompt, with the cursor
\* behind it, after any editing, as long as it never reached the end of the row.
\* (A backspace does not go back over a wrap.)
LineIsOnScreen ==
    start + longest < Cols =>
        /\ screen.x = start + Len(buf)
        /\ \A i \in start..(Cols - 1) :
              screen.cells[<<screen.y, i>>] = IF i < start + Len(buf) THEN buf[i - start + 1] ELSE Blank

\* The line entered i-th goes to the history: it is neither empty nor the same
\* as the last one before it that was not.
Kept(i) ==
    /\ entered[i] # <<>>
    /\ ~\E h \in 1..(i - 1) : entered[h] = entered[i] /\ \A j \in (h + 1)..(i - 1) : entered[j] = <<>>

Fresh == {i \in DOMAIN entered : Kept(i)}

\* Up and Down walk exactly the last HIST_MAX of the lines entered, without
\* the empty ones and the immediate repetitions: so many places from the end as
\* lines came after it.
HistoryIsRecent ==
    /\ Len(hist) = IF Cardinality(Fresh) < HIST_MAX THEN Cardinality(Fresh) ELSE HIST_MAX
    /\ \A i \in Fresh :
          LET since == Cardinality({j \in Fresh : j > i})
          IN  since < HIST_MAX => hist[Len(hist) - since] = entered[i]
=============================================================================
