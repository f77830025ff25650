------------------------------ MODULE Desktop ------------------------------
(***************************************************************************)
(* The desktop (kernel/gui/desktop.c): one loop that polls a key, reads    *)
(* the mouse and moves the windows, and the terminal in it, whose commands *)
(* run with their output captured (console.c) and may start the desktop    *)
(* again inside itself.  Drawing leaves no state and is not modelled.      *)
(***************************************************************************)
EXTENDS Mouse, FiniteSetsExt, SequencesExt

CONSTANTS
    Placed,     \* where desktop_run puts the windows: [x, y, w, h, open]
    Bars,       \* the taskbars a theme may ask for: "bottom", "top", "hidden"
    BarHeight,  \* bar_height of the theme
    Arrow,      \* the arrow keys, each with the step it makes
    EditMax, TermMax, OutMax, CapMax,   \* editbuf, termin, termout, cap
    Margin,     \* what term_run keeps free in termout (320)
    Banner, Refusal, Hello, \* lengths of the texts written
    Noted,      \* what a command may leave of the notes: -1 when it removes them
    MaxRuns     \* bound: calls of desktop_run

VARIABLES
    wins, active, startmenu,    \* statics of desktop.c
    bar,        \* the theme's taskbar
    editlen, notes,     \* text in the editor, text of the file (-1: none)
    termin, termout,    \* the words typed, and the length of the text shown
    cap,        \* cap_buf of console.c: the run whose buffer it is, or 0
    last, dragging, mxp, myp,   \* locals of desktop_run
    frames,     \* [last, dragging] of the runs that wait for an inner one
    runs,       \* calls of desktop_run so far
    refused,    \* history: what refusals added to termout since it was reset
    grip        \* history: the window dragged and its offset to the pointer

screen == <<wins, active, startmenu, bar>>
texts == <<editlen, notes, termin, termout, refused>>
locals == <<last, dragging, mxp, myp, grip>>
calls == <<cap, frames, runs>>
vars == <<mouseVars, pc, screen, texts, locals, calls>>

Apps == 0..5
W_TERM == 0
W_EDIT == 1
W_SET == 4
WTH == 28
NoGrip == [win |-> 99, x |-> 0, y |-> 0]

ASSUME DesktopAssumption ==
    /\ Width \in Nat \ {0} /\ Height \in Nat \ {0}
    /\ Ccb0 \in 0..255 /\ Bit(Ccb0, 1)      \* the keyboard is enabled at boot
    /\ Scan \in [DOMAIN Scan -> 0..255]
    /\ Placed \in [Apps -> [x : Int, y : Int, w : Int, h : Int, open : BOOLEAN]]
    /\ \A k \in DOMAIN Arrow : Arrow[k].x \in Int /\ Arrow[k].y \in Int
    /\ \A p \in Plans : /\ p[1] \in Seq([x : Int, y : Int, left : BOOLEAN])
                         /\ p[2] \in Seq(DOMAIN Scan)

\* What is written at the start fits, and what term_run keeps free takes a prompt.
ASSUME SizesAssumption ==
    /\ PortSize \in Nat /\ KeySize \in Nat /\ MaxRuns \in Nat /\ Refusal \in Nat
    /\ EditMax \in Nat /\ Hello \in 0..(EditMax - 1) /\ Noted \subseteq -1..(EditMax - 1)
    /\ OutMax \in Nat /\ Banner \in 0..(OutMax - 1) /\ CapMax \in Nat
    /\ TermMax \in Nat /\ TermMax >= 2
    /\ Margin \in Nat /\ TermMax <= Margin /\ Margin <= OutMax

Init ==
    /\ MouseInit0 /\ pc = "shell"
    /\ wins = Placed /\ active = W_TERM /\ startmenu = FALSE /\ bar \in Bars
    /\ editlen = 0 /\ notes = -1 /\ termin = <<>> /\ termout = 0 /\ refused = 0
    /\ cap = 0 /\ frames = <<>> /\ runs = 0
    /\ last = [x |-> 0, y |-> 0, left |-> FALSE] /\ dragging = FALSE
    /\ mxp = 0 /\ myp = 0 /\ grip = NoGrip

-----------------------------------------------------------------------------
(* Where things are on the screen. *)

InRect(p, x, y, w, h) == p.x >= x /\ p.x < x + w /\ p.y >= y /\ p.y < y + h

bar_y == IF bar = "top" THEN 0 ELSE Height - BarHeight
OnBar(p, x, w) == bar # "hidden" /\ InRect(p, x, bar_y + (BarHeight - 20) \div 2, w, 20)

menu_top == IF bar = "top" THEN BarHeight + 6
            ELSE Height - (IF bar = "bottom" THEN BarHeight ELSE 0) - (7 * 24 + 12) - 6
MenuItems(p) == {i \in 0..6 : InRect(p, 8, menu_top + 28 + i * 24 - 4, 210, 22)}

Open == {i \in Apps : wins[i].open}
Tasks(p) == {i \in Open : OnBar(p, 112 + 126 * Cardinality({j \in Open : j < i}), 120)}
Under(p) == {i \in Open : InRect(p, wins[i].x, wins[i].y, wins[i].w, wins[i].h)}

\* The highest window under the pointer wins over the taskbar.
Target(p) == IF Under(p) # {} THEN Max(Under(p))
             ELSE IF Tasks(p) # {} THEN Max(Tasks(p)) ELSE active

next_open == LET after == {k \in 1..6 : (active + k) % 6 \in Open}
             IN  IF after = {} THEN active ELSE (active + Min(after)) % 6

\* editor_load: strncpy into editbuf.
Loaded == IF notes = -1 THEN Hello ELSE Min({notes, EditMax - 1})

-----------------------------------------------------------------------------
(* desktop_run: the call, from the shell or from the terminal. *)

\* `gui' at the shell, after commands that may have done what Execute's do.
Gui ==
    /\ pc = "shell" /\ runs < MaxRuns
    /\ runs' = runs + 1
    /\ MouseInit /\ UNCHANGED keys
    /\ bar' \in Bars /\ notes' \in {notes} \cup Noted
    /\ UNCHANGED <<wins, active, startmenu, editlen, termin, termout, refused>>
    /\ UNCHANGED <<locals, cap, frames>>

\* The shell reads what is typed.
ShellKey ==
    /\ pc = "shell" /\ keys # <<>>
    /\ keys' = Tail(keys)
    /\ UNCHANGED <<mouse, device, hands, crossed, pc, screen, texts, locals, calls>>

\* mouse_init goes on.
Poll == /\ ResetY \/ ResetCycle \/ ResetLeft \/ AskStatus \/ SetDefaults \/ Enable \/ OpenIrq
        /\ UNCHANGED <<screen, texts, locals, calls>>

\* The statics and the locals get their first values.
Setup ==
    /\ pc = "opened" /\ pc' = "poll"
    /\ wins' = Placed /\ active' = W_TERM /\ startmenu' = FALSE
    /\ termin' = <<>> /\ termout' = Banner /\ refused' = 0
    /\ editlen' = Loaded
    /\ last' = [x |-> mx, y |-> my, left |-> FALSE]
    /\ dragging' = FALSE /\ grip' = NoGrip
    /\ UNCHANGED <<mouseVars, bar, notes, mxp, myp, calls>>

\* Mutant of Released: the buffer of the function that returns stays the target.
ReleasedNot == cap

\* console_capture_end.
Released == 0

\* The loop ends: back to the shell, or to the terminal of the outer run, which
\* ends its capture, has nothing to show and goes on with its pass.
Return ==
    /\ pc = "exit"
    /\ IF frames = <<>>
       THEN pc' = "shell" /\ UNCHANGED <<termin, last, dragging, cap, frames>>
       ELSE /\ pc' = "readx"
            /\ frames' = Front(frames)
            /\ last' = Last(frames).last /\ dragging' = Last(frames).dragging
            /\ cap' = Released
            /\ termin' = <<>>
    /\ grip' = NoGrip
    /\ UNCHANGED <<mouseVars, screen, editlen, notes, termout, refused, mxp, myp, runs>>

-----------------------------------------------------------------------------
(* One pass of the loop: the key .. *)

TextApp == active \in {W_TERM, W_EDIT} /\ ~startmenu

NoKey ==
    /\ pc = "poll" /\ keys = <<>> /\ pc' = "readx"
    /\ UNCHANGED <<mouseVars, screen, texts, locals, calls>>

\* The key k is read; the pass goes on at next.
Got(k, next) ==
    /\ pc = "poll" /\ keys # <<>> /\ k = Head(keys)
    /\ keys' = Tail(keys) /\ pc' = next
    /\ UNCHANGED <<mouse, device, hands, crossed, last, dragging, mxp, myp, runs>>

Leave ==
    /\ Got("esc", "exit")
    /\ UNCHANGED <<screen, texts, cap, frames, grip>>

\* The grave accent and Tab; Tab may hand a drag over to another window.
Switch ==
    /\ \/ Got("tick", "readx") /\ startmenu' = ~startmenu /\ UNCHANGED <<active, grip>>
       \/ Got("tab", "readx") /\ active' = next_open /\ grip' = NoGrip /\ UNCHANGED startmenu
    /\ UNCHANGED <<wins, bar, texts, cap, frames>>

\* editor_key and terminal_key, but for Enter in the terminal.
Write(k) ==
    /\ TextApp /\ k \notin {"esc", "tick", "tab"}
    /\ Got(k, "readx")
    /\ IF active = W_EDIT
       THEN /\ UNCHANGED termin
            /\ editlen' = IF k = "back" THEN Max({editlen - 1, 0})
                          ELSE IF k \in DOMAIN Arrow THEN editlen
                          ELSE Min({editlen + 1, EditMax - 1})
       ELSE /\ k # "enter" /\ UNCHANGED editlen
            /\ termin' = IF k = "back" THEN SubSeq(termin, 1, Len(termin) - 1)
                         ELSE IF k \in DOMAIN Arrow \/ Len(termin) >= TermMax - 2 THEN termin
                         ELSE Append(termin, k)
    /\ UNCHANGED <<screen, notes, termout, refused, cap, frames, grip>>

\* Elsewhere only the arrows count: they move the active window, open or not.
MoveByKey(k) ==
    /\ ~TextApp /\ k \notin {"esc", "tick", "tab"}
    /\ Got(k, "readx")
    /\ IF k \in DOMAIN Arrow
       THEN /\ wins' = [wins EXCEPT ![active].x = @ + Arrow[k].x, ![active].y = @ + Arrow[k].y]
            /\ grip' = NoGrip
       ELSE UNCHANGED <<wins, grip>>
    /\ UNCHANGED <<active, startmenu, bar, texts, cap, frames>>

Prompt == 1 + Len(termin)
Command == active = W_TERM /\ TextApp

\* term_run, the two words it knows itself: `gui' is refused without a look at
\* the space left.
OwnWord ==
    /\ Command /\ Got("enter", "readx")
    /\ \/ termin = <<"clear">> /\ termout' = 0 /\ refused' = 0
       \/ /\ termin = <<"gui">>
          /\ termout' = termout + Prompt + Refusal /\ refused' = refused + Prompt + Refusal
    /\ termin' = <<>>
    /\ UNCHANGED <<screen, editlen, notes, cap, frames, grip>>

\* Mutant of Shown: the check leaves no room for the prompt.
ShownTight == IF termout >= OutMax THEN 0 ELSE termout

\* Otherwise termout is emptied first when less than the margin is left.
Shown == IF termout + Margin >= OutMax THEN 0 ELSE termout

\* A command runs captured; its output is appended when it fits, and it may
\* restyle the desktop and write or remove the notes.
Execute ==
    /\ Command /\ termin \notin {<<"clear">>, <<"gui">>, <<"gui ">>}
    /\ Got("enter", "readx")
    /\ \E n \in 0..(CapMax - 1) :
          termout' = Shown + Prompt + (IF Shown + Prompt + n < OutMax THEN n ELSE 0)
    /\ refused' = IF Shown = 0 THEN 0 ELSE refused
    /\ bar' \in Bars /\ notes' \in {notes} \cup Noted
    /\ cap' = Released
    /\ termin' = <<>>
    /\ UNCHANGED <<wins, active, startmenu, editlen, frames, grip>>

\* `gui' with a blank after it is not the word term_run refuses: the desktop
\* starts again inside the command.
Nest ==
    /\ Command /\ termin = <<"gui ">> /\ runs < MaxRuns
    /\ pc = "poll" /\ keys # <<>> /\ Head(keys) = "enter"
    /\ keys' = Tail(keys)
    /\ MouseInit
    /\ termout' = Shown + Prompt /\ refused' = IF Shown = 0 THEN 0 ELSE refused
    /\ frames' = Append(frames, [last |-> last, dragging |-> dragging])
    /\ cap' = Len(frames')
    /\ runs' = runs + 1
    /\ grip' = NoGrip
    /\ UNCHANGED <<screen, editlen, notes, termin, last, dragging, mxp, myp>>

-----------------------------------------------------------------------------
(* .. then the mouse, read in three steps an interrupt may come between .. *)

ReadX == pc = "readx" /\ pc' = "ready" /\ mxp' = mx
         /\ UNCHANGED <<mouseVars, screen, texts, calls, last, dragging, myp, grip>>

ReadY == pc = "ready" /\ pc' = "act" /\ myp' = my
         /\ UNCHANGED <<mouseVars, screen, texts, calls, last, dragging, mxp, grip>>

\* .. and what it does: each kind of click at p says what changes.
Unclicked == [open |-> Open, active |-> active, menu |-> startmenu, edit |-> editlen,
              notes |-> notes, drag |-> dragging, quit |-> FALSE]

MenuClick(p) ==
    LET i == Max(MenuItems(p))
        closed == [Unclicked EXCEPT !.menu = FALSE]
    IN  IF MenuItems(p) = {} THEN closed
        ELSE IF i = 6 THEN [closed EXCEPT !.quit = TRUE]
        ELSE [closed EXCEPT !.open = @ \cup {i}, !.active = i,
                            !.edit = IF i = W_EDIT THEN Loaded ELSE @]

\* A click on the active window, w: close, Save, the title.  Settings has
\* swatches, of no effect here, and no grip.
WindowClick(p, a, saved) ==
    LET w == wins[a]
        chosen == [Unclicked EXCEPT !.active = a]
    IN  IF ~w.open THEN chosen
        ELSE IF InRect(p, w.x + w.w - 22, w.y + 8, 12, 12) THEN [chosen EXCEPT !.open = @ \ {a}]
        ELSE IF a = W_EDIT /\ InRect(p, w.x + w.w - 74, w.y + 5, 60, 18)
             THEN [chosen EXCEPT !.notes = IF saved THEN editlen ELSE @]
        ELSE IF a # W_SET /\ InRect(p, w.x, w.y, w.w, WTH) THEN [chosen EXCEPT !.drag = TRUE]
        ELSE chosen

Clicked(p, saved) ==
    IF startmenu THEN MenuClick(p)
    ELSE IF OnBar(p, 8, 92) THEN [Unclicked EXCEPT !.menu = TRUE]
    ELSE WindowClick(p, Target(p), saved)

\* Mutant of Pulled: the movement is counted from where the pointer is by now.
PulledFresh(w) == [w EXCEPT !.x = @ + mx - last.x, !.y = @ + my - last.y]

\* A dragged window moves by what the pointer moved since the last pass.
Pulled(w) == [w EXCEPT !.x = @ + mxp - last.x, !.y = @ + myp - last.y]

\* fs_put may fail.
Act ==
    LET p == [x |-> mxp, y |-> myp] IN
    \E saved \in BOOLEAN :
        LET r == IF btn_left /\ ~last.left THEN Clicked(p, saved) ELSE Unclicked
            shown == [i \in Apps |-> [wins[i] EXCEPT !.open = i \in r.open]]
        IN
        /\ pc = "act" /\ pc' = IF r.quit THEN "exit" ELSE "poll"
        /\ active' = r.active /\ startmenu' = r.menu
        /\ editlen' = r.edit /\ notes' = r.notes
        /\ dragging' = (r.drag /\ btn_left)
        /\ wins' = IF dragging' THEN [shown EXCEPT ![r.active] = Pulled(@)] ELSE shown
        /\ last' = [x |-> mxp, y |-> myp, left |-> btn_left]
        /\ grip' = IF ~dragging' THEN NoGrip
                   ELSE IF dragging THEN grip
                   ELSE [win |-> r.active, x |-> wins[r.active].x - last.x,
                         y |-> wins[r.active].y - last.y]
        /\ mxp' = 0 /\ myp' = 0
        /\ UNCHANGED <<mouseVars, bar, termin, termout, refused, calls>>

-----------------------------------------------------------------------------
Outside ==
    /\ Report \/ PressKey \/ MouseIrq \/ KeyboardIrq
    /\ UNCHANGED <<pc, screen, texts, locals, calls>>

Keyed == \/ NoKey \/ Leave \/ Switch \/ OwnWord \/ Execute \/ Nest
         \/ \E k \in DOMAIN Scan : Write(k) \/ MoveByKey(k)

Next == Outside \/ Gui \/ ShellKey \/ Poll \/ Setup \/ Return \/ Keyed \/ ReadX \/ ReadY \/ Act

Spec == Init /\ [][Next]_vars

-----------------------------------------------------------------------------
\* The text of the editor and of the terminal stay inside their arrays, the
\* refusals of `gui' apart, which term_run appends without a check.
BuffersHold ==
    /\ editlen \in 0..(EditMax - 1)
    /\ Len(termin) <= TermMax - 2
    /\ termout >= 0 /\ termout - refused < OutMax

TypeOK ==
    /\ MouseTypeOK /\ BuffersHold
    /\ \A i \in Apps : wins[i].x \in Int /\ wins[i].y \in Int /\ wins[i].open \in BOOLEAN
    /\ active \in Apps /\ startmenu \in BOOLEAN /\ bar \in Bars
    /\ dragging \in BOOLEAN /\ mxp \in 0..(Width - 1) /\ myp \in 0..(Height - 1)
    /\ notes \in -1..(EditMax - 1) /\ runs \in 0..MaxRuns
    /\ pc \in {"shell", "resety", "resetcycle", "resetleft", "reset", "status", "ackF6", "ackF4",
               "opened", "poll", "readx", "ready", "act", "exit"}

\* From the pass that begins a drag until the button is released, the window is
\* moved by an arrow or Tab chooses another, the pointer stays on the same point
\* of the same window, whatever packets arrive between the reads of a pass.
DragKeepsGrip ==
    grip # NoGrip => /\ dragging /\ active = grip.win
                     /\ wins[active].x - last.x = grip.x
                     /\ wins[active].y - last.y = grip.y

\* The console never writes into the buffer of a term_run that has returned,
\* and nothing is captured when no command of a desktop is running.
CaptureEnds == cap \in 0..Len(frames)
=============================================================================
