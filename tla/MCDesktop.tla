----------------------------- MODULE MCDesktop -----------------------------
(***************************************************************************)
(* A small screen: the terminal is open, the editor is closed, both under  *)
(* the spots the user can aim at; the other windows are out of reach.      *)
(***************************************************************************)
EXTENDS Desktop

Away == [x |-> 400, y |-> 400, w |-> 50, h |-> 50, open |-> FALSE]
MCPlaced == [i \in Apps |->
    IF i = W_TERM THEN [x |-> 10, y |-> 40, w |-> 150, h |-> 100, open |-> TRUE]
    ELSE IF i = W_EDIT THEN [x |-> 60, y |-> 90, w |-> 160, h |-> 80, open |-> FALSE]
    ELSE Away]

MCArrow == [left |-> [x |-> -16, y |-> 0]]
MCScan == [k \in {"esc", "tick", "tab", "enter", "back", "gui ", "gui", "clear", "left"} |->
    CASE k = "esc" -> 1 [] k = "tick" -> 41 [] k = "tab" -> 15 [] k = "back" -> 14
      [] k = "enter" -> 28 [] k = "left" -> 75 [] OTHER -> 57]

\* The file is removed, or as long as the editor can make it.
MCNoted == {-1, 3}

Up(s) == [x |-> s[1], y |-> s[2], left |-> FALSE]
Down(s) == [x |-> s[1], y |-> s[2], left |-> TRUE]

Title == <<20, 50>>     \* of the terminal; Terminal in the menu
Editor == <<20, 75>>    \* in the menu
Exit == <<20, 195>>     \* in the menu
Start == <<20, 220>>
Save == <<150, 100>>    \* in the editor; else bare desktop or terminal
Close == <<140, 50>>    \* of the terminal
Task == <<120, 220>>    \* the first window in the taskbar
Far == <<300, 50>>      \* more than 255 from Title

\* A press, a movement with the button down, a release; two clicks.
Drag(s, t) == <<Down(s), Down(t), Up(t)>>
Clicks(s, t) == <<Down(s), Up(t), Down(t)>>

Drags == {Drag(Title, Start), Drag(Title, Far), Drag(Save, Title)}
MenuClicks == {Clicks(Start, Editor), Clicks(Start, Exit), Clicks(Editor, Save), Clicks(Exit, Title)}
WindowClicks == {Clicks(Close, Title), Clicks(Task, Close)}

\* Dragging while the desktop starts again, while a window is moved by key or
\* chosen; clicks in the menu and in windows, opened by mouse and by key.
MCPlans ==
    (Drags \X {<<"gui ", "enter">>, <<"tick", "left">>, <<"tab", "back">>})
    \cup (MenuClicks \X {<<"tick", "tab">>, <<"left", "tick">>})
    \cup (WindowClicks \X {<<"tab", "back">>, <<"clear", "enter">>})
    \cup ({Clicks(Exit, Title), Drag(Title, Start)} \X {<<"gui ", "enter", "esc">>, <<"esc">>})
    \cup ({<<>>} \X {<<"gui", "enter", "enter">>, <<"gui ", "enter", "enter", "enter">>,
                     <<"gui ", "enter", "clear", "enter">>})
=============================================================================
