----------------------------- MODULE MCControl -----------------------------
(***************************************************************************)
(* Control for TLC.  The ten default settings are cut to two and the table *)
(* to four entries.  "longer" is cut to "long", "#k" reads as a comment    *)
(* and "k=x" as a setting of k.  A saved sheet is cut to properties of     *)
(* every kind.                                                             *)
(***************************************************************************)
EXTENDS Control

MCKeys == {"ui.accent", "input.layout", "net.enabled", "scheduler.policy", "shell.prompt", "k", "long",
           "longer", "#k", "k=x"}

MCWords == STRING

MCCutKey == [k \in MCKeys |-> IF k = "longer" THEN "long" ELSE k]

MCHalves == [k \in {"k=x"} |-> <<"k", "x">>]

MCDefaultConfig == <<Setting("ui.accent", <<"orange">>), Setting("input.layout", <<"us">>)>>

Change(sel, prop, val, events) == [sel |-> sel, prop |-> prop, val |-> val, events |-> events]

MCTyped ==
    [policies |-> {"priority"}, prompts |-> {"hax0r"},
     settings |-> {Setting("ui.accent", <<"blue">>), Setting("ui.accent", <<"mud">>),
                   Setting("k", <<"blue">>), Setting("longer", <<"blue">>),
                   Setting("#k", <<"blue">>), Setting("k=x", <<"blue">>)},
     files |-> {<<>>, <<Setting("ui.accent", <<"green">>)>>,
                <<Setting("longer", <<"mud">>)>>, <<Setting("long", <<"mud">>)>>},
     styles |-> {Change("", "accent", Hash("blue"), <<"ok">>),
                 Change("", "wallpaper", Word("grid"), <<>>),
                 Change("window", "radius", Number(50), <<"ok">>),
                 Change("", "height", Number(20), <<"ok">>)},
     sheets |-> {<< <<"desktop", << <<"accent", Word("green")>>, <<"wallpaper", Word("solid")>> >> >>,
                    <<"taskbar", << <<"height", Number(5)>>, <<"position", Word("top")>> >> >> >>,
                 << <<"desktop", << <<"accent", Hash("blue")>>, <<"wallpaper", Word("solid")>> >> >> >>}]

MCSheet == << <<"desktop", <<"accent", "wallpaper", "glow1">> >>,
              <<"window", <<"radius", "tint">> >>,
              <<"taskbar", <<"visible">> >> >>

MCLoaders == {<< {2}, {} >>}
=============================================================================
