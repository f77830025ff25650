------------------------------ MODULE Control ------------------------------
(***************************************************************************)
(* The control plane of kernel/core/control.c: the m1kectl commands that   *)
(* change something, and what they change: the key table and its file, the *)
(* style and its sheet, the accent of the console, the module table and    *)
(* the masks of the two 8259s, the keyboard layout and the event log.      *)
(* The boot task runs commands one at a time, so each is one step.         *)
(*                                                                         *)
(* A write to the file system fails when the heap is full; nobody looks.   *)
(***************************************************************************)
EXTENDS Config, Theme, EventLog

CONSTANTS
    Typed,          \* bound: what is typed after the commands
    MaxCommands,    \* bound: commands in a session
    DefaultConfig,  \* the settings config_init supplies
    Palette,        \* colours ui.accent may name
    Loaders         \* masks the boot loader may leave: <<master, slave>>

\* The registers have eight bits, and the loader leaves the lines of the timer and
\* of the keyboard open: nothing in the kernel opens them at boot.
ASSUME LoaderAssumption ==
    \A m \in Loaders : m \in [1..2 -> SUBSET (0..7)] /\ 0 \notin m[1] /\ 1 \notin m[1]

\* What can be typed and what is logged.
ASSUME TypedAssumption ==
    /\ {"info", "ok", "warn"} \subseteq Messages
    /\ Typed.settings \subseteq Entry /\ Typed.files \subseteq Seq(Entry)
    /\ Typed.policies \subseteq Words /\ Typed.prompts \subseteq Words
    /\ \A c \in Typed.styles : c.events \in Seq(Messages) /\ c.val \in Given
    /\ Typed.sheets \subseteq Seq(STRING \X (Seq(STRING \X Given) \ {<<>>}))
    /\ Palette \subseteq Paint

\* The kernel's own values are words, and its keys fit in the table.
ASSUME KernelKeysAssumption ==
    /\ {"true", "false", "us", "es"} \subseteq Words
    /\ \A k \in {"ui.accent", "input.layout", "scheduler.policy", "shell.prompt", "net.enabled"} :
          k \in Keys /\ CutKey[k] = k
    /\ DefaultConfig \in Seq(Entry)
    /\ \A i \in DOMAIN DefaultConfig :
          /\ CutKey[DefaultConfig[i].key] = DefaultConfig[i].key
          /\ DefaultConfig[i].key = "input.layout" => DefaultConfig[i].val \in {<<"us">>, <<"es">>}

VARIABLES
    table,      \* cfg
    file,       \* /etc/m1ke/system.conf, or <<>>
    g,          \* the style
    sheet,      \* /etc/m1ke/theme.m1ss, or <<>>
    accent,     \* g_accent of the console
    layout,     \* of the keyboard
    enabled,    \* module -> is it loaded
    masks,      \* <<master, slave>>: the bits set in the mask registers
    opened,     \* history: the desktop was opened since the mouse was unloaded
    commands    \* commands so far

settings == <<table, file>>
style == <<g, sheet>>
modules == <<enabled, masks, opened>>
vars == <<settings, style, modules, accent, layout, commands, logVars>>

\* One more command, which logs these events.  One that is refused is not
\* counted: it changes nothing at all.
Command(events) ==
    /\ commands < MaxCommands
    /\ commands' = commands + 1
    /\ log' = FoldLeft(Logged, log, events)
    /\ said' = said \o events

-----------------------------------------------------------------------------
(* Modules and interrupt masks.                                            *)

\* The modules that may be unloaded, and one that may not, with their lines.
Irq == [keyboard |-> 1, mouse |-> 12, timer |-> 0]
Core == {"timer"}

\* Mutant of Port: the line of the slave is not counted from its first.
PortUnshifted(irq) == IF irq < 8 THEN <<1, irq>> ELSE <<2, irq>>

\* The mask register of a line and its bit there.
Port(irq) == IF irq < 8 THEN <<1, irq>> ELSE <<2, irq - 8>>

\* The registers have eight bits.
Masked(irq) == [masks EXCEPT ![Port(irq)[1]] = @ \cup ({Port(irq)[2]} \cap 0..7)]
Unmasked(m, irq) == [m EXCEPT ![Port(irq)[1]] = @ \ {Port(irq)[2]}]

ModuleSet(name, on) ==
    IF (name \in Core /\ ~on) \/ enabled[name] = on
    THEN UNCHANGED vars
    ELSE /\ Command(<<IF on THEN "ok" ELSE "warn">>)
         /\ enabled' = [enabled EXCEPT ![name] = on]
         /\ masks' = IF on THEN Unmasked(masks, Irq[name]) ELSE Masked(Irq[name])
         /\ opened' = (opened /\ name # "mouse")
         /\ UNCHANGED <<settings, style, accent, layout>>

\* mouse_init, when the desktop is opened.
Gui ==
    /\ Command(<<>>)
    /\ masks' = Unmasked(Unmasked(masks, 2), 12)
    /\ opened' = TRUE
    /\ UNCHANGED <<settings, style, enabled, accent, layout>>

-----------------------------------------------------------------------------
(* Configuration.                                                          *)

ConfigSave(t) == file' \in {Lines(t), file}

\* control_apply_config; a value that is no colour changes nothing.
ApplyConfig(t) ==
    LET v == ConfigGet(t, "ui.accent", <<"orange">>)
    IN accent' = IF Len(v) = 1 /\ v[1] \in Palette THEN v[1] ELSE accent

ConfigCommand(k, v) ==
    /\ Command(<<>>)
    /\ table' = ConfigSet(table, k, v)
    /\ ConfigSave(table')
    /\ ApplyConfig(table')
    /\ UNCHANGED <<style, modules, layout>>

SaveCommand ==
    /\ Command(<<>>)
    /\ ConfigSave(table)
    /\ UNCHANGED <<table, style, modules, accent, layout>>

\* What the commands of the other objects have in common: a setting of their
\* own is changed and saved.
ObjectSet(k, v, events) ==
    /\ Command(events)
    /\ table' = ConfigSet(table, k, <<v>>)
    /\ ConfigSave(table')
    /\ UNCHANGED <<style, modules, accent>>

PolicySet(p) == ObjectSet("scheduler.policy", p, <<"ok">>) /\ UNCHANGED layout
PromptSet(p) == ObjectSet("shell.prompt", p, <<>>) /\ UNCHANGED layout
ServiceStart == ObjectSet("net.enabled", "true", <<"ok">>) /\ UNCHANGED layout
ServiceStop == ObjectSet("net.enabled", "false", <<"warn">>) /\ UNCHANGED layout
LayoutSet(l) == layout' = l /\ ObjectSet("input.layout", l, <<"ok">>)

\* config_init: the table is not emptied first.
ReloadCommand ==
    LET filled == WithDefaults(table, DefaultConfig)
    IN /\ IF file = <<>>
          THEN table' = filled /\ ConfigSave(filled) /\ Command(<<"info">>)
          ELSE table' = Parse(filled, file) /\ UNCHANGED file /\ Command(<<"ok">>)
       /\ ApplyConfig(table')
       /\ UNCHANGED <<style, modules, layout>>

\* The user writes a line into the file, or removes it.
EditConfig(lines) ==
    /\ Command(<<>>)
    /\ file' = lines
    /\ UNCHANGED <<table, style, modules, accent, layout>>

-----------------------------------------------------------------------------
(* The theme.                                                              *)

ThemeSave(s) == sheet' \in {SheetOf(s), sheet}

\* theme_set, from m1kectl theme, m1kectl wm or the settings window, which
\* differ in what they log.
ThemeCommand(c) ==
    IF Target(c.sel, c.prop) = <<>>
    THEN UNCHANGED vars
    ELSE /\ Command(c.events)
         /\ g' = Apply(g, Target(c.sel, c.prop), <<c.val>>)
         /\ ThemeSave(g')
         /\ accent' = g'[<<"desktop", "accent">>]
         /\ UNCHANGED <<settings, modules, layout>>

\* Mutant of ThemeReload: the console keeps the old accent.
ThemeReloadSilent(events) ==
    /\ Command(events)
    /\ g' = ParseSheet(Defaults, sheet)
    /\ UNCHANGED <<settings, modules, layout, sheet, accent>>

\* theme_reload; without a sheet the defaults are back.
ThemeReload(events) ==
    /\ Command(events)
    /\ g' = ParseSheet(Defaults, sheet)
    /\ accent' = g'[<<"desktop", "accent">>]
    /\ UNCHANGED <<settings, modules, layout, sheet>>

\* The one-line sheets the user writes.
Texts == {[blocks |-> b, text |-> OneLine(b, closed)] : b \in Typed.sheets, closed \in BOOLEAN}

EditSheet(text) ==
    /\ Command(<<>>)
    /\ sheet' = text
    /\ UNCHANGED <<settings, g, modules, accent, layout>>

-----------------------------------------------------------------------------
\* core_init and kmain, with an empty file system.
BootEvents == <<"info", "ok", "ok", "ok">>

Init ==
    /\ table = WithDefaults(<<>>, DefaultConfig) /\ file = Lines(table)
    /\ g = Defaults /\ sheet = SheetOf(g) /\ accent = g[<<"desktop", "accent">>]
    /\ layout = ConfigGet(table, "input.layout", <<"us">>)[1]
    /\ enabled = [m \in DOMAIN Irq |-> TRUE]
    /\ masks \in Loaders
    /\ opened = FALSE /\ commands = 0
    /\ log = FoldLeft(Logged, EmptyLog, BootEvents) /\ said = BootEvents

Next ==
    \/ \E m \in DOMAIN Irq, on \in BOOLEAN : ModuleSet(m, on)
    \/ Gui
    \/ \E s \in Typed.settings : ConfigCommand(s.key, s.val)
    \/ SaveCommand
    \/ \E p \in Typed.policies : PolicySet(p)
    \/ \E p \in Typed.prompts : PromptSet(p)
    \/ ServiceStart
    \/ ServiceStop
    \/ \E l \in {"us", "es"} : LayoutSet(l)
    \/ ReloadCommand
    \/ \E lines \in Typed.files : EditConfig(lines)
    \/ \E c \in Typed.styles : ThemeCommand(c)
    \/ \E events \in {<<>>, <<"ok">>} : ThemeReload(events)
    \/ EditSheet(<<>>)
    \/ \E t \in Texts : EditSheet(t.text)

Spec == Init /\ [][Next]_vars

-----------------------------------------------------------------------------
(* Properties.                                                             *)

TypeOK ==
    /\ table \in Seq(Entry) /\ Len(table) <= CFG_MAX
    /\ file \in Seq(Entry)
    /\ DOMAIN g = DOMAIN Defaults
    /\ \A k \in DOMAIN Limits : g[k] \in Limits[k][1]..Limits[k][2]
    /\ \A k \in Colours : g[k] \in Paint
    /\ accent \in Paint /\ layout \in {"us", "es"}
    /\ enabled \in [DOMAIN Irq -> BOOLEAN] /\ Core \subseteq {m \in DOMAIN Irq : enabled[m]}
    /\ \A i \in 1..2 : masks[i] \subseteq 0..7

\* Keys that the table keeps and the parser reads back as they are.
Plain(k) == CutKey[k] = k /\ k \notin Comments /\ k \notin DOMAIN Halves

\* What config_save writes is enough to restore the table: parsed over the
\* defaults it gives every key the value it has, as long as all keys are plain
\* and none is the rest of a longer one.
FileRestoresTable ==
    (\A i \in DOMAIN table : Plain(table[i].key)
                             /\ \A k \in Keys : CutKey[k] = table[i].key => CutKey[k] = k)
    => LET restored == Parse(WithDefaults(<<>>, DefaultConfig), Lines(table))
       IN \A k \in Keys : ConfigGet(restored, k, <<>>) = ConfigGet(table, k, <<>>)

\* A second config reload changes nothing that the first has not, whatever is
\* in the file and however full the table is, unless a line has a key that is
\* too long for the table: that one takes another entry each time.
ReloadSettles ==
    (\A i \in DOMAIN file : CutKey[file[i].key] = file[i].key)
    => LET once == Parse(WithDefaults(table, DefaultConfig), file)
       IN Parse(WithDefaults(once, DefaultConfig), file) = once

\* control.c:2: loading and unloading a module has a real effect.  The line of
\* an unloaded module is masked, for the mouse only until the desktop is
\* opened; that of a loaded keyboard or a core module never is.
IsMasked(irq) == IF irq < 8 THEN irq \in masks[1] ELSE irq - 8 \in masks[2]

MasksFollowModules ==
    /\ \A m \in DOMAIN Irq : ~enabled[m] /\ ~(m = "mouse" /\ opened) => IsMasked(Irq[m])
    /\ \A m \in DOMAIN Irq \ {"mouse"} : enabled[m] => ~IsMasked(Irq[m])

\* The accent of the console has two owners, ui.accent and the theme; it is
\* always the colour of one of them, if ui.accent names a colour at all.
AccentIsOwned ==
    LET named == ConfigGet(table, "ui.accent", <<"orange">>)
    IN named \in {<<c>> : c \in Palette} => accent \in {named[1], g[<<"desktop", "accent">>]}

\* What a sheet says when its declarations are taken one after the other.
Said(s, b) == FoldLeft(LAMBDA t, d : Apply(t, <<b[1], d[1]>>, <<d[2]>>), s, b[2])

Meaning(blocks) == FoldLeft(Said, Defaults, blocks)

\* A sheet without # colours means to m1ss_parse what its declarations say, on
\* one line, with or without the last semicolon.
PlainSheetApplies ==
    [][\A t \in Texts :
        /\ sheet = t.text
        /\ \A b \in Range(t.blocks) : \A d \in Range(b[2]) : d[2].kind # "hash"
        /\ \E events \in {<<>>, <<"ok">>} : ThemeReload(events)
        => g' = Meaning(t.blocks)]_vars

\* m1ss.c:3 and README.md:36: the sheet can be edited and reloaded.  What the
\* code does: it writes colours with a #, which it reads as a comment to the
\* end of the line, so that a sheet just saved is not read back as it was.
ThemeSurvivesReload == sheet = SheetOf(g) => ParseSheet(Defaults, sheet) = g
=============================================================================
