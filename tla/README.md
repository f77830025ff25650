# A TLA+ model of m1keOS

m1keOS is a small 32-bit kernel: one address space, preemptive round-robin tasks,
a static heap, an in-memory file system, a shell, a package manager, a control
plane and a desktop. This directory models it in TLA+: TLC checks the modules on small
instances, and the TLA+ proof system proves the main theorems for every instance.
Paths such as `process.c` are below `src/kernel/`.

## The system

Everything runs in ring 0 on one CPU. The *boot task* (task 0) runs the shell and
the desktop; four *worker tasks* print heartbeats and sleep; the *interrupts* are the
timer (IRQ0), the keyboard (IRQ1) and the mouse (IRQ12). Handlers run with
interrupts off and finish before another begins, but a timer handler may switch
stacks and then finishes only when its task is resumed. Kernel services that are
called from several places protect themselves with `irq_save` / `irq_restore`.

| component | state it keeps | operations | talks to |
| --- | --- | --- | --- |
| scheduler (`process.c`) | PCBs in a circular list, the current task, the slice | create, tick, yield, sleep, exit | timer, heap, `switch_context` |
| interrupts (`idt.c`, `lowlevel.asm`, `pic.c`) | handler table, masks, in-service bits | dispatch, then EOI | every driver |
| timer (`timer.c`) | the tick count | tick, sleep by polling | scheduler |
| heap (`heap.c`) | a list of blocks over one static area | kmalloc, kcalloc, kfree, krealloc | file system, tasks, desktop |
| frames (`pmm.c`) | a bitmap and a count | init from Multiboot, alloc, free | memory report |
| paging (`vmm.c`) | an identity map | init | - |
| keyboard (`keyboard.c`) | modifiers, layout, dead accent, a ring of keys | IRQ1 handler, getc, set layout | input, control |
| input (`input.c`, `serial.c`) | escape-sequence state | poll, getchar (halts) | keyboard, serial line |
| mouse (`mouse.c`) | position, button, packet under assembly | IRQ12 handler, init | desktop |
| ramfs (`ramfs.c`) | a tree of heap blocks | create, resolve, mkdir_p, remove, write, put, abspath | heap, shell, pkg, config, theme, desktop |
| shell (`shell.c`) | working directory, line, history | commands | all |
| m1pkg (`pkg.c`) | none but the tree: files and records | install, remove, list | ramfs |
| config (`config.c`) | a table of keys, and its file | set, save, init/reload | ramfs, control |
| theme (`m1ss.c`) | the style, and its file | parse, save, set, reload | ramfs, console |
| control (`control.c`, `registry.c`) | module table | m1kectl commands | config, theme, PIC, keyboard, events |
| events (`events.c`) | a ring of messages | log, dump | control, config |
| console (`console.c`) | cursor, colours, accent, capture buffer | print, capture | all |
| desktop (`desktop.c`) | windows, focus, terminal and editor text | event loop | input, mouse, shell, theme |
| syscall (`syscall.c`) | a counter | int 0x80 dispatch | scheduler, serial line |

What makes each one correct, and what is hard about it:

- **Scheduler.** One task runs; a READY task gets the CPU; sleepers wake, and not early;
  every walk along the ring ends; IRQ0 never stays in service. Hard: the EOI is sent
  after the handler, hence after the stack switch, by whichever task was suspended
  inside an interrupt; slots of dead tasks are reused while they are linked.
- **Heap.** Blocks in use never overlap; free neighbours are merged; the count is exact; a
  request fails only when no hole is large enough. Hard: merging in every order.
- **Frames.** Only RAM is given out, never the kernel or the low memory; the count is exact.
  Hard: maps with holes, cut-off ends and memory beyond the bitmap.
- **Keyboard and input.** Modifiers do not stick; keys are neither lost, doubled nor
  reordered; what is typed is read. Hard: there is no lock, the interrupt comes between
  any two steps of the reader, and the task halts after it has looked.
- **Files, shell, packages.** The tree has no leak, cycle or dangling pointer; paths lead
  back; packages can be removed. Hard: long sequences of legal commands, a full heap in the
  middle of one, names that are too long or contain slashes.
- **Configuration, theme, control.** What a command calls saved is in the file and comes
  back; each setting has one owner. Hard: two copies of everything, ignored results.
- **Console and library.** The screen shows the end of what was printed; `printf` and the conversions
  are right at the ends of their ranges. Hard: wraps, tabs and scrolls at the edges.
- **Mouse and desktop.** The pointer follows the hand; a drag keeps its grip; a capture ends with its
  command. Hard: polls of port 0x60 and of the position against the interrupts, and a desktop inside a desktop.

`PROJECT.json` lists the hazards at their lines, with the properties that watch each.

## The modules

| module | models | extends / instantiates |
| --- | --- | --- |
| `Scheduler` | `process.c`, IRQ0 with its EOI, `switch_context`, the worker programs | |
| `SchedulerProofs` | theorems about `Scheduler` | `Scheduler` |
| `Allocator` | what an allocator promises | |
| `Heap` | `heap.c` | instance of `Allocator` |
| `Pmm`, `MCPmm` | `pmm.c`, and its memory maps for TLC | |
| `MemoryProofs` | theorems about `Heap` and `Pmm` | `Heap`, `Pmm`, `Induction` |
| `BoundedFifo` | what a bounded queue promises | |
| `KeyQueue` | the ring of `keyboard.c` | instance of `BoundedFifo` |
| `Keyboard` | the scancode decoder | `KeyQueue` |
| `Input` | user, terminal, IRQ1, timer and `input_getchar` | `Keyboard` |
| `InputProofs` | theorems about `KeyQueue` and `Input` | `Input` |
| `RamFs` | `ramfs.c` as operators on a tree | |
| `Storage`, `MCStorage` | shell commands and `pkg.c` over the tree | `RamFs` |
| `StorageProofs` | theorems about `Storage` and the tree | `Storage`, `Induction` |
| `EventLog` | the ring of `events.c` | |
| `Config` | the key table of `config.c` and its file, as operators | |
| `Theme` | the style of `m1ss.c`, its text and its parser, as operators | |
| `Control`, `MCControl` | the m1kectl commands of `control.c` | `Config`, `Theme`, `EventLog` |
| `ControlProofs` | theorems about `Control` with its event log, table, masks and style sheet | `Control`, `Induction` |
| `Mouse` | `mouse.c`, the 8042 it shares with the keyboard, and the hands | |
| `Desktop`, `MCDesktop` | the loop of `desktop.c` with its terminal and editor | `Mouse` |
| `DesktopProofs` | theorems about `Desktop` | `Desktop` |
| `Console` | the text screen of `console.c`, and the roll it shows | |
| `ReadLine`, `MCReadLine` | `read_line`, history and tokenizer of `shell.c` | `Console` |
| `ReadLineProofs` | theorems about `ReadLine` and the screen | `ReadLine`, `Induction` |
| `Printf` | `printf.c`, and the numbers of `string.c`, as operators | |
| `Induction` | induction and recursion over numbers, folds and sums: what the proofs about data rest on | |

### Scheduler

A PCB is spread over `state`, `used`, `next` and `delay`, the distance of its `wake_tick`; `current`, `quantum`
and `nextPid` are the statics of `process.c`. The 8259 is one bit, `inService`: while IRQ0 is in service no
tick comes. `resume[t]` says where a task that is off the CPU was suspended: at its entry (`"entry"`),
inside the timer interrupt (`"irq"`), so that it sends the EOI when it is resumed, or inside a call of its own
(`"call"`), or nowhere (`"none"`). That is what `irq_handler` and the saved stack
amount to. The actions are the entry points: `Create`, `Tick` (the handler with wake-ups and slice, and the EOI
when it does not switch), `Yield`, `Sleep`, `Exit`; the last four end in `Schedule`, which contains
`switch_context` with what the resumed side does. `lost` is set where the CPU is: a walk that does not
end, or a jump to a null stack.
Programs are classes of task: *blocking* ones keep coming back to the scheduler,
as the workers of `main.c` do, *exiting* ones may end.

### Heap

The state is the block list: `size`, `used` flag, `next` and `prev` of each header in the area,
plus what callers hold. `Kmalloc`, `Kfree`, `Krealloc` are one step each, since each runs
with interrupts off. `Coalesce` is composed of its two halves as in the code, the
second on the links the first has left. `Allocator` knows only the blocks that are held
and where: it allows an allocation wherever nothing is held, and a failure only when no hole
fits. `KeepsPromise` is `Allocator`'s specification under the mapping of headers to held blocks.

### Pmm

`PmmBoot` is `pmm_init` over a chosen memory map; then (`PmmNext`) frames are allocated, freed, and
freed again in any order.

### KeyQueue, Keyboard, Input

`Push` runs inside IRQ1 and is one step; `keyboard_getc_nonblock` runs with interrupts on and
is two, `Peek` and `Advance`. `BoundedFifo` is a sequence of at most `BUF_SIZE - 1` keys.
`KbCallback` decodes one byte: prefix, releases, modifiers, dead accent, key. The tables are
reduced to the keys the decoder tells apart. `Input` adds the hardware that feeds
it (bytes waiting in the 8042 and the 16550, a user with hands on the keys) and the task in
`input_getchar`, whose program counter separates polling the ring, polling the line and
halting.

### RamFs, Storage

Nodes live in slots, as the heap's blocks; `tree[n]` has the fields of `fs_node_t`, the sibling
list as a sequence with the newest first. Contents count as a block too and a block is
missing when the heap is full, so every step of a compound operation can fail. Sizes and fragmentation of
the heap are `Heap`'s matter; here, when one request of a command fails, its later ones fail too until something is freed. `Booted` is what
the modules' initialisations leave, for which the heap has room. Words
stand for strings: `Parsed` says what the path walker sees in one, `Stored` what is kept of
one that is too long, `Length` how many characters it has and `Beginning` what its first ones are. `AbsPath` fills
the buffer of `fs_abspath` name by name (`Fill`) and stops in the middle of one when it is full. `FsRemove` runs the recursion of `fs_remove` step by step
(`RemoveStep`) with a stack of its calls, each with its node and the child its loop goes on with, read
before the one at hand is unlinked and freed. `Storage` has one action per command that changes something: `Cd`,
`Make` (mkdir, touch), `Write`, `Rm`, `Install`, `Uninstall`. When a command frees
the working directory, `lost` records it, and only commands that do not read
`cwd` follow until `cd` leaves it: what the others do with freed memory is undefined.

### EventLog, Config, Theme, Control

`EventLog` keeps `ring`, `ev_head` and `ev_total` in one record and what was logged as
history. `Config` has the table as a sequence of entries and the file as the sequence of its lines;
three kinds of key do not read back as they were written: too long (`CutKey`), beginning with `#`,
containing `=` (`Halves`). `Theme` works on tokens. `Read` is one step of the parser, whose place in
the grammar is where the nested loops of `m1ss_parse` stand; line ends are tokens
because `#` comments run up to them, and words are as short as the parser's buffers. `Control` has one action per command that changes something, and the
edits a user can make with `write` and `rm`. Any save may fail, since `fs_put` may and nobody
looks. The mask registers are two sets of bits, reached through `Port` as `pic.c` does it.

### Mouse, Desktop

The bytes behind port 0x60 are one queue, each with its source: a key, a packet (`aux`), an
acknowledgement or the controller. `MouseIrq` and `KeyboardIrq` are `mouse_callback` and
`kb_callback`; `mouse_init` is cut at every reset of a static (`MouseInit`, `ResetY`, `ResetCycle`, `ResetLeft`), since a report may be decoded
in between, and at its polls of the port (`AskStatus`, `SetDefaults`, `Enable`, `OpenIrq`),
since an interrupt may take the byte first. An answer read by the wrong reader and a reset while a report is on its way set `crossed`. The user
has a plan, points to bring the mouse to and keys to press, and the hardware splits a movement into a packet.
`Desktop` cuts a pass of `desktop_run` where an interrupt can make a difference: the key, the
reading of `x`, the reading of `y`, and the rest. The terminal's commands are a word each. Most of them print
something captured (`Execute`), and may restyle the desktop and rewrite the editor's file; `gui` with a blank behind it passes the test for `gui` and starts the desktop
inside the command (`Nest`), with the outer run's locals in `frames` until `Return`. `cap` is the run
whose buffer the console writes to. Texts are kept by their lengths. Changing the style is a new place for the taskbar.

### Console, ReadLine, Printf

The screen is a grid with a cursor; `Put` is `vt_putc` and `fb_putc`, the same but for the tab stop. The *roll* is
what a terminal promises: a paper that never ends, of which `Window` is the last `Rows` rows.
`ReadLine` has one action per key of `read_line`, each with the backspaces it prints, and `Enter` with
the rest of `shell_run`: history, tokenizer, a command that prints one of `Outputs` or clears the screen, and the prompt.
`Printf` writes `format` as a function from the text and the arguments to what the sink gets,
with integers of `W` bits; `MCReadLine` states what C promises of it as assumptions over all 8-bit integers.

## What is checked

| run | shows |
| --- | --- |
| `scheduler` | types; exactly the current task RUNNING; EOI accounting; the ring whole until a slot is reused; who is off the CPU stays off; nobody starves |
| `scheduler_ring` | *violation*: reusing a dead task's slot breaks the circular run queue |
| `scheduler_hog` | *violation*: a new task that never calls the scheduler is never preempted |
| `heap` | tiling, coalescing, exact count, and that the list implements the allocator |
| `pmm` | exact count; nothing leaked or shared; what is given out is RAM above the low memory and the kernel |
| `input` | modifiers follow the hands; the ring is a FIFO under interruption; escape sequences stay whole; what is typed is read |
| `storage` | sound tree, distinct names, paths lead back, removal undoes installation |
| `storage_install` | *violation*: a package is recorded although its files could not be written |
| `control` | the file restores the table; a reload settles; masks follow modules; the accent has an owner; a dump shows the last events; a sheet means what it says |
| `theme` | *violation*: a saved style sheet is not read back as it was |
| `desktop` | the pointer follows the hand through packets, polls and initialisations; a drag keeps its grip; a capture ends with its command; texts stay in their arrays |
| `shell` | the screen is the end of the roll; the line on it is the line edited; the history is the last lines entered; `printf`, `atoi`, `itoa` and `utoa` |

**Bounds.** `scheduler`: four slots, slices of two ticks, delays up to two ticks, six creations, which is
enough to fill the table, end tasks and reuse a slot; the two violations use the
smallest instance that shows the behaviour. `heap`: 20 bytes with headers of two and requests of 1, 4 and
7: up to five blocks, splits that just fit and that just do not, and every order of freeing. `pmm`:
nine frames of four bytes, five maps chosen for their boundaries. `input`: a ring of three
(two keys, so it fills), three presses or releases among seven keys with both shifts, AltGr,
CapsLock, an accent, a letter and an arrow, two bytes on the wire, one key from the terminal.
`storage`: sessions of five commands, ten blocks: both packages can be recorded, and the second one's contents no
longer fit; directories one level deeper than `parts` holds; a buffer of ten characters, which `/bin/long` just fills and in which
`/long/long` is cut. `control`: sessions of four
commands, four entries of which two are defaults, a ring of three events that has wrapped at boot, and a sheet cut to
properties of every kind. `desktop`: 28 plans of a user, each up to three reports of the mouse and four keys,
so that every kind of click and drag meets the keys that disturb it; 320 by 240 points with the taskbar at the bottom, on which a movement past 255
sets the overflow bits; three bytes in the 8042, a whole packet or keys between packets; two calls of
`desktop_run`, one inside the other or one after the other. `shell`: a screen of three rows of five, so that lines wrap and scroll
within the eight keys; lines of three characters, a history of two, two arguments; outputs with a tab, a
carriage return and a backspace. The counters `MaxPid`, `MaxEvents`, `MaxLine`,
`MaxCommands`, `MaxRuns` and `MaxKeys` only bound the runs. Deadlock checking is off where the bounded session ends
(`storage`, `control`, `theme`, `desktop`, `shell`) or where every task may end (`scheduler`).

**Fairness.** `scheduler`: the PIT keeps ticking, so `Tick` happens while it is not blocked, and blocking programs come back to the
scheduler, as the loops of `main.c` do. `NobodyStarves` needs both, since no tick comes while IRQ0 is in
service and only a program's own call gets it out of there (`scheduler_hog` shows a program that makes none).
`input`: timer and keyboard interrupts are delivered, and the boot task, which gets the CPU again and again by
`NobodyStarves`, goes on with its loop. The terminal and the user are under no obligation.
That IRQ1 is delivered rests on IRQ0, which has the higher priority, not staying in service. The other runs state
safety only and assume no fairness.

**Disagreements found.** `process.h:28` calls `next` a circular run queue; after `alloc_pcb` has reused the slot
of a dead task the queue is not circular (`RingCircular`). `process.h:1-4` promises
preemption by the timer; a task started by the timer interrupt holds its EOI back until it calls the
scheduler (`PreemptedByTimer`). `pkg.c:2-3` says that installing materializes a package's files;
`do_install` records it whether it did or not (`InstallMaterializes`). `README.md:36` of the repository says the
style sheet is edited and reloaded, and `m1ss.c:163` writes `accent: #...` into it; the parser takes `#` for a
comment, which swallows the colour and the next declaration (`ThemeSurvivesReload`).

Smaller ones are written into the properties where they show. `%05d` of a negative number comes out one
wider than asked for, because `emit_pad` prints the sign and forgets it (`printf.c:32-40`, `FieldsAreWide`).
`ksnprintf` returns the length of the whole text, not of what was written (`BuffersAreBounded`). `erase_line` prints
backspaces, which stop at the left edge, so that a line that has wrapped is not erased (`LineIsOnScreen` leaves those out).
A path of 256 characters or more, which five directories with names of 60 make, is cut by `fs_abspath` at the buffers of `pwd` and the
prompt (`shell.c:48`, `shell.c:259`) and then names another node or none; `PathRoundTrip` speaks of the paths that fit. The refusal of `gui` in the desktop's terminal is appended without a look at the space left
(`desktop.c:313`; `refused` in `BuffersHold`). A second `mouse_init` polls for
acknowledgements and resets its statics with IRQ12 already open (`crossed` in `PointerFollowsHand`).

## What is proved

For every value of the constants that the modules' assumptions allow, without bounds on time, all
invariants of the passing runs, the two action properties (`RemoveUndoesInstall`, `PlainSheetsApply`) and the two refinements:

- `Induction` is what the rest needs about data. The provers cannot instantiate a theorem with an operator, so induction is
  stated over sets: a set that has 0 and with every number the next has them all (from the library's first-order facts about
  well-founded relations). From it come recursion, that a recursive function over numbers has the values its
  equations say, folds over finite sets and over sequences (`FoldReaches`: a fold is the end of a chain of steps), and sums.
- `SchedulerProofs`: `TypeCorrect`, `OneTaskRuns`, `EoiIsOwed`, `RingStaysLinked`, `RingStaysWhole` and `OffStays`. The invariant
  `OneRunning` rests on types only. `EoiOwed` (while IRQ0 is in service some READY task owes the EOI, or
  the current one is new) is inductive together with the first two. The ring's part is that
  until a slot is reclaimed the first n slots are in use, each linked to the one below it and the head to the last:
  an insertion adds the next one and nothing is ever unlinked. That walks end and meet everyone follows by induction along them. `OffStays` assumes that the
  boot task never blocks or ends, as `kmain` does not.
- `MemoryProofs`, the heap: `HeapTypes`, `HeapTiles`, `HeapCoalesced`, `HeapUsedIsExact` and `HeapKeepsPromise`. The inductive
  invariant says that the headers tile the area, that `next` and `prev` are inverse, that what is
  held is what is marked used and large enough, and that no two neighbours are free; the last part holds between
  operations only because `Release` merges both ways. The count is a sum over the headers, which a split or a merge of
  free blocks leaves alone. Refinement is proved step by step: an
  allocation lands in a hole, a release gives exactly one block back, a failure means no
  free block fits and, everything being coalesced, no hole does. The assumptions are that sizes are
  positive and multiples of the alignment.
- `MemoryProofs`, the frames: `PmmTypes`, `CountHolds`, `FramesAreAccounted` and `FramesAreUsable`, for every memory map,
  page size and size of the bitmap. `used_frames` is tied to the cardinality of the marked frames; that a frame given out is
  RAM throughout is proved for regions that begin on a page boundary, as `pmm_init` rounds a region's start down.
- `InputProofs`: `InputQueueIsFifo`, `RingIsFifo` and `RingInvHolds`, `ModifiersFollow`, `SequencesAreWhole` and
  `InputTypes`. The ring of `keyboard.c` implements `BoundedFifo` for every `BUF_SIZE` from 2 on, with `Push` between
  the two steps of the reader: what a reader has peeked at is still the oldest key, which a `Push` cannot
  change because a full ring refuses. For the modifiers the invariant looks at the wire: the last byte of a modifier that
  is not decoded yet agrees with the user's hand, and when there is none the decoder does; and a code that needs the
  prefix follows a `0xE0`, on the wire or in `ext`. It holds for wires and sessions of any length and any user with the
  keys of `InputAssumption`. For the terminal, the parser is as far into an arrow as the bytes taken from the line.
- `StorageProofs`: `StorageTyped`, `TreeStaysSound`, `NamesToldApart`, `PathsLeadBack` and `RemoveUndoes`, for any words, packages and heap that
  has room for the home directory. The invariant says of the tree that child lists and parents agree and that the allocated nodes
  are the least set with the root that is closed under children; its steps are stated for the three operations
  on the tree (a new child, new contents, a subtree cut off), and two relations, of a tree that grows and of one that
  shrinks, carry them through the loops of `mkdir_p`, installation and removal and tell where the working directory
  is. `fs_remove` frees exactly the node and what is below it (`FsRemoveIs`): on its way the calls form a path down from the node, what
  each has still to do is behind the child it goes on with, and every step brings the end nearer. A path leads back because the chain of parents that `fs_abspath` follows upward is walked downward by `fs_resolve`,
  each name being the only one of its kind in its directory; as long as it is shorter than the buffer, no name of it is cut (`PathFits`). After a removal a walk leads nowhere exactly if it led to
  a freed node before (`WalkPruned`). It leads to one only along the path removed, as two ways down from the root that
  meet have the same names (`SameWay`). So a package's files and record go and another's stay. `RepoAssumption` says of the repository's
  table what holds of `repo` in `pkg.c`: its names are shorter than `FS_NAME_MAX`, and no path of a package is a prefix of a path of another.
- `ControlProofs`: `ControlTyped`, `PlainSheetsApply`, `DumpIsFaithful` (a message at most `EV_MAX` old is that many places before the head), `FileRestores`, `ReloadIsSettled`,
  `AccentOwned` and `MasksFollow`. The invariant of the table is that the defaults come first, in their order,
  and that a key with two entries is what is kept of a longer one. For the reload it is followed which line of
  the file is the last to set an entry. `LoaderAssumption` says that the loader leaves the timer's and the
  keyboard's lines open, as nothing opens them in the kernel, and `KernelKeysAssumption` that the kernel's own keys fit in an entry.
  For the style sheet the parser is followed from place to place of its grammar. Whatever it reads, its style stays one whose numbers
  are within their limits (`ReadType`, `ApplyFits`), also in a comment or a declaration without a colon. A sheet without `#` is read block by
  block: between blocks and after each semicolon the style is that of the declarations so far (`Between`, `Within`), and a `}` declares an
  open value as a `;` does (`ReadEnds`), for any number of blocks and declarations. `ThemeAssumption` says that what `theme_save` writes are properties that there are;
  a style may hold any of the colours `Paint`, those of `theme_defaults` among them.
- `DesktopProofs`: `DesktopTyped`, `DragsHold`, `CapturesEnd` and `PointerFollows`, for every screen, placing of the windows and user. A drag's
  part of the invariant says that the window dragged is the active one and where it stands relative to the
  last pass's position; it survives packets between the reads because a pass uses only what it has read. The pointer's
  part (`Leads`) is a run of the driver over all that waits behind the port: from its packet and pointer to a whole packet and the
  hand. An interrupt takes the first byte of the run away, a report adds three bytes at its end that the driver
  understands as meant (nine-bit movements, the overflow bits), a poll of `mouse_init` that meets its own answer
  leaves the run alone, and at most one answer to the request for the command byte waits, a true one. The bounds
  (`BuffersHold` is one of them) say that a full port has room for the one answer of a poll, and that every prompt fits in what `term_run` keeps
  free (`SizesAssumption`: 128 characters in 320). Assumed is that the keyboard is enabled at boot.
- `ReadLineProofs`: `LineTyped`, `ScreenIsRoll`, `LineShown`, `HistoryRemembers` and, of the console alone, `PutShowsRoll`: if the screen shows the end of
  a roll, it still does after any character. The invariant adds that nothing stands behind the cursor and that every edit
  of the line is to erase n characters and write others; of outputs and prompt it is assumed that none leaves a line after a carriage return
  (`EndsReturns`), as none in the kernel does. The history's invariant relates it to the lines entered, of which it is the
  last that were neither blank nor a repetition.

TLC evaluates every assumption on the instance of the run that extends its module.

Only model-checked:

- liveness under fairness (`NobodyStarves`, `InputIsRead`), which is out of the prover's reach;
- `Printf`, whose conversions are recursive operators and which `MCReadLine` checks over all 8-bit integers;
- the disagreements, which are counterexamples.

## What is not modelled

- Pixels, fonts, colours and the compositing of the desktop with its wallpaper; the swatches of its Settings
  window, whose effect on the style is that of the commands in `Control`.
- `syscall.c`. One task uses it: `worker_delta` (`main.c:148`) talks to the kernel only through `int 0x80`, which
  `isr_handler` hands to `syscall_dispatch`. Its `sys_sleep` is the scheduler's `Sleep`, so that in `Scheduler` it is one of the programs that
  keep coming back; the calls left over return a number or write to the serial line, or are `Yield` and `Exit`, and the dispatcher itself only counts.
- `vmm.c`, which does nothing after start-up; `vfs.h`, a header without code; `fs_append`, which nothing calls;
  `timer_sleep_ms`, which waits for the tick count; reboot; transmission on the serial line; the functions of
  `string.c` on memory and strings, which are what sequences do; the web site.
- `README.md` of the repository also describes an ATA driver and a mount layer that the source does not contain.
- Sizes near `SIZE_MAX` and memory maps beyond 2^44 bytes are outside the models' assumptions.

## Plan

1. *Done:* all modules of the table above, and the proofs.
2. *Done:* `RemoveUndoesInstall`, under `RepoAssumption`.
