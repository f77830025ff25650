------------------------------- MODULE RamFs -------------------------------
(***************************************************************************)
(* The in-memory file system of kernel/fs/ramfs.c as operators on a tree   *)
(* of nodes: each takes the tree before the call and gives the tree after  *)
(* it, with the node returned where the function returns one.              *)
(*                                                                         *)
(* Names and paths are words.  What the path walker sees in a word is      *)
(* Parsed[w]; what new_node keeps of one is Stored[w], which differs for a *)
(* name of FS_NAME_MAX characters or more.                                 *)
(***************************************************************************)
EXTENDS Integers, SequencesExt

CONSTANTS
    Words,      \* bound: what is typed as a name or a path
    Parsed,     \* word -> [abs : does it begin with a slash, comps : its parts]
    Stored,     \* word -> word
    Length,     \* word -> Nat, its characters
    Beginning,  \* <<word, k>> -> its first k characters, a word
    Texts,      \* bound: contents of files
    Size,       \* text -> Nat, its length
    Blocks,     \* bound: blocks the heap has room for, nodes and contents
    PartsMax,   \* entries of parts in fs_abspath
    BufSize     \* the buffer its callers give it

ASSUME RamFsAssumption ==
    /\ Parsed \in [Words -> [abs : BOOLEAN, comps : Seq(Words)]]
    /\ Stored \in [Words -> Words]
    /\ Size \in [Texts -> Nat]
    /\ Blocks \in Nat \ {0} /\ PartsMax \in Nat \ {0} /\ BufSize \in Nat \ {0}
    /\ Length \in [Words -> Nat] /\ Beginning \in [Words \X (1..BufSize) -> Words]

Slots == 1..Blocks
Null == 0
Root == 1
NoText == "no text"
NoName == ""    \* the root's
Free == [type |-> "free"]

NewNode(name, type, parent) ==
    [type |-> type, name |-> name, parent |-> parent,
     children |-> <<>>, text |-> NoText, cap |-> 0]

Live(t) == {n \in Slots : t[n] # Free}

\* Every node is a block of the heap and so is every file's contents.
HeapFull(t) == Cardinality(Live(t)) + Cardinality({n \in Live(t) : t[n].cap > 0}) = Blocks

Result(t, n) == [tree |-> t, node |-> n]

-----------------------------------------------------------------------------
(* Finding. *)

\* find_child; a file has no children.
FindChild(t, dir, w) ==
    LET i == SelectInSeq(t[dir].children, LAMBDA n : t[n].name = w)
    IN IF i = 0 THEN Null ELSE t[dir].children[i]

Step(t, cur, w) ==
    IF cur = Null THEN Null
    ELSE IF w = "." THEN cur
    ELSE IF w = ".." THEN IF cur = Root THEN cur ELSE t[cur].parent
    ELSE FindChild(t, cur, w)

\* fs_resolve, from the directory the path starts at.
Walk(t, from, comps) == FoldLeft(LAMBDA cur, w : Step(t, cur, w), from, comps)

Resolve(t, cwd, w) == Walk(t, IF Parsed[w].abs THEN Root ELSE cwd, Parsed[w].comps)

\* One node more, above the last of those collected.
OneUp(t, n, nodes) ==
    LET next == IF nodes = <<>> THEN n ELSE t[Last(nodes)].parent
    IN IF next \in {Null, Root} THEN nodes ELSE Append(nodes, next)

\* The nodes from n up to a child of the root, or the first PartsMax of them.
Upwards(t, n) ==
    LET up[k \in 0..PartsMax] == IF k = 0 THEN <<>> ELSE OneUp(t, n, up[k - 1])
    IN up[PartsMax]

\* Their names, from the root down.
Names(t, n) == Reverse([i \in DOMAIN Upwards(t, n) |-> t[Upwards(t, n)[i]].name])

\* What the buffer holds after a slash and as much of the name w as leaves
\* room for rest more characters behind it.
Filled(r, w, rest) ==
    LET room == BufSize - r.pos - 1 - rest
    IN IF room <= 0 THEN r
       ELSE IF Length[w] < room THEN [path |-> Append(r.path, w), pos |-> r.pos + 1 + Length[w]]
       ELSE [path |-> IF room = 1 THEN r.path ELSE Append(r.path, Beginning[<<w, room - 1>>]),
             pos |-> r.pos + room]

\* Mutant of Fill: one character too many is kept free.
FillShort(r, w) == Filled(r, w, 1)

\* One part of the path, with the terminating 0 kept in mind.
Fill(r, w) == Filled(r, w, 0)

\* fs_abspath; the path of the root is empty, and that of a node whose names
\* do not fit is cut.
AbsPath(t, n) == FoldLeft(Fill, [path |-> <<>>, pos |-> 0], Names(t, n)).path

-----------------------------------------------------------------------------
(* Changing. *)

\* The node in the free slot n becomes the first child of dir.
WithChild(t, dir, n, node) ==
    [m \in Slots |-> IF m = n THEN node
                     ELSE IF m = dir THEN [t[m] EXCEPT !.children = <<n>> \o @]
                     ELSE t[m]]

\* Mutant of Create: a name that is taken is used again.
CreateAnyway(t, dir, w, type) ==
    IF dir = Null \/ t[dir].type # "dir" \/ HeapFull(t) THEN Result(t, Null)
    ELSE LET n == CHOOSE m \in Slots \ Live(t) : \A k \in Slots \ Live(t) : m <= k
         IN Result(WithChild(t, dir, n, NewNode(Stored[w], type, dir)), n)

\* fs_create: what is already there, whatever its type, or a new first child.
Create(t, dir, w, type) ==
    IF dir = Null \/ t[dir].type # "dir" THEN Result(t, Null)
    ELSE IF FindChild(t, dir, w) # Null THEN Result(t, FindChild(t, dir, w))
    ELSE IF HeapFull(t) THEN Result(t, Null)
    ELSE LET n == CHOOSE m \in Slots \ Live(t) : \A k \in Slots \ Live(t) : m <= k
         IN Result(WithChild(t, dir, n, NewNode(Stored[w], type, dir)), n)

\* fs_mkdir_p, which walks through whatever has the name; its . and .. are
\* names like any other.
Down(r, w) ==
    IF r.node = Null THEN r
    ELSE IF FindChild(r.tree, r.node, Stored[w]) # Null
    THEN Result(r.tree, FindChild(r.tree, r.node, Stored[w]))
    ELSE Create(r.tree, r.node, Stored[w], "dir")

MkdirP(t, comps) == FoldLeft(Down, Result(t, Root), comps)

Holding(node, x, cap) == [node EXCEPT !.text = x, !.cap = cap]

\* Mutant of FsWrite: the terminating 0 is not counted.
FsWriteOffByOne(t, f, x) ==
    IF t[f].type # "file" \/ (Size[x] > t[f].cap /\ HeapFull(t)) THEN t
    ELSE LET cap == IF Size[x] > t[f].cap THEN Size[x] ELSE t[f].cap
         IN [t EXCEPT ![f] = Holding(t[f], x, cap)]

\* fs_write: a longer text needs a new block, and without one the old text
\* stays.
FsWrite(t, f, x) ==
    IF t[f].type # "file" \/ (Size[x] >= t[f].cap /\ HeapFull(t)) THEN t
    ELSE LET cap == IF Size[x] >= t[f].cap THEN Size[x] + 1 ELSE t[f].cap
         IN [t EXCEPT ![f] = Holding(t[f], x, cap)]

\* fs_put returns the node even when the write failed or the node is a
\* directory.
FsPut(t, comps, x) ==
    LET dir == MkdirP(t, Front(comps))
        file == Create(dir.tree, dir.node, Last(comps), "file")
    IN IF file.node = Null THEN file
       ELSE Result(FsWrite(file.tree, file.node, x), file.node)

WithChildren(t, nodes) == nodes \cup UNION {ToSet(t[m].children) : m \in nodes}

\* The node and all that is below it.
Subtree(t, n) ==
    LET below[k \in 0..Blocks] ==
            IF k = 0 THEN {n} ELSE WithChildren(t, below[k - 1])
    IN below[Blocks]

\* node->children and child->next.
FirstOf(t, d) == IF t[d].children = <<>> THEN Null ELSE Head(t[d].children)

NextOf(t, d, c) ==
    LET kids == t[d].children
        i == SelectInSeq(kids, LAMBDA k : k = c)
    IN IF i \in 1..(Len(kids) - 1) THEN kids[i + 1] ELSE Null

\* The end of fs_remove: the node taken from its parent's list, and freed with
\* what it holds.
Unlinked(t, n) ==
    [m \in Slots |-> IF m = n THEN Free
                     ELSE IF m = t[n].parent THEN [t[m] EXCEPT !.children = RemoveFirst(@, n)]
                     ELSE t[m]]

\* A call that has not returned: its node, and the child its loop goes on with.
Call(t, n) == [node |-> n, child |-> FirstOf(t, n)]

\* Mutant of RemoveStep: the next child is looked for when the child is gone.
RemoveStepLate(r) ==
    LET top == Last(r.calls)
        below == Front(r.calls)
        after == Unlinked(r.tree, top.node)
    IN IF r.calls = <<>> THEN r
       ELSE IF top.child # Null
       THEN [r EXCEPT !.calls = Append(@, Call(r.tree, top.child))]
       ELSE [tree |-> after,
             calls |-> IF below = <<>> THEN <<>>
                       ELSE [below EXCEPT ![Len(below)].child =
                                NextOf(after, Last(below).node, top.node)]]

\* The innermost call goes once round its loop, down to the call for the
\* child, or leaves the loop, frees its node and returns.
RemoveStep(r) ==
    LET top == Last(r.calls)
        onward == [r.calls EXCEPT ![Len(r.calls)].child = NextOf(r.tree, top.node, top.child)]
    IN IF r.calls = <<>> THEN r
       ELSE IF top.child # Null
       THEN [tree |-> [r.tree EXCEPT ![top.child].parent = top.node],
             calls |-> Append(onward, Call(r.tree, top.child))]
       ELSE [tree |-> Unlinked(r.tree, top.node), calls |-> Front(r.calls)]

\* fs_remove; the root stays.  Every node below is called for and returned
\* from once, which takes no more than 2 * Blocks steps.
FsRemove(t, n) ==
    LET run[k \in 0..2 * Blocks] ==
            IF k = 0 THEN [tree |-> t, calls |-> <<Call(t, n)>>] ELSE RemoveStep(run[k - 1])
    IN IF n = Root THEN t ELSE run[2 * Blocks].tree

\* ramfs_init.
EmptyTree == [n \in Slots |-> IF n = Root THEN NewNode(NoName, "dir", Null) ELSE Free]
=============================================================================
