------------------------------ MODULE Storage ------------------------------
(***************************************************************************)
(* The file system as its users see it: the commands of kernel/shell/      *)
(* shell.c that change the tree or the working directory, and the package  *)
(* manager of kernel/pkg/pkg.c.  The boot task runs them one at a time and *)
(* no other task touches the tree, so each command is one step.            *)
(***************************************************************************)
EXTENDS RamFs

CONSTANTS
    Typed,      \* bound: command -> the words the user types after it
    MaxCommands,    \* bound: commands in a session
    Seeds,      \* the directories made at boot, paths in order
    Home,       \* the directory the shell starts in
    DbDir,      \* DB_DIR
    Repo,       \* package name -> the paths of its files
    Contents    \* the text packages put into their files and records

\* ramfs_init, shell_init and pkg_init: the boot directories, made in order.
Booted == FoldLeft(LAMBDA t, path : MkdirP(t, path).tree, EmptyTree, Seeds)

ASSUME StorageAssumption ==
    /\ Typed \in [cd : SUBSET Words, mkdir : SUBSET Words, touch : SUBSET Words, write : SUBSET Words,
                  rm : SUBSET Words, install : SUBSET Words, remove : SUBSET Words]
    /\ Seeds \in Seq(Seq(Words)) /\ Home \in Seq(Words)
    /\ DbDir \in Seq(Words) \ {<<>>}
    /\ DOMAIN Repo \subseteq Words
    /\ \A p \in DOMAIN Repo : Repo[p] \in Seq(Seq(Words) \ {<<>>})
    /\ Contents \in Texts
    \* At boot the heap has room for the directories, and Home is one of them.
    /\ Walk(Booted, Root, Home) # Null

VARIABLES
    tree,       \* the nodes
    cwd,        \* the shell's working directory
    lost,       \* history: the node cwd points to has been freed
    commands    \* commands so far

vars == <<tree, cwd, lost, commands>>

Init ==
    /\ tree = Booted
    /\ cwd = Walk(tree, Root, Home)
    /\ lost = FALSE /\ commands = 0

\* One more command; every command takes this step.
Counted == commands < MaxCommands /\ commands' = commands + 1

\* A path that does not begin at the root needs the working directory.
Usable(w) == Parsed[w].abs \/ ~lost

-----------------------------------------------------------------------------
(* execute in shell.c. *)

Cd(w) ==
    /\ Counted
    /\ Usable(w)
    /\ LET d == Resolve(tree, cwd, w)
       IN IF d # Null /\ tree[d].type = "dir"
          THEN cwd' = d /\ lost' = FALSE
          ELSE UNCHANGED <<cwd, lost>>
    /\ UNCHANGED tree

CdHome == Counted /\ cwd' = Root /\ lost' = FALSE /\ UNCHANGED tree

\* mkdir and touch take their argument as a name, slashes and all.
Make(w, type) ==
    /\ Counted
    /\ ~lost
    /\ tree' = Create(tree, cwd, w, type).tree
    /\ UNCHANGED <<cwd, lost>>

Write(w, x) ==
    /\ Counted
    /\ ~lost
    /\ LET found == Resolve(tree, cwd, w)
           file == IF found # Null THEN Result(tree, found) ELSE Create(tree, cwd, w, "file")
       IN tree' = IF file.node = Null THEN tree ELSE FsWrite(file.tree, file.node, x)
    /\ UNCHANGED <<cwd, lost>>

\* What a removal does to the shell that stands in the removed directory.
Stranded == lost' = (lost \/ tree'[cwd] = Free) /\ UNCHANGED cwd

Rm(w) ==
    /\ Counted
    /\ Usable(w)
    /\ LET n == Resolve(tree, cwd, w)
       IN tree' = IF n = Null THEN tree ELSE FsRemove(tree, n)
    /\ Stranded

-----------------------------------------------------------------------------
(* pkg.c. *)

DbPath(w) == DbDir \o Parsed[w].comps

IsInstalled(t, w) == Walk(t, Root, DbPath(w)) # Null

\* The files of a package with its record.
Paths(p) == ToSet(Repo[p]) \cup {DbPath(p)}

\* Their names are plain, none is what is left of a longer one, and no package
\* has a file where another has a file or a directory.
ASSUME RepoAssumption ==
    /\ \A p \in DOMAIN Repo : \A path \in Paths(p) : \A i \in DOMAIN path :
          path[i] \notin {".", ".."} /\ \A w \in Words : Stored[w] = path[i] => w = path[i]
    /\ \A p, q \in DOMAIN Repo : p # q =>
          \A a \in Paths(p), b \in Paths(q) : \E i \in DOMAIN a \cap DOMAIN b : a[i] # b[i]

\* do_install: a package of the repository that has no record yet; what
\* fs_put returns is not looked at.
Install(w) ==
    /\ Counted
    /\ tree' = IF w \in DOMAIN Repo /\ ~IsInstalled(tree, w)
               THEN FoldLeft(LAMBDA t, path : FsPut(t, path, Contents).tree, tree,
                             Append(Repo[w], DbPath(w)))
               ELSE tree
    /\ UNCHANGED <<cwd, lost>>

\* Mutant of RemovePath: the directory goes with the file.
RemoveWithDirectory(t, path) ==
    LET n == Walk(t, Root, path) IN IF n \in {Null, Root} THEN t ELSE FsRemove(t, t[n].parent)

RemovePath(t, path) ==
    LET n == Walk(t, Root, path) IN IF n = Null THEN t ELSE FsRemove(t, n)

\* do_remove takes any word that leads somewhere from DB_DIR.
Uninstall(w) ==
    /\ Counted
    /\ tree' = IF IsInstalled(tree, w)
               THEN FoldLeft(RemovePath, tree,
                             Append(IF w \in DOMAIN Repo THEN Repo[w] ELSE <<>>, DbPath(w)))
               ELSE tree
    /\ Stranded

-----------------------------------------------------------------------------
Next ==
    \/ CdHome
    \/ \E w \in Typed.cd : Cd(w)
    \/ \E w \in Typed.mkdir : Make(w, "dir")
    \/ \E w \in Typed.touch : Make(w, "file")
    \/ \E w \in Typed.write, x \in Texts : Write(w, x)
    \/ \E w \in Typed.rm : Rm(w)
    \/ \E w \in Typed.install : Install(w)
    \/ \E w \in Typed.remove : Uninstall(w)

Spec == Init /\ [][Next]_vars

-----------------------------------------------------------------------------
(* Properties.                                                               *)

TypeOK ==
    /\ \A n \in Live(tree) :
        /\ tree[n].type \in {"dir", "file"}
        /\ tree[n].children \in Seq(Slots)
        /\ tree[n].text \in Texts \cup {NoText}
        /\ tree[n].text # NoText => Size[tree[n].text] < tree[n].cap
    /\ cwd \in Slots
    /\ ~lost => tree[cwd] # Free /\ tree[cwd].type = "dir"

\* However commands follow each other, child lists and parent pointers agree,
\* nothing points to a freed node, only directories have children, and no node
\* is leaked: what is allocated hangs below the root.
TreeIsSound ==
    /\ tree[Root] # Free /\ tree[Root].parent = Null
    /\ \A d \in Live(tree) : \A i \in DOMAIN tree[d].children :
        LET n == tree[d].children[i]
        IN /\ tree[d].type = "dir" /\ n \in Live(tree) /\ tree[n].parent = d
           /\ \A j \in DOMAIN tree[d].children : tree[d].children[j] = n => j = i
    /\ Live(tree) = Subtree(tree, Root)

\* Two entries of a directory have the same name only if it is what is left of
\* a name that was too long.
NamesTellApart ==
    \A m, n \in Live(tree) :
        m # n /\ tree[m].parent = tree[n].parent /\ tree[m].name = tree[n].name
            => \E w \in Words : Stored[w] # w /\ Stored[w] = tree[n].name

\* Names the path walker takes as they are.
Plain(w) == w \in Words /\ Parsed[w] = [abs |-> FALSE, comps |-> <<w>>] /\ w \notin {".", ".."}

\* The characters of a path: each name has a slash before it.
TextLength(names) == FoldLeft(LAMBDA k, w : k + 1 + Length[w], 0, names)

\* The path that the prompt and pwd show leads back to the node, as long as it
\* is not deeper than fs_abspath goes, fits in the buffer and has names that
\* are plain and unambiguous.
PathRoundTrip ==
    LET Alone(m) == ~\E k \in Live(tree) \ {m} :
                        tree[k].parent = tree[m].parent /\ tree[k].name = tree[m].name
        Above(n) == Upwards(tree, n)
    IN \A n \in Live(tree) :
        /\ \A m \in ToSet(Above(n)) : Plain(tree[m].name) /\ Alone(m)
        /\ n = Root \/ tree[Last(Above(n))].parent = Root
        /\ TextLength(Names(tree, n)) < BufSize
        => Walk(tree, Root, AbsPath(tree, n)) = n

\* What m1pkg install and remove touch: a package that is removed leaves
\* neither a record nor a file that can be found, and the other packages keep
\* theirs.
Reachable(path) == Walk(tree, Root, path) # Null

RemoveUndoesInstall ==
    [][\A p \in DOMAIN Repo : Uninstall(p) /\ IsInstalled(tree, p) =>
        /\ ~IsInstalled(tree, p)'
        /\ \A i \in DOMAIN Repo[p] : ~Reachable(Repo[p][i])'
        /\ \A q \in DOMAIN Repo \ {p} : \A path \in Paths(q) :
            Reachable(path) => Reachable(path)']_vars

\* pkg.c:2: "Installing" a package materializes its files into the ramfs and
\* records it.  What the code does: it records the package whatever became of
\* its files.
InstallMaterializes ==
    [][\A p \in DOMAIN Repo : Install(p) /\ ~IsInstalled(tree, p) /\ IsInstalled(tree, p)' =>
        \A i \in DOMAIN Repo[p] :
            LET n == Walk(tree, Root, Repo[p][i])
            IN (n # Null /\ tree[n].type = "file" /\ tree[n].text = Contents)']_vars
=============================================================================
