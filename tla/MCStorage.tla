----------------------------- MODULE MCStorage -----------------------------
(***************************************************************************)
(* Storage for TLC.  The boot directories are cut to /db, the packages'    *)
(* database; "p" and "q" are packages, "longer" is a name that is cut to   *)
(* "long", "bin/p" a path that is also tried as a name, and the last four  *)
(* words are what a full buffer leaves of a name.                          *)
(***************************************************************************)
EXTENDS Storage

MCWords == {"p", "q", "longer", "long", "bin", "db", "bin/p", "..", "/db",
            "lon", "lo", "bi", "bin/"}

MCTyped == [cd |-> {"bin", "long", "..", "/db"}, mkdir |-> {"bin", "longer", "bin/p"},
            touch |-> {"bin", "longer"}, write |-> {"p", "bin/p"},
            rm |-> {"bin", "p", "long", "..", "/db"},
            install |-> {"p", "q"}, remove |-> {"p", ".."}]

Rel(comps) == [abs |-> FALSE, comps |-> comps]

MCParsed == [w \in MCWords |->
    CASE w = "bin/p" -> Rel(<<"bin", "p">>)
      [] w = "bin/" -> Rel(<<"bin">>)
      [] w = "/db" -> [abs |-> TRUE, comps |-> <<"db">>]
      [] OTHER -> Rel(<<w>>)]

MCStored == [w \in MCWords |-> IF w = "longer" THEN "long" ELSE w]

MCLength == [w \in MCWords |->
    CASE w \in {"p", "q"} -> 1
      [] w \in {"db", "..", "lo", "bi"} -> 2
      [] w \in {"bin", "/db", "lon"} -> 3
      [] w \in {"long", "bin/"} -> 4
      [] w = "bin/p" -> 5
      [] w = "longer" -> 6]

\* With two names below 10 characters no less than two of one are kept.
MCBeginning == [p \in MCWords \X (1..10) |->
    CASE p = <<"long", 3>> -> "lon"
      [] p = <<"long", 2>> -> "lo"
      [] p = <<"bin/p", 4>> -> "bin/"
      [] p = <<"bin/p", 3>> -> "bin"
      [] p \in {<<"bin/p", 2>>, <<"bin", 2>>} -> "bi"
      [] OTHER -> p[1]]

MCSize == [short |-> 1, long |-> 2]

MCSeeds == << <<"db">> >>
MCHome == <<>>
MCDbDir == <<"db">>
MCRepo == [p |-> << <<"bin", "p">> >>, q |-> << <<"q">> >>]
=============================================================================
