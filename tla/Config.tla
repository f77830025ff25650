------------------------------- MODULE Config -------------------------------
(***************************************************************************)
(* The key table of kernel/core/config.c and its text file, as operators.  *)
(* Entries are never given back, so the used slots are a sequence.  Keys   *)
(* are words; a value is a sequence of words.  A file is the sequence of   *)
(* the settings on its lines, and <<>> stands for no file.  Values longer  *)
(* than VALLEN are left out.                                               *)
(***************************************************************************)
EXTENDS Integers, SequencesExt

CONSTANTS
    CFG_MAX,
    Keys,       \* bound: what is typed or written as a key
    Words,      \* what values are made of
    CutKey,     \* key -> key, what the table keeps of it
    Comments,   \* keys that begin with #
    Halves      \* key with an = in it -> <<what is before it, what is after>>

ASSUME ConfigAssumption ==
    /\ CFG_MAX \in Nat \ {0}
    /\ CutKey \in [Keys -> Keys]
    /\ "=" \in Words
    /\ Comments \subseteq Keys
    /\ DOMAIN Halves \subseteq Keys
    /\ \A k \in DOMAIN Halves :
          /\ Halves[k] \in Keys \X Words
          /\ CutKey[k] = k => CutKey[Halves[k][1]] = Halves[k][1]

\* What an entry of the table or a line of the file holds.
Entry == [key : Keys, val : Seq(Words)]

Setting(k, v) == [key |-> k, val |-> v]

\* The slot of a key, or 0; the key is compared in full.
Find(t, k) == SelectInSeq(t, LAMBDA e : e.key = k)

ConfigGet(t, k, def) == IF Find(t, k) = 0 THEN def ELSE t[Find(t, k)].val

\* Mutant of ConfigSet: every setting takes a new entry.
ConfigSetAppend(t, k, v) ==
    IF Len(t) = CFG_MAX THEN t ELSE Append(t, Setting(CutKey[k], v))

\* config_set; a full table keeps what it has.
ConfigSet(t, k, v) ==
    IF Find(t, k) # 0 THEN [t EXCEPT ![Find(t, k)].val = v]
    ELSE IF Len(t) = CFG_MAX THEN t
    ELSE Append(t, Setting(CutKey[k], v))

\* One line of the file: a comment, or split at the first =.
ParseLine(t, line) ==
    IF line.key \in Comments THEN t
    ELSE IF line.key \in DOMAIN Halves
    THEN ConfigSet(t, Halves[line.key][1], <<Halves[line.key][2], "=">> \o line.val)
    ELSE ConfigSet(t, line.key, line.val)

Parse(t, file) == FoldLeft(ParseLine, t, file)

\* Mutant of Lines: the last entry is missed.
LinesButOne(t) == IF t = <<>> THEN t ELSE Front(t)

\* What config_save writes: every entry on a line.
Lines(t) == t

SetDefault(t, s) == IF Find(t, s.key) # 0 THEN t ELSE ConfigSet(t, s.key, s.val)

WithDefaults(t, defaults) == FoldLeft(SetDefault, t, defaults)
=============================================================================
