------------------------------ MODULE SnmpdConf ------------------------------
(***************************************************************************)
(* The file snmpd.conf as the configuration manager sees it.  A line of it *)
(* is a com2sec line, represented by the name that getCommunityName finds  *)
(* in it, or any other line.  What is written for a name does not always   *)
(* read as that name: a pair of quotes is lost, and a name with newlines   *)
(* in it, which nothing forbids, makes several lines.                      *)
(***************************************************************************)
EXTENDS Naturals, Sequences

CONSTANTS
    Names,      \* community names of a length the setter accepts
    FileNames,  \* names that com2sec lines of a file may have, of any length
    Written,    \* the lines that are read where a name was written
    Torn        \* what may be left in a file of the line with a name, of
                \* another line or of the lines written for a name when there
                \* is no space for all of it

NoName == "no name"     \* the empty string
Other == "other line"
Lines == FileNames \union {NoName, Other}

ASSUME ConfAssumption ==
    /\ {NoName, Other} \cap (Names \union FileNames) = {}
    /\ Written \in [Names -> Seq(Lines) \ {<<>>}]
    /\ Torn \in [Names \union Lines -> SUBSET Seq(Lines)]

NamesOf(file) == {file[n] : n \in DOMAIN file} \ {Other}

\* The name in the first com2sec line, if there is one.
FirstName(file) ==
    {file[n] : n \in {m \in DOMAIN file :
        file[m] # Other /\ \A k \in DOMAIN file : k < m => file[k] = Other}}

\* A name that is written comes back as this one.
Stored(v) == IF v \in Names THEN FirstName(Written[v]) ELSE {}

\* A line of the file when the name v is set.
Keeps(line, v) == line \in {Other, v}
LinesFor(line, v) == IF Keeps(line, v) THEN <<line>> ELSE Written[v]
TornFor(line, v) == Torn[IF Keeps(line, v) THEN line ELSE v]

\* These lines of a file, from the one after start.
Holds(file, start, lines) ==
    /\ start + Len(lines) <= Len(file)
    /\ \A k \in DOMAIN lines : file[start + k] = lines[k]

\* The beginning of new, of length len, is what the first lines of old become
\* when v is set, one after the other: those of line n end at ends[n].
Rewritten(old, count, new, len, v) ==
    \E ends \in [0 .. count -> 0 .. len] :
        /\ ends[0] = 0 /\ ends[count] = len
        /\ \A n \in 1 .. count :
              /\ ends[n] = ends[n - 1] + Len(LinesFor(old[n], v))
              /\ Holds(new, ends[n - 1], LinesFor(old[n], v))

\* The same, but the space ended in one of the first lines of old.
BrokenOff(old, count, new, v) ==
    \E n \in 1 .. count, len \in 0 .. Len(new) :
        /\ Rewritten(old, n - 1, new, len, v)
        /\ \E piece \in TornFor(old[n], v) :
              /\ Len(new) = len + Len(piece)
              /\ Holds(new, len, piece)

=============================================================================
