----------------------------- MODULE TableItems -----------------------------
(***************************************************************************)
(* The rows of a data::Table as they are kept (agent/data/table.hpp): a    *)
(* vector of items in the order of their names, searched by                *)
(* std::lower_bound; and a manager that walks the table with GETNEXT,      *)
(* which the net-snmp table iterator answers by visiting every item,       *)
(* while signals insert and erase items between its requests.              *)
(*                                                                         *)
(* A name is its place in the order of std::string.  The order of the walk *)
(* is another one: an index object identifier begins with the length of    *)
(* the name.                                                               *)
(***************************************************************************)
EXTENDS Naturals, Sequences, SequencesExt

CONSTANTS
    Names,      \* names of objects, relative to the folder
    Index,      \* their places in the order of the index identifiers
    Columns     \* the columns registered by init_mib

ASSUME ItemsAssumption ==
    /\ Names \subseteq Nat
    /\ Index \in [Names -> Nat \ {0}]
    /\ \A m, n \in Names : Index[m] = Index[n] => m = n
    /\ Columns \in Nat \ {0}

VARIABLES
    items,      \* _items, by name
    called,     \* history: the last call of getItem or dropItem
    walking,    \* a manager is walking through the table
    at,         \* the instance it was given last
    seen,       \* history: the instances it was given in this walk
    stays       \* history: the rows that were there all through the walk

walk == <<walking, at, seen, stays>>
vars == <<items, called, walk>>

Init ==
    /\ items = <<>>
    /\ called = [op |-> "none"]
    /\ walking = FALSE
    /\ at = [column |-> 1, index |-> 0]
    /\ seen = {}
    /\ stays = {}

-----------------------------------------------------------------------------
(* The vector.                                                             *)

\* std::lower_bound: the items are partitioned by the comparison with the
\* name, and the iterator it is the point of the partition.
lower_bound(it, name) ==
    /\ \A i \in 1 .. it - 1 : items[i] < name
    /\ \A i \in it .. Len(items) : ~(items[i] < name)

Iterators == 1 .. Len(items) + 1
Found(it, name) == it <= Len(items) /\ items[it] = name

Called(op, name, hook) == called' = [op |-> op, name |-> name, hook |-> hook]

\* Seeded fault: a new item goes to the end of the vector.
getItemAtEnd(name) ==
    /\ \E it \in Iterators :
          /\ lower_bound(it, name)
          /\ IF Found(it, name)
             THEN UNCHANGED items /\ Called("getItem", name, FALSE)
             ELSE items' = Append(items, name) /\ Called("getItem", name, TRUE)
    /\ UNCHANGED walk

\* Seeded fault: the item at the lower bound is taken to be the one.
getItemUnchecked(name) ==
    /\ \E it \in Iterators :
          /\ lower_bound(it, name)
          /\ IF it <= Len(items)
             THEN UNCHANGED items /\ Called("getItem", name, FALSE)
             ELSE items' = InsertAt(items, it, name) /\ Called("getItem", name, TRUE)
    /\ UNCHANGED walk

getItem(name) ==
    /\ \E it \in Iterators :
          /\ lower_bound(it, name)
          /\ IF Found(it, name)
             THEN UNCHANGED items /\ Called("getItem", name, FALSE)
             ELSE items' = InsertAt(items, it, name) /\ Called("getItem", name, TRUE)
    /\ UNCHANGED walk

dropItem(name) ==
    /\ \E it \in Iterators :
          /\ lower_bound(it, name)
          /\ IF Found(it, name)
             THEN items' = RemoveAt(items, it) /\ Called("dropItem", name, TRUE)
             ELSE UNCHANGED items /\ Called("dropItem", name, FALSE)
    /\ stays' = stays \ {name}
    /\ UNCHANGED <<walking, at, seen>>

-----------------------------------------------------------------------------
(* The walk.  A request is answered by the agent's only thread: no item    *)
(* comes or goes while the iterator visits them.                           *)

\* get_first_data_point, then get_next_data_point until it returns null.
data_points == {items[i] : i \in 1 .. Len(items)}

\* Seeded fault: the iterator is told that the data points are sorted, and
\* stops at the first one that will do.
chosenFirst(points) == {n \in points : \A m \in points : n <= m}

\* What the iterator keeps of the points that will do: init_mib sets no flag,
\* so it compares them all.
chosen(points) == {n \in points : \A m \in points : Index[n] <= Index[m]}

StartWalk ==
    /\ ~walking
    /\ walking' = TRUE
    /\ at' = [column |-> 1, index |-> 0]
    /\ seen' = {}
    /\ stays' = data_points
    /\ UNCHANGED <<items, called>>

\* The instances of the column that are left, and the instance given.
Left == {n \in data_points : Index[n] > at.index}
Give(column, n) ==
    /\ at' = [column |-> column, index |-> Index[n]]
    /\ seen' = seen \union {<<column, n>>}
    /\ UNCHANGED <<items, called, walking, stays>>

SameColumn ==
    /\ walking
    /\ \E n \in chosen(Left) : Give(at.column, n)

\* Seeded fault: one column more than the table has is registered.
NextColumnTooFar ==
    /\ walking
    /\ Left = {}
    /\ at.column <= Columns
    /\ \E n \in chosen(data_points) : Give(at.column + 1, n)

NextColumn ==
    /\ walking
    /\ Left = {}
    /\ at.column < Columns
    /\ \E n \in chosen(data_points) : Give(at.column + 1, n)

EndOfTable ==
    /\ walking
    /\ Left = {}
    /\ at.column = Columns \/ data_points = {}
    /\ walking' = FALSE
    /\ UNCHANGED <<items, called, at, seen, stays>>

Change == \E name \in Names : getItem(name) \/ dropItem(name)
GetNext == SameColumn \/ NextColumn \/ EndOfTable
Next == Change \/ StartWalk \/ GetNext
Spec == Init /\ [][Next]_vars

-----------------------------------------------------------------------------
(* Properties.                                                             *)

\* Every variable has its type.
TypeOK ==
    /\ items \in Seq(Names)
    /\ walking \in BOOLEAN
    /\ at \in [column : 1 .. Columns, index : Nat]
    /\ seen \subseteq (1 .. Columns) \X Names
    /\ stays \subseteq Names

\* What lower_bound relies on: the items are in the order of their names, and
\* no name has two of them.
Sorted == \A i, j \in 1 .. Len(items) : i < j => items[i] < items[j]

\* The vector does what a set of rows would: a call makes or erases exactly
\* the row it names, and runs the row's hook exactly then.
Rows == INSTANCE TableRows WITH rows <- data_points
RowsSpec == Rows!Spec

\* A walk gives every instance of every row that stays in the table while it
\* goes on, in each column, whatever rows come and go around it, although the
\* walk's order is not the vector's.
WalkComplete ==
    ~walking => \A n \in stays : \A c \in 1 .. Columns : <<c, n>> \in seen

\* Why: what the walk has passed of the rows that stay, it has given.
Passed(c, n) == c < at.column \/ (c = at.column /\ Index[n] <= at.index)
WalkInv ==
    /\ stays \subseteq data_points
    /\ walking => \A n \in stays : \A c \in 1 .. Columns :
                     Passed(c, n) => <<c, n>> \in seen

=============================================================================
