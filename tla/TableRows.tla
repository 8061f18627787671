------------------------------ MODULE TableRows ------------------------------
(***************************************************************************)
(* What data::Table promises the signal handlers about its rows: getItem   *)
(* and dropItem work on a set of names, and the row's hooks, onCreate and  *)
(* onDestroy, run exactly when a row comes to exist and ceases to.         *)
(***************************************************************************)
CONSTANT Names

VARIABLES
    rows,       \* the names that have a row
    called      \* the last call: its name, its argument, and whether it ran
                \* the row's hook

Init ==
    /\ rows = {}
    /\ called = [op |-> "none"]

getItem(name) ==
    /\ rows' = rows \union {name}
    /\ called' = [op |-> "getItem", name |-> name, hook |-> name \notin rows]

dropItem(name) ==
    /\ rows' = rows \ {name}
    /\ called' = [op |-> "dropItem", name |-> name, hook |-> name \in rows]

Next == \E name \in Names : getItem(name) \/ dropItem(name)
Spec == Init /\ [][Next]_<<rows, called>>

=============================================================================
