---------------------------- MODULE InventoryMib ----------------------------
(***************************************************************************)
(* What the inventory promises a manager, who knows an item by GETs and by *)
(* traps that may be lost.  While the agent lives every change of what a   *)
(* GET tells of an item is reported, in the same step, with what a GET then*)
(* tells, and nothing else is; the report arrives if the session is up.    *)
(* Only the end of the agent changes what a GET tells without a report: it *)
(* then tells nothing of any item.                                         *)
(***************************************************************************)
CONSTANTS
    Items,      \* the items that have object identifiers
    Reply,      \* what a GET may tell of one
    Nothing     \* of an item that is not there

VARIABLES
    view,       \* what a GET tells of each item
    told,       \* what the last report that arrived said
    lost,       \* why that may be wrong: "nothing", "trap" or "end"
    session     \* reports arrive

Init ==
    /\ view = [p \in Items |-> Nothing]
    /\ told = [p \in Items |-> Nothing]
    /\ lost = [p \in Items |-> "nothing"]
    /\ session = TRUE

Session ==
    /\ session' = ~session
    /\ UNCHANGED <<view, told, lost>>

Change(p) ==
    /\ view'[p] \in Reply \ {view[p]}
    /\ view' = [view EXCEPT ![p] = view'[p]]
    /\ \/ /\ session
          /\ told' = [told EXCEPT ![p] = view'[p]]
          /\ lost' = [lost EXCEPT ![p] = "nothing"]
       \/ /\ ~session
          /\ lost' = [lost EXCEPT ![p] = "trap"]
          /\ UNCHANGED told
    /\ UNCHANGED session

End ==
    /\ view' = [p \in Items |-> Nothing]
    /\ lost' = [p \in Items |->
                  IF view[p] # Nothing /\ lost[p] = "nothing" THEN "end" ELSE lost[p]]
    /\ UNCHANGED <<told, session>>

Next == Session \/ (\E p \in Items : Change(p)) \/ End
Spec == Init /\ [][Next]_<<view, told, lost, session>>

=============================================================================
