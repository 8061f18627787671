------------------------------ MODULE SensorMib ------------------------------
(***************************************************************************)
(* What a sensors table promises a manager, who knows a sensor by GETs of  *)
(* its row and by traps and by nothing else: whatever goes on between the  *)
(* agent and the services, a row changes together with the trap that tells *)
(* so, and no trap is sent that the table does not bear out.  Only the end *)
(* of the agent takes rows away in silence.                                *)
(***************************************************************************)
CONSTANTS
    Sensors,    \* the names of the table
    Mute,       \* those that send no traps
    States      \* what a row may show

VARIABLES
    view,       \* what a GET returns: the state of the row, or "absent"
    told        \* the last trap about each sensor, "none" before

Init ==
    /\ view = [p \in Sensors |-> "absent"]
    /\ told = [p \in Sensors |-> "none"]

(* The trap of a change to v: Sensor::onCreate, setFields and onDestroy.   *)
Announced(p, v) ==
    IF p \in Mute THEN told[p]
    ELSE IF v = "absent" THEN "disabled" ELSE v

Change ==
    /\ view' \in [Sensors -> States \union {"absent"}]
    /\ told' = [p \in Sensors |->
                    IF view'[p] = view[p] THEN told[p] ELSE Announced(p, view'[p])]

Restart ==
    /\ view' = [p \in Sensors |-> "absent"]
    /\ UNCHANGED told

Next == Change \/ Restart
Spec == Init /\ [][Next]_<<view, told>>

=============================================================================
