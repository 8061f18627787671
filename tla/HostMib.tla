------------------------------- MODULE HostMib -------------------------------
(***************************************************************************)
(* What the host power state promises a manager: a GET tells a state the   *)
(* host is or was in, the last trap tells the same, and what they tell     *)
(* moves forward through the host's states.  Only after it has asked for   *)
(* the state may the agent go back, once for each signal that it had not   *)
(* looked at when it asked.  A new agent knows nothing, and says so by     *)
(* GETs only.                                                              *)
(***************************************************************************)
EXTENDS Naturals

CONSTANTS
    HostStates,     \* the states of the host
    Unset,          \* what the agent has before it knows one
    Shown(_),       \* what is told of a state
    NoTrap

VARIABLES
    host, version,  \* the state of the host and its number
    value, valver,  \* the state the agent knows and its number
    told,           \* what the last trap told
    late            \* signals that may be older than what is known

vars == <<host, version, value, valver, told, late>>

Init ==
    /\ host \in HostStates /\ version = 1
    /\ value = Unset /\ valver = 0
    /\ told = NoTrap
    /\ late = 0

Publish ==
    /\ host' \in HostStates /\ version' = version + 1
    /\ UNCHANGED <<value, valver, told, late>>

\* The agent comes to know the state that was the host's number n.
Know(n) ==
    /\ value' \in HostStates /\ valver' = n
    /\ n = version => value' = host
    /\ told' = Shown(value')
    /\ UNCHANGED <<host, version>>

\* The first one it knows, by asking or by a signal.
First ==
    /\ value = Unset
    /\ \E n \in 1 .. version : Know(n)
    /\ late' \in Nat

\* A signal: nothing else may take a known state back.
Signal ==
    /\ value # Unset
    /\ \E n \in 1 .. version : Know(n) /\ (late = 0 => n > valver)
    /\ late' = IF late > 0 THEN late - 1 ELSE 0

\* A signal without the state.
Skip ==
    /\ late > 0 /\ late' = late - 1
    /\ UNCHANGED <<host, version, value, valver, told>>

Forget ==
    /\ value' = Unset /\ valver' = 0 /\ late' = 0
    /\ UNCHANGED <<host, version, told>>

Next == Publish \/ First \/ Signal \/ Skip \/ Forget
Spec == Init /\ [][Next]_vars

=============================================================================
