------------------------------ MODULE HostPower ------------------------------
(***************************************************************************)
(* The host power state: data::Scalar (agent/data/scalar.hpp) and          *)
(* yadro::host::power::state (agent/yadro/powerstate.cpp), between the     *)
(* service that owns the D-Bus object and the SNMP manager.                *)
(*                                                                         *)
(* Unlike a table row the scalar adds its match in the constructor of a    *)
(* static object, before any call: no change is lost.  But the reply of    *)
(* the initial Get overtakes the signals that already wait.                *)
(***************************************************************************)
EXTENDS Integers, Sequences

CONSTANTS
    OtherStates,    \* host states that are neither Running nor Off
    Faults,         \* see FaultKinds
    MaxQueue,       \* bound: signals waiting in the connection's queue
    MaxVersion      \* bound: changes of the host state

FaultKinds == {
    "silent",       \* the service starts without announcing the host state
    "call",         \* a call to the mapper or to the running service fails
    "restart"}      \* the agent stops and is started again

ASSUME PowerAssumption ==
    /\ {"Running", "Off", "", "other"} \cap OtherStates = {}
    /\ Faults \subseteq FaultKinds
    /\ MaxQueue \in Nat
    /\ MaxVersion \in Nat

HostStates == {"Running", "Off"} \union OtherStates
Unset == ""         \* initValue of the scalar
Other == "other"    \* a signal that carries other properties only

UNKNOWN == -1
OFF == 0
ON == 1
NoTrap == -2

VARIABLES
    up,         \* the service is running
    host,       \* the host state it publishes
    version,    \* history: number of that state
    queue,      \* PropertiesChanged signals not dispatched yet
    phase,      \* of the agent: "start", "asked", "replied" or "loop"
    found,      \* the service name GetObject returned is not empty
    reply,      \* the reply of Get, [val, ver]
    value,      \* _value
    valver,     \* history: number of the state in value, 0 if none
    told,       \* value in the last trap, NoTrap before the first
    heard,      \* history: the latest state was announced, or read by Get
                \* with nothing older behind it
    backlog     \* history: signals in the queue that are older than the reply

service == <<up, host, version>>
vars == <<up, host, version, queue, phase, found, reply, value, valver, told,
          heard, backlog>>

Signal(val, ver) == [val |-> val, ver |-> ver]

Init ==
    /\ up \in BOOLEAN
    /\ host \in HostStates
    /\ version = 1
    /\ queue = <<>>
    /\ phase = "start"
    /\ found = FALSE
    /\ reply = Signal(Unset, 0)
    /\ value = Unset
    /\ valver = 0
    /\ told = NoTrap
    /\ heard = FALSE
    /\ backlog = 0

-----------------------------------------------------------------------------
(* The service.                                                            *)

\* It publishes a new state and announces it.
Publish(s) ==
    /\ version < MaxVersion
    /\ host' = s
    /\ version' = version + 1

HostChange ==
    /\ up
    /\ Len(queue) < MaxQueue
    /\ \E s \in HostStates \ {host} : Publish(s)
    /\ queue' = Append(queue, Signal(host', version'))
    /\ heard' = TRUE
    /\ UNCHANGED <<up, phase, found, reply, value, valver, told, backlog>>

\* Another property of the interface changes (RequestedHostTransition).
OtherChange ==
    /\ up
    /\ Len(queue) < MaxQueue
    /\ queue' = Append(queue, Signal(Other, version))
    /\ UNCHANGED <<service, phase, found, reply, value, valver, told,
                   heard, backlog>>

ServiceStop ==
    /\ up
    /\ up' = FALSE
    /\ UNCHANGED <<host, version, queue, phase, found, reply, value, valver,
                   told, heard, backlog>>

ServiceStart ==
    /\ ~up
    /\ up' = TRUE
    /\ \E s \in HostStates : Publish(s)
    /\ \/ /\ Len(queue) < MaxQueue
          /\ queue' = Append(queue, Signal(host', version'))
          /\ heard' = TRUE
       \/ /\ "silent" \in Faults
          /\ heard' = FALSE
          /\ UNCHANGED queue
    /\ UNCHANGED <<phase, found, reply, value, valver, told, backlog>>

-----------------------------------------------------------------------------
(* The agent.                                                              *)

(* State::toSNMPValue. *)
toSNMPValue(v) == IF v = "Running" THEN ON ELSE IF v = "Off" THEN OFF ELSE UNKNOWN

(* What a GET returns. *)
State_snmp_handler == toSNMPValue(value)

\* Seeded fault: a trap only for the states the MIB has a name for.
setValueNamedOnly(m) ==
    /\ value' = m.val
    /\ valver' = m.ver
    /\ told' = IF m.val # value /\ toSNMPValue(m.val) # UNKNOWN
               THEN toSNMPValue(m.val) ELSE told

(* State::setValue: the new value, and a trap if the string changed. *)
setValue(m) ==
    /\ value' = m.val
    /\ valver' = m.ver
    /\ told' = IF m.val # value THEN toSNMPValue(m.val) ELSE told

(* Scalar::update, first call: getService asks the mapper; a call that fails *)
(* or times out reads as no service.                                         *)
GetObject ==
    /\ phase = "start"
    /\ phase' = "asked"
    /\ found' \in {up} \union (IF "call" \in Faults THEN {FALSE} ELSE {})
    /\ UNCHANGED <<service, queue, reply, value, valver, told, heard, backlog>>

\* Second call: the service answers Get, or the call throws and update ends:
\* there is no service, it answers with an error, or not in time.
Get ==
    /\ phase = "asked"
    /\ \/ /\ found /\ up
          /\ phase' = "replied"
          /\ reply' = Signal(host, version)
          /\ heard' = (heard \/ \A n \in DOMAIN queue : queue[n].val = Other)
          /\ backlog' = Len(queue)
       \/ /\ ~(found /\ up) \/ "call" \in Faults
          /\ phase' = "loop"
          /\ UNCHANGED <<reply, heard, backlog>>
    /\ UNCHANGED <<service, queue, found, value, valver, told>>

Store ==
    /\ phase = "replied"
    /\ phase' = "loop"
    /\ setValue(reply)
    /\ UNCHANGED <<service, queue, found, reply, heard, backlog>>

\* Seeded fault: an asynchronous Get, signals are handled while it runs.
onPropertyChangedEarly ==
    /\ phase # "start"
    /\ queue # <<>>
    /\ queue' = Tail(queue)
    /\ backlog' = IF backlog > 0 THEN backlog - 1 ELSE 0
    /\ IF Head(queue).val # Other THEN setValue(Head(queue))
                                  ELSE UNCHANGED <<value, valver, told>>
    /\ UNCHANGED <<service, phase, found, reply, heard>>

\* Seeded fault: the signal is taken to carry the property.
onPropertyChangedAny ==
    /\ phase = "loop"
    /\ queue # <<>>
    /\ queue' = Tail(queue)
    /\ backlog' = IF backlog > 0 THEN backlog - 1 ELSE 0
    /\ setValue(Head(queue))
    /\ UNCHANGED <<service, phase, found, reply, heard>>

(* Scalar::onPropertyChanged: signals without the property change nothing. *)
onPropertyChanged ==
    /\ phase = "loop"
    /\ queue # <<>>
    /\ queue' = Tail(queue)
    /\ backlog' = IF backlog > 0 THEN backlog - 1 ELSE 0
    /\ IF Head(queue).val # Other THEN setValue(Head(queue))
                                  ELSE UNCHANGED <<value, valver, told>>
    /\ UNCHANGED <<service, phase, found, reply, heard>>

\* The process ends and systemd starts it again.
Restart ==
    /\ "restart" \in Faults
    /\ queue' = <<>>
    /\ phase' = "start"
    /\ found' = FALSE
    /\ reply' = Signal(Unset, 0)
    /\ value' = Unset
    /\ valver' = 0
    /\ heard' = FALSE
    /\ backlog' = 0
    /\ UNCHANGED <<service, told>>

Service == HostChange \/ OtherChange \/ ServiceStop \/ ServiceStart
Agent == GetObject \/ Get \/ Store \/ onPropertyChanged

Next == Service \/ Agent \/ Restart
Spec == Init /\ [][Next]_vars

\* The agent's thread takes its next step; nothing is assumed of the service.
FairSpec == Spec /\ WF_vars(Agent)

-----------------------------------------------------------------------------
(* Properties.                                                             *)

\* Every variable has its type.
Signals == [val : HostStates \union {Other}, ver : Nat]
TypeOK ==
    /\ up \in BOOLEAN
    /\ host \in HostStates
    /\ version \in Nat \ {0}
    /\ queue \in Seq(Signals)
    /\ phase \in {"start", "asked", "replied", "loop"}
    /\ found \in BOOLEAN
    /\ reply \in [val : HostStates \union {Unset}, ver : Nat]
    /\ phase = "replied" => reply.val # Unset
    /\ value \in HostStates \union {Unset}
    /\ valver \in Nat
    /\ told \in {NoTrap, UNKNOWN, OFF, ON}
    /\ heard \in BOOLEAN
    /\ backlog \in Nat

\* Once the agent knows a host state, the last trap and the value a GET
\* returns are the same: no host state is reached without its trap, and none
\* is announced that a GET would deny.
TrapIsValue == value # Unset => told = State_snmp_handler

\* At rest, with the service up, the agent shows the state of the host, unless
\* nothing told it: the last state was published without a word by a service
\* that came up, or was there before the agent, whose initial Get failed or
\* found signals still waiting.  Nothing asks again until the host changes.
Quiet == phase = "loop" /\ queue = <<>>
ShowsHost == Quiet /\ up /\ heard => value = host

\* Signals overtaken by the reply may take the value back in time, and their
\* traps tell the manager of states long past.  They are the only ones: when
\* the backlog of the initial Get is gone the agent only moves forward.
MovesForward ==
    [][(backlog = 0 /\ value' # value /\ value' # Unset)
            => valver' > valver]_vars

\* All of it together, step by step: a manager sees what HostMib promises.
Mib == INSTANCE HostMib WITH
    Shown <- toSNMPValue,
    late <- IF phase = "loop" THEN backlog ELSE 0
MibSpec == Mib!Spec

\* Why: the states in the queue are in the order of the host's, and those
\* behind the backlog are newer than what the agent has.
Carries(n) == n \in DOMAIN queue /\ queue[n].val # Other
Ordered ==
    /\ valver <= version /\ reply.ver <= version
    /\ \A n \in DOMAIN queue : queue[n].ver <= version
    /\ \A n \in DOMAIN queue : Carries(n) => queue[n].ver > 0
    /\ \A m, n \in DOMAIN queue :
          m < n /\ Carries(m) /\ Carries(n) => queue[m].ver < queue[n].ver
    /\ phase \in {"start", "asked"} => valver = 0 /\ backlog = 0
    /\ phase = "replied" => valver = 0 /\ reply.ver > 0
    /\ phase = "replied" => \A n \in DOMAIN queue :
          n > backlog /\ Carries(n) => queue[n].ver > reply.ver
    /\ phase = "loop" => \A n \in DOMAIN queue :
          n > backlog /\ Carries(n) => queue[n].ver > valver

\* And the state that will be stored last is the host's.
LastCarrier(n) == Carries(n) /\ \A k \in DOMAIN queue : k > n => ~Carries(k)
Latest == up /\ heard =>
    /\ \A n \in DOMAIN queue : LastCarrier(n) => queue[n].val = host
    /\ (\A n \in DOMAIN queue : ~Carries(n)) =>
          /\ phase \in {"replied", "loop"}
          /\ phase = "loop" => value = host
          /\ phase = "replied" => reply.val = host

\* If the host stays in a state that the agent could hear of, a GET and the last
\* trap come to agree with it for good.  A restart forgets what was heard: the
\* premise has an end of restarts in it, and of silent starts of the service.
ManagerLearns == \A s \in HostStates :
    <>[](up /\ host = s /\ heard)
        => <>[](value = s /\ told = State_snmp_handler)

=============================================================================
