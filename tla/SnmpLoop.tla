------------------------------ MODULE SnmpLoop ------------------------------
(***************************************************************************)
(* The agent's event loop (agent/snmp.cpp, agent/main.cpp): the net-snmp   *)
(* library, which expects to be called around select(), driven by sd-event.*)
(* A Post source runs sdevent_snmp_update after every dispatched event; it *)
(* asks the library for its file descriptors and its next timeout and      *)
(* changes the event sources to match.                                     *)
(*                                                                         *)
(* Sources are kept by descriptor number.  The kernel drops what epoll     *)
(* watches when a descriptor is closed, so a source may be left that       *)
(* watches nothing: it is called stale.                                    *)
(***************************************************************************)
EXTENDS Naturals

CONSTANTS
    FdLimit,    \* descriptors are below it (FD_SETSIZE)
    Faults      \* see FaultKinds

FaultKinds == {
    "reuse",    \* the library closes a session and opens another one, and
                \* the new one gets the number of the old
    "zero"}     \* the library answers zero for a timeout that has passed

ASSUME LoopAssumption == FdLimit \in Nat /\ Faults \subseteq FaultKinds

Fds == 0 .. FdLimit - 1

VARIABLES
    open,       \* the descriptors of the library's sessions
    ready,      \* those with data to read
    alarm,      \* the next alarm or request timeout of the library: "none",
                \* "later" or "due"
    source,     \* snmp_fds: the source of a descriptor, "none", "live" or
                \* "stale"
    timer,      \* snmpTimer: "off", "armed" or "elapsed"
    pc          \* "start", "init" (the tables), "first" (the loop waits for
                \* the first event), "post" (an event was dispatched) or
                \* "loop" (the loop waits)

library == <<open, ready, alarm>>
vars == <<open, ready, alarm, source, timer, pc>>

Init ==
    /\ open \in SUBSET Fds
    /\ ready = {}
    /\ alarm \in {"none", "later"}
    /\ source = [fd \in Fds |-> "none"]
    /\ timer = "off"
    /\ pc = "start"

-----------------------------------------------------------------------------
(* The world outside.                                                      *)

\* The SNMP daemon sends something, or closes the connection.
Arrive ==
    /\ pc # "start"
    /\ \E fd \in open \ ready : ready' = ready \union {fd}
    /\ UNCHANGED <<open, alarm, source, timer, pc>>

\* Time passes for the library and for the timer.  The timer may be set for
\* an alarm that has been changed since: it elapses all the same.
AlarmFallsDue ==
    /\ alarm = "later"
    /\ alarm' = "due"
    /\ UNCHANGED <<open, ready, source, timer, pc>>

TimerElapses ==
    /\ timer = "armed"
    /\ timer' = "elapsed"
    /\ UNCHANGED <<library, source, pc>>

-----------------------------------------------------------------------------
(* The library (external): what a call of it may do to its sessions and    *)
(* alarms.  The parameters are what is left to read and the alarms it may  *)
(* have afterwards.                                                        *)
LibraryCall(unread, alarms) ==
    \E closed \in SUBSET open :
    \E opened \in SUBSET (Fds \ (open \ closed)) :
        /\ "reuse" \in Faults \/ \A fd \in opened : source[fd] = "none"
        /\ open' = (open \ closed) \union opened
        /\ ready' = unread \ closed
        /\ alarm' \in alarms
        /\ source' = [fd \in Fds |-> IF fd \in closed /\ source[fd] = "live"
                                     THEN "stale" ELSE source[fd]]

-----------------------------------------------------------------------------
(* sdevent_snmp_update.                                                    *)

\* snmp_select_info: the numbers below maxfd are looked at.
Bounds == {n \in 0 .. FdLimit : \A fd \in open : fd < n}

\* Seeded fault: the highest descriptor is not looked at.
addedBelow(fd, maxfd) == fd + 1 < maxfd /\ fd \in open /\ source[fd] = "none"

\* The second loop adds what has no source yet.
added(fd, maxfd) == fd < maxfd /\ fd \in open /\ source[fd] = "none"

\* Seeded fault: the source is switched off but not erased.
removedKept(fd, maxfd) == FALSE

\* The first loop removes what is not asked for any more.
removed(fd, maxfd) == source[fd] # "none" /\ (fd >= maxfd \/ fd \notin open)

\* Seeded fault: the timer is set for what is due, not for what is to come.
timersDue(created) ==
    IF alarm = "due" THEN {created, "armed"} ELSE {created}

\* The timer after the update, when it was created before: without an alarm
\* the library leaves the timeout as it was, that is uninitialised, and the
\* timer may be set for any time; for a timeout of zero it is left alone.
timers(created) ==
    (IF alarm # "none" THEN {"armed"} ELSE {created, "armed"})
        \union (IF alarm = "due" /\ "zero" \in Faults THEN {created} ELSE {})

\* Seeded fault: only the sources below maxfd are carried over.
sdevent_snmp_updateBelow ==
    /\ timer' \in timers(IF pc = "start" THEN "elapsed" ELSE timer)
    /\ \E maxfd \in Bounds :
          source' = [fd \in 0 .. maxfd - 1 |->
                        IF added(fd, maxfd) THEN "live"
                        ELSE IF removed(fd, maxfd) THEN "none" ELSE source[fd]]
    /\ UNCHANGED library

\* The static timer is created by the first call, to elapse at once.  The call
\* of netsnmp_check_outstanding_agent_requests finds nothing to do: no handler
\* of the agent delegates a request.
sdevent_snmp_update ==
    /\ timer' \in timers(IF pc = "start" THEN "elapsed" ELSE timer)
    /\ \E maxfd \in Bounds :
          source' = [fd \in Fds |->
                        IF added(fd, maxfd) THEN "live"
                        ELSE IF removed(fd, maxfd) THEN "none" ELSE source[fd]]
    /\ UNCHANGED library

-----------------------------------------------------------------------------
(* The thread.                                                             *)

snmpagent_init ==
    /\ pc = "start"
    /\ pc' = "init"
    /\ sdevent_snmp_update

\* The init functions register the MIB objects with the daemon; no event, so
\* no update follows before the loop waits for the first time.
InitTables ==
    /\ pc = "init"
    /\ pc' = "first"
    /\ LibraryCall(ready, {alarm, "none", "later"})
    /\ UNCHANGED timer

Dispatch == pc \in {"first", "loop"} /\ pc' = "post"

\* Data on a descriptor that a live source watches.
sdevent_snmp_read(fd) ==
    /\ Dispatch
    /\ fd \in ready
    /\ source[fd] = "live"
    /\ LibraryCall(ready \ {fd}, {alarm, "none", "later"})
    /\ UNCHANGED timer

\* Seeded fault: the timer's callback runs no alarms.
snmpTimerNoAlarms ==
    /\ Dispatch
    /\ timer = "elapsed"
    /\ timer' = "off"
    /\ LibraryCall(ready, {alarm})

\* The timer's callback: snmp_timeout and run_alarms leave nothing due.
snmpTimer ==
    /\ Dispatch
    /\ timer = "elapsed"
    /\ timer' = "off"
    /\ LibraryCall(ready, {"none", "later"})

\* A D-Bus message or its timeout; the handler may send traps.
DBusEvent ==
    /\ Dispatch
    /\ LibraryCall(ready, {alarm, "none", "later"})
    /\ UNCHANGED timer

Post ==
    /\ pc = "post"
    /\ pc' = "loop"
    /\ sdevent_snmp_update

Read == \E fd \in Fds : sdevent_snmp_read(fd)
Next ==
    \/ Arrive \/ AlarmFallsDue \/ TimerElapses
    \/ snmpagent_init \/ InitTables
    \/ Read \/ snmpTimer \/ DBusEvent \/ Post
Spec == Init /\ [][Next]_vars

\* The thread goes on and time passes.  sd-event dispatches the sources of a
\* priority in the order in which they became pending, and a descriptor stays
\* pending until it is dispatched: strong fairness for reading.  The timer is
\* set again by every update and loses its place in that order: it is sure to
\* be dispatched only when nothing else is, which is weak fairness.
FairSpec ==
    /\ Spec
    /\ WF_vars(snmpagent_init) /\ WF_vars(InitTables) /\ WF_vars(Post)
    /\ WF_vars(TimerElapses)
    /\ WF_vars(snmpTimer)
    /\ \A fd \in Fds : SF_vars(sdevent_snmp_read(fd))

-----------------------------------------------------------------------------
(* Properties.                                                             *)

\* Every variable has its type.
TypeOK ==
    /\ open \subseteq Fds
    /\ ready \subseteq open
    /\ alarm \in {"none", "later", "due"}
    /\ source \in [Fds -> {"none", "live", "stale"}]
    /\ timer \in {"off", "armed", "elapsed"}
    /\ pc \in {"start", "init", "first", "post", "loop"}

\* Why: a live source watches a session, and a stale one's number is free until
\* the next update.
Watched == \A fd \in Fds :
    /\ source[fd] = "live" => fd \in open
    /\ source[fd] = "stale" => fd \notin open

\* Whenever the loop waits it watches exactly the descriptors of the library,
\* or waits for the first time and the timer will have them looked at again.
Attached ==
    /\ pc = "loop" => \A fd \in Fds :
          source[fd] = IF fd \in open THEN "live" ELSE "none"
    /\ pc = "first" => timer # "off"

\* The loop never waits for an alarm still to come that no timer will wake it
\* for: nor for one that was set after the last update, by the tables before
\* the first event, where the timer was created to elapse at once.  An alarm
\* that falls due before the update has none if the library answers zero.
AlarmIsTimed ==
    pc \in {"first", "loop"} /\ alarm = "later" => timer # "off"

\* What the daemon sends is read, unless the session is closed, even when the
\* tables' registration had changed the sessions behind the loop's back.
DataIsRead == \A fd \in Fds : (fd \in ready) ~> (fd \notin ready)

\* No alarm stays due forever, unless other events come without end, each of
\* which sets the timer again, or the library answered zero for it and the
\* timer was off and stays off: only another event runs such an alarm, and that
\* is what the code does.
AlarmIsRun ==
    <>[](alarm = "due") =>
        []<><<DBusEvent \/ Read>>_vars \/ <>[](timer = "off")

\* What the comment on snmp_fds says of it: the "list of snmp file descriptors
\* attached to sd_event loop".
ListIsAttached ==
    pc = "loop" => \A fd \in open : source[fd] # "none" => source[fd] = "live"

=============================================================================
