--------------------------- MODULE SnmpLoop_proofs ---------------------------
(***************************************************************************)
(* Proofs about the event loop, for any limit of descriptors.              *)
(***************************************************************************)
EXTENDS SnmpLoop, TLAPS

\* What a call of the library keeps, whatever it does to its sessions.
LEMMA LibraryCallType ==
    ASSUME TypeOK, NEW unread \in SUBSET open, NEW alarms,
           alarms \subseteq {"none", "later", "due"}, LibraryCall(unread, alarms)
    PROVE  /\ open' \subseteq Fds
           /\ ready' \subseteq open'
           /\ alarm' \in alarms
           /\ alarm' \in {"none", "later", "due"}
           /\ source' \in [Fds -> {"none", "live", "stale"}]
<1>1. PICK closed \in SUBSET open, opened \in SUBSET Fds :
        /\ open' = (open \ closed) \union opened
        /\ ready' = unread \ closed
        /\ alarm' \in alarms
        /\ source' = [fd \in Fds |-> IF fd \in closed /\ source[fd] = "live"
                                     THEN "stale" ELSE source[fd]]
  BY DEF LibraryCall
<1> QED
  BY <1>1 DEF TypeOK

LEMMA UpdateType ==
    ASSUME TypeOK, sdevent_snmp_update
    PROVE  /\ open' \subseteq Fds /\ ready' \subseteq open'
           /\ alarm' \in {"none", "later", "due"}
           /\ source' \in [Fds -> {"none", "live", "stale"}]
           /\ timer' \in {"off", "armed", "elapsed"}
<1>1. PICK maxfd \in Bounds :
        source' = [fd \in Fds |->
                      IF added(fd, maxfd) THEN "live"
                      ELSE IF removed(fd, maxfd) THEN "none" ELSE source[fd]]
  BY DEF sdevent_snmp_update
<1>2. source' \in [Fds -> {"none", "live", "stale"}]
  BY <1>1 DEF TypeOK
<1> QED
  BY <1>2 DEF sdevent_snmp_update, library, timers, TypeOK

LEMMA TypeInit == Init => TypeOK
  BY DEF Init, TypeOK

LEMMA TypeNext == TypeOK /\ [Next]_vars => TypeOK'
<1> SUFFICES ASSUME TypeOK, [Next]_vars PROVE TypeOK'
  OBVIOUS
<1>1. CASE Arrive \/ AlarmFallsDue \/ TimerElapses \/ UNCHANGED vars
  BY <1>1 DEF Arrive, AlarmFallsDue, TimerElapses, library, vars, TypeOK
<1>2. CASE snmpagent_init \/ Post
  BY <1>2, UpdateType DEF snmpagent_init, Post, TypeOK
<1>3. ASSUME NEW unread \in SUBSET open, NEW alarms,
             alarms \subseteq {"none", "later", "due"},
             LibraryCall(unread, alarms), timer' \in {timer, "off"},
             pc' \in {"first", "post"}
      PROVE  TypeOK'
  BY <1>3, LibraryCallType DEF TypeOK
<1>4. CASE InitTables
  <2>1. {alarm, "none", "later"} \subseteq {"none", "later", "due"}
    BY DEF TypeOK
  <2> QED
    BY <1>3, <1>4, <2>1 DEF InitTables, TypeOK
<1>5. CASE Read
  <2>1. PICK fd \in Fds : sdevent_snmp_read(fd)
    BY <1>5 DEF Read
  <2>2. {alarm, "none", "later"} \subseteq {"none", "later", "due"}
    BY DEF TypeOK
  <2>3. ready \ {fd} \in SUBSET open
    BY DEF TypeOK
  <2> QED
    BY <1>3, <2>1, <2>2, <2>3 DEF sdevent_snmp_read, Dispatch
<1>6. CASE snmpTimer
  BY <1>3, <1>6 DEF snmpTimer, Dispatch, TypeOK
<1>7. CASE DBusEvent
  <2>1. {alarm, "none", "later"} \subseteq {"none", "later", "due"}
    BY DEF TypeOK
  <2> QED
    BY <1>3, <1>7, <2>1 DEF DBusEvent, Dispatch, TypeOK
<1> QED
  BY <1>1, <1>2, <1>4, <1>5, <1>6, <1>7 DEF Next

\* Every variable keeps its type; data waits on open descriptors only.
THEOREM TypeCorrect == Spec => []TypeOK
  BY TypeInit, TypeNext, PTL DEF Spec

-----------------------------------------------------------------------------
(* Sources and descriptors.                                                *)

LEMMA LibraryCallWatched ==
    ASSUME TypeOK, Watched, "reuse" \notin Faults,
           NEW unread, NEW alarms, LibraryCall(unread, alarms)
    PROVE  Watched'
<1>0. PICK closed \in SUBSET open :
        \E opened \in SUBSET (Fds \ (open \ closed)) :
           /\ \A fd \in opened : source[fd] = "none"
           /\ open' = (open \ closed) \union opened
           /\ source' = [fd \in Fds |-> IF fd \in closed /\ source[fd] = "live"
                                        THEN "stale" ELSE source[fd]]
  BY DEF LibraryCall
<1>1. PICK opened \in SUBSET (Fds \ (open \ closed)) :
        /\ \A fd \in opened : source[fd] = "none"
        /\ open' = (open \ closed) \union opened
        /\ source' = [fd \in Fds |-> IF fd \in closed /\ source[fd] = "live"
                                     THEN "stale" ELSE source[fd]]
  BY <1>0
<1> SUFFICES ASSUME NEW fd \in Fds
             PROVE  /\ source'[fd] = "live" => fd \in open'
                    /\ source'[fd] = "stale" => fd \notin open'
  BY DEF Watched
<1>2. CASE fd \in closed
  BY <1>1, <1>2 DEF Watched, TypeOK
<1>3. CASE fd \notin closed
  BY <1>1, <1>3 DEF Watched, TypeOK
<1> QED
  BY <1>2, <1>3

\* An update makes the sources match the descriptors, whatever bound the
\* library returns for them.
LEMMA UpdateMatches ==
    ASSUME TypeOK, Watched, sdevent_snmp_update
    PROVE  \A fd \in Fds : source'[fd] = IF fd \in open' THEN "live" ELSE "none"
<1>1. PICK maxfd \in Bounds :
        source' = [fd \in Fds |->
                      IF added(fd, maxfd) THEN "live"
                      ELSE IF removed(fd, maxfd) THEN "none" ELSE source[fd]]
  BY DEF sdevent_snmp_update
<1>2. open' = open
  BY DEF sdevent_snmp_update, library
<1> SUFFICES ASSUME NEW fd \in Fds
             PROVE  source'[fd] = IF fd \in open THEN "live" ELSE "none"
  BY <1>2
<1>3. source[fd] \in {"none", "live", "stale"}
  BY DEF TypeOK
<1>4. CASE fd \in open
  <2>1. fd < maxfd /\ maxfd \in Nat /\ fd \in Nat
    BY <1>4, LoopAssumption DEF Bounds, Fds
  <2>2. source[fd] \in {"none", "live"}
    BY <1>3, <1>4 DEF Watched
  <2>3. ~removed(fd, maxfd)
    BY <1>4, <2>1 DEF removed
  <2>4. source[fd] = "none" => added(fd, maxfd)
    BY <1>4, <2>1 DEF added
  <2> QED
    BY <1>1, <1>4, <2>2, <2>3, <2>4
<1>5. CASE fd \notin open
  <2>1. ~added(fd, maxfd)
    BY <1>5 DEF added
  <2>2. source[fd] # "none" => removed(fd, maxfd)
    BY <1>5 DEF removed
  <2> QED
    BY <1>1, <1>5, <2>1, <2>2
<1> QED
  BY <1>4, <1>5

Attachment ==
    /\ TypeOK /\ Watched /\ Attached
    /\ pc = "init" => timer # "off"

LEMMA AttachmentNext ==
    ASSUME "reuse" \notin Faults, Attachment, [Next]_vars
    PROVE  Attachment'
<1>1. TypeOK'
  BY TypeNext DEF Attachment
<1>2. CASE Arrive \/ AlarmFallsDue \/ TimerElapses \/ UNCHANGED vars
  <2>1. /\ UNCHANGED <<open, source, pc>>
        /\ timer' = timer \/ timer' = "elapsed"
    BY <1>2 DEF Arrive, AlarmFallsDue, TimerElapses, library, vars
  <2> QED
    BY <1>1, <2>1 DEF Attachment, Watched, Attached
<1>3. CASE snmpagent_init \/ Post
  <2>1. \A fd \in Fds : source'[fd] = IF fd \in open' THEN "live" ELSE "none"
    BY <1>3, UpdateMatches DEF Attachment, snmpagent_init, Post
  <2>2. pc' = "init" => timer' # "off"
    BY <1>3 DEF snmpagent_init, Post, sdevent_snmp_update, timers
  <2>3. pc' \in {"init", "loop"}
    BY <1>3 DEF snmpagent_init, Post
  <2> QED
    BY <1>1, <2>1, <2>2, <2>3 DEF Attachment, Watched, Attached
<1>4. CASE InitTables
  <2>1. Watched'
    BY <1>4, LibraryCallWatched DEF InitTables, Attachment
  <2> QED
    BY <1>1, <1>4, <2>1 DEF InitTables, Attachment, Attached
<1>5. CASE Read \/ snmpTimer \/ DBusEvent
  <2>1. Watched' /\ pc' = "post"
    BY <1>5, LibraryCallWatched
       DEF Read, sdevent_snmp_read, snmpTimer, DBusEvent, Dispatch, Attachment
  <2> QED
    BY <1>1, <2>1 DEF Attachment, Attached
<1> QED
  BY <1>2, <1>3, <1>4, <1>5 DEF Next

\* The loop never waits with a session it does not watch or a source that
\* watches nothing, as long as a descriptor's number is not used again between
\* two updates; before the first event the timer is sure to wake it.
THEOREM AlwaysAttached ==
    ASSUME "reuse" \notin Faults
    PROVE  Spec => []Attached
<1>1. Init => Attachment
  BY TypeInit DEF Init, Attachment, Watched, Attached
<1>2. Attachment /\ [Next]_vars => Attachment'
  BY AttachmentNext
<1>3. Attachment => Attached
  BY DEF Attachment
<1> QED
  BY <1>1, <1>2, <1>3, PTL DEF Spec

-----------------------------------------------------------------------------
(* Alarms and the timer.                                                   *)

\* From the first update on the timer is set whenever the loop waits with an
\* alarm to come, and before the first event in any case.
TimerInv ==
    /\ pc = "loop" /\ alarm = "later" => timer # "off"
    /\ pc \in {"init", "first"} => timer # "off"

\* The loop never waits for an alarm still to come that no timer will wake it
\* for, whatever the library answers and whenever the alarm was set.
THEOREM AlwaysTimed == Spec => []AlarmIsTimed
<1>1. Init => TimerInv
  BY DEF Init, TimerInv
<1>2. TimerInv /\ [Next]_vars => TimerInv'
  <2> SUFFICES ASSUME TimerInv, [Next]_vars PROVE TimerInv'
    OBVIOUS
  <2>1. CASE Arrive \/ AlarmFallsDue \/ TimerElapses \/ UNCHANGED vars
    BY <2>1 DEF Arrive, AlarmFallsDue, TimerElapses, library, vars, TimerInv
  <2>2. CASE snmpagent_init \/ Post
    BY <2>2 DEF snmpagent_init, Post, sdevent_snmp_update, timers, library,
                TimerInv
  <2>3. CASE InitTables
    BY <2>3 DEF InitTables, TimerInv
  <2>4. CASE Read \/ snmpTimer \/ DBusEvent
    BY <2>4 DEF Read, sdevent_snmp_read, snmpTimer, DBusEvent, Dispatch, TimerInv
  <2> QED
    BY <2>1, <2>2, <2>3, <2>4 DEF Next
<1>3. TimerInv => AlarmIsTimed
  BY DEF TimerInv, AlarmIsTimed
<1> QED
  BY <1>1, <1>2, <1>3, PTL DEF Spec

=============================================================================
