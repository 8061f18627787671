----------------------------- MODULE SensorTable -----------------------------
(***************************************************************************)
(* A sensors table of the agent (data::Table<yadro::sensors::Sensor>) as a *)
(* cache of the D-Bus objects below one folder.  The table is filled once  *)
(* by Table::update, with one synchronous call after another, and is then  *)
(* kept up to date by signals only.                                        *)
(*                                                                         *)
(* Three facts of the code give the interleavings:                         *)
(*   - sd-bus returns the reply of a synchronous call ahead of the signals *)
(*     that wait in the connection's queue, so a row may be filled from a  *)
(*     reply newer than a signal handled after it;                         *)
(*   - the match for PropertiesChanged belongs to the row and is added by  *)
(*     the row's constructor: the bus routes no change of an object to the *)
(*     agent before that;                                                  *)
(*   - the agent is one thread: a handler runs to its end.                 *)
(*                                                                         *)
(* The objects are the environment.  An action of theirs is the change and *)
(* its signal, which the bus queues in the order of emission.              *)
(***************************************************************************)
EXTENDS Sensor, Naturals, Sequences

CONSTANTS
    Paths,      \* the objects that may exist in the folder
    Ifaces,     \* the interfaces they implement, owned by the table or not
    Fields,     \* the properties their services publish
    Mute,       \* paths whose name gives no trap OID: make_oid fails
    Faults,     \* what may go wrong, see FaultKinds
    MaxInbox    \* bound: signals waiting in the connection's queue

FaultKinds == {
    "partial",  \* an object loses some of its interfaces and keeps others
    "mapper",   \* GetSubTree fails, or the mapper answers with stale data
    "getall",   \* GetAll fails though the object exists
    "restart"}  \* the agent stops and is started again

ASSUME TableAssumption ==
    /\ Fields \subseteq ItemFields
    /\ Mute \subseteq Paths
    /\ Faults \subseteq FaultKinds
    /\ MaxInbox \in Nat

VARIABLES
    has,        \* the interfaces each object implements now
    val,        \* the values of its properties now
    inbox,      \* signals routed to the agent and not yet dispatched
    phase,      \* "start", "update" (in Table::update) or "loop"
    todo,       \* update: objects of the GetSubTree answer still to visit
    reply,      \* update: the GetAll reply that is not stored yet, if any
    rows,       \* paths that have a row in _items
    item,       \* the data of the rows
    told,       \* the state in the last trap about each path, "none" before
    unheard     \* history: properties whose latest value was not announced
                \* to the row, see Unheard below

objects == <<has, val>>
vars == <<has, val, inbox, phase, todo, reply, rows, item, told, unheard>>

-----------------------------------------------------------------------------
(* D-Bus messages and what the objects publish.                            *)

FieldsOf(I) == (UNION {IfaceFields(i) : i \in I}) \cap Fields
Present(p) == has[p] \cap OwnedIfaces # {}
Published(F) == {m \in [F -> UNION {Payload(f) : f \in F}] :
                    \A f \in F : m[f] \in Payload(f)}
Overlay(old, new) ==
    [f \in DOMAIN old |-> IF f \in DOMAIN new THEN new[f] ELSE old[f]]
Only(fields, F) == [f \in DOMAIN fields \cap F |-> fields[f]]

InterfacesAdded(p, I, fields) ==
    [type |-> "Added", path |-> p, ifaces |-> I, fields |-> fields]
InterfacesRemoved(p, I) ==
    [type |-> "Removed", path |-> p, ifaces |-> I, fields |-> NoFields]
PropertiesChanged(p, fields) ==
    [type |-> "Changed", path |-> p, ifaces |-> {}, fields |-> fields]

Owned(m) == m.ifaces \cap OwnedIfaces # {}
Queued(p) == \E n \in DOMAIN inbox : inbox[n].path = p

\* The row of p will take the next change of the object: it has its match,
\* and no signal that destroys the row waits in front.
Listens(p) ==
    /\ p \in rows
    /\ ~ \E n \in DOMAIN inbox :
            inbox[n].type = "Removed" /\ inbox[n].path = p /\ Owned(inbox[n])

-----------------------------------------------------------------------------
Init ==
    /\ has \in [Paths -> SUBSET Ifaces]
    /\ val \in [Paths -> Published(Fields)]
    /\ \A p \in Paths : \A f \in Fields \ FieldsOf(has[p]) : val[p][f] = NewItem[f]
    /\ inbox = <<>>
    /\ phase = "start"
    /\ todo = {}
    /\ reply = {}
    /\ rows = {}
    /\ item = [p \in Paths |-> NewItem]
    /\ told = [p \in Paths |-> "none"]
    /\ unheard = [p \in Paths |-> FieldsOf(has[p])]

-----------------------------------------------------------------------------
(* The objects.                                                            *)

\* Seeded fault: the table asks for InterfacesAdded only once update is done.
AddInterfacesLateMatch(p) ==
    /\ Len(inbox) < MaxInbox
    /\ \E I \in (SUBSET (Ifaces \ has[p])) \ {{}} :
       \E fields \in Published(FieldsOf(I)) :
          /\ has' = [has EXCEPT ![p] = @ \union I]
          /\ val' = [val EXCEPT ![p] = Overlay(@, fields)]
          /\ inbox' = IF phase = "loop"
                      THEN Append(inbox, InterfacesAdded(p, I, fields)) ELSE inbox
          /\ unheard' = [unheard EXCEPT ![p] = @ \ FieldsOf(I)]
    /\ UNCHANGED <<phase, todo, reply, rows, item, told>>

\* An object appears, or gains interfaces: InterfacesAdded names the new
\* interfaces and carries their properties.  Its match is registered by the
\* constructor of the table, which is a static object.
AddInterfaces(p) ==
    /\ Len(inbox) < MaxInbox
    /\ \E I \in (SUBSET (Ifaces \ has[p])) \ {{}} :
       \E fields \in Published(FieldsOf(I)) :
          /\ has' = [has EXCEPT ![p] = @ \union I]
          /\ val' = [val EXCEPT ![p] = Overlay(@, fields)]
          /\ inbox' = Append(inbox, InterfacesAdded(p, I, fields))
          /\ unheard' = [unheard EXCEPT ![p] = @ \ FieldsOf(I)]
    /\ UNCHANGED <<phase, todo, reply, rows, item, told>>

\* A property changes.  The bus routes the signal to the agent only while a
\* row holds the match for the path.
ChangeProperty(p) ==
    /\ Len(inbox) < MaxInbox
    /\ \E f \in FieldsOf(has[p]) : \E x \in Payload(f) \ {val[p][f]} :
          /\ val' = [val EXCEPT ![p][f] = x]
          /\ inbox' = IF p \in rows
                      THEN Append(inbox, PropertiesChanged(p, [g \in {f} |-> x]))
                      ELSE inbox
          /\ unheard' = [unheard EXCEPT
                ![p] = IF Listens(p) THEN @ \ {f} ELSE @ \union {f}]
    /\ UNCHANGED <<has, phase, todo, reply, rows, item, told>>

\* Seeded fault: the same for InterfacesRemoved.
RemoveInterfacesLateMatch(p) ==
    /\ Len(inbox) < MaxInbox
    /\ \E I \in (SUBSET has[p]) \ {{}} :
          /\ I = has[p] \/ "partial" \in Faults
          /\ has' = [has EXCEPT ![p] = @ \ I]
          /\ val' = [val EXCEPT ![p] =
                        Overlay(@, [f \in FieldsOf(I) |-> NewItem[f]])]
          /\ inbox' = IF phase = "loop"
                      THEN Append(inbox, InterfacesRemoved(p, I)) ELSE inbox
          /\ unheard' = [unheard EXCEPT
                ![p] = IF I \cap OwnedIfaces # {} THEN FieldsOf(has[p] \ I)
                                                  ELSE @ \ FieldsOf(I)]
    /\ UNCHANGED <<phase, todo, reply, rows, item, told>>

\* The object goes away, or (fault "partial") loses some interfaces.  The
\* table drops the whole row for any interface it owns, so what the object
\* still publishes has no row to be heard by.
RemoveInterfaces(p) ==
    /\ Len(inbox) < MaxInbox
    /\ \E I \in (SUBSET has[p]) \ {{}} :
          /\ I = has[p] \/ "partial" \in Faults
          /\ has' = [has EXCEPT ![p] = @ \ I]
          /\ val' = [val EXCEPT ![p] =
                        Overlay(@, [f \in FieldsOf(I) |-> NewItem[f]])]
          /\ inbox' = Append(inbox, InterfacesRemoved(p, I))
          /\ unheard' = [unheard EXCEPT
                ![p] = IF I \cap OwnedIfaces # {} THEN FieldsOf(has[p] \ I)
                                                  ELSE @ \ FieldsOf(I)]
    /\ UNCHANGED <<phase, todo, reply, rows, item, told>>

-----------------------------------------------------------------------------
(* The row: creation, destruction, new values, and the traps they send.    *)

(* Sensor::send_notify: no trap without OIDs. *)
send_notify(p, last, state) == IF p \in Mute THEN last ELSE state

\* Seeded fault: a new row is not announced before it has an alarm.
getItemQuiet(p) ==
    IF p \in rows THEN [item |-> item[p], told |-> told[p]]
    ELSE [item |-> NewItem, told |-> told[p]]

(* Table::getItem with Sensor::onCreate: the row of p, made if need be.    *)
getItem(p) ==
    IF p \in rows THEN [item |-> item[p], told |-> told[p]]
    ELSE [item |-> NewItem, told |-> send_notify(p, told[p], "normal")]

\* Seeded fault: no trap when the sensor returns to normal.
setFieldsOfNoRecovery(p, row, fields) ==
    LET new == setFields(row.item, fields) IN
    [item |-> new,
     told |-> IF getState(new) \notin {getState(row.item), "normal"}
              THEN send_notify(p, row.told, getState(new)) ELSE row.told]

(* Sensor::setFields: a trap when the state of the row changes. *)
setFieldsOf(p, row, fields) ==
    LET new == setFields(row.item, fields) IN
    [item |-> new,
     told |-> IF getState(new) # getState(row.item)
              THEN send_notify(p, row.told, getState(new)) ELSE row.told]

Keep(p, row) ==
    /\ rows' = rows \union {p}
    /\ item' = [item EXCEPT ![p] = row.item]
    /\ told' = [told EXCEPT ![p] = row.told]

\* Seeded fault: the item is erased before onDestroy could send the trap.
dropItemSilently(gone) ==
    /\ rows' = rows \ gone
    /\ item' = [p \in Paths |-> IF p \in gone THEN NewItem ELSE item[p]]
    /\ UNCHANGED told

(* Table::dropItem with Sensor::onDestroy, for the rows of gone. *)
dropItem(gone) ==
    /\ rows' = rows \ gone
    /\ item' = [p \in Paths |-> IF p \in gone THEN NewItem ELSE item[p]]
    /\ told' = [p \in Paths |-> IF p \in gone \cap rows
                                THEN send_notify(p, told[p], "disabled")
                                ELSE told[p]]

-----------------------------------------------------------------------------
(* Table::update, which runs once, before the event loop.                  *)

\* The mapper's answer: the objects that implement an owned interface.  A
\* failed call reads as an empty answer (helper::callMethodAndRead).
GetSubTree ==
    /\ phase = "start"
    /\ \E found \in SUBSET Paths :
          /\ found = {p \in Paths : Present(p)} \/ "mapper" \in Faults
          /\ todo' = found
          /\ dropItem(rows \ found)
    /\ phase' = "update"
    /\ UNCHANGED <<has, val, inbox, reply, unheard>>

\* The service answers GetAll for every interface of the object.  A failed
\* call, of an object that is gone for one, reads as an empty map.
GetAll(p) ==
    /\ phase = "update"
    /\ reply = {}
    /\ p \in todo
    /\ todo' = todo \ {p}
    /\ \/ /\ has[p] # {}
          /\ reply' = {[path |-> p, fields |-> Only(val[p], FieldsOf(has[p]))]}
          /\ unheard' = [unheard EXCEPT ![p] = IF Queued(p) THEN @ ELSE {}]
       \/ /\ has[p] = {} \/ "getall" \in Faults
          /\ reply' = {[path |-> p, fields |-> NoFields]}
          /\ UNCHANGED unheard
    /\ UNCHANGED <<has, val, inbox, phase, rows, item, told>>

\* getItem(path).setFields(fields): the row's match is added here, after the
\* reply was made.
Store ==
    /\ \E r \in reply : Keep(r.path, setFieldsOf(r.path, getItem(r.path), r.fields))
    /\ reply' = {}
    /\ UNCHANGED <<has, val, inbox, phase, todo, unheard>>

RunLoop ==
    /\ phase = "update"
    /\ todo = {} /\ reply = {}
    /\ phase' = "loop"
    /\ UNCHANGED <<has, val, inbox, todo, reply, rows, item, told, unheard>>

-----------------------------------------------------------------------------
(* The event loop: one queued signal per step.                             *)

Dispatch(type) ==
    /\ phase = "loop"
    /\ inbox # <<>>
    /\ Head(inbox).type = type
    /\ UNCHANGED <<has, val, phase, todo, reply, unheard>>

\* Seeded fault: an existing row is taken to be complete.
onInterfacesAddedOnce ==
    /\ Dispatch("Added")
    /\ LET m == Head(inbox)
           p == m.path
           Of(i) == Only(m.fields, IfaceFields(i))
       IN  IF Owned(m) /\ p \notin rows
           THEN Keep(p, setFieldsOf(p, setFieldsOf(p, setFieldsOf(p, getItem(p),
                           Of("Critical")), Of("Warning")), Of("Value")))
           ELSE UNCHANGED <<rows, item, told>>
    /\ inbox' = Tail(inbox)

\* The interfaces come in a std::map: Critical, Warning, Value by name.
onInterfacesAdded ==
    /\ Dispatch("Added")
    /\ LET m == Head(inbox)
           p == m.path
           Of(i) == Only(m.fields, IfaceFields(i))
       IN  IF Owned(m)
           THEN Keep(p, setFieldsOf(p, setFieldsOf(p, setFieldsOf(p, getItem(p),
                           Of("Critical")), Of("Warning")), Of("Value")))
           ELSE UNCHANGED <<rows, item, told>>
    /\ inbox' = Tail(inbox)

\* A change that was routed for the row that is dropped may find the match
\* of a row created later, or be dropped when sd-bus does not run matches
\* newer than a message: both are allowed.
onInterfacesRemoved ==
    /\ Dispatch("Removed")
    /\ LET m == Head(inbox) IN
       IF Owned(m) /\ m.path \in rows
       THEN /\ dropItem({m.path})
            /\ \E orphaned \in BOOLEAN :
                  inbox' = [n \in 1 .. Len(inbox) - 1 |->
                    IF /\ orphaned
                       /\ inbox[n + 1].type = "Changed"
                       /\ inbox[n + 1].path = m.path
                    THEN [inbox[n + 1] EXCEPT !.type = "Unmatched"]
                    ELSE inbox[n + 1]]
       ELSE /\ inbox' = Tail(inbox)
            /\ UNCHANGED <<rows, item, told>>

onPropertiesChanged ==
    /\ Dispatch("Changed")
    /\ LET m == Head(inbox) IN
       IF m.path \in rows
       THEN Keep(m.path, setFieldsOf(m.path, getItem(m.path), m.fields))
       ELSE UNCHANGED <<rows, item, told>>
    /\ inbox' = Tail(inbox)

\* A message that no match of the connection takes.
Discard ==
    /\ Dispatch("Unmatched")
    /\ inbox' = Tail(inbox)
    /\ UNCHANGED <<rows, item, told>>

-----------------------------------------------------------------------------
\* The process ends and systemd starts it again (Restart=always).  The rows
\* and the queue go with it; no trap is sent, the rows are not dropped by
\* dropItem.
Restart ==
    /\ "restart" \in Faults
    /\ phase' = "start"
    /\ inbox' = <<>>
    /\ todo' = {}
    /\ reply' = {}
    /\ rows' = {}
    /\ item' = [p \in Paths |-> NewItem]
    /\ unheard' = [p \in Paths |-> FieldsOf(has[p])]
    /\ UNCHANGED <<has, val, told>>

Objects == \E p \in Paths :
    AddInterfaces(p) \/ ChangeProperty(p) \/ RemoveInterfaces(p)
Update == GetSubTree \/ (\E p \in Paths : GetAll(p)) \/ Store \/ RunLoop
Loop == onInterfacesAdded \/ onInterfacesRemoved \/ onPropertiesChanged \/ Discard
Agent == Update \/ Loop

Next == Objects \/ Agent \/ Restart
Spec == Init /\ [][Next]_vars

\* The agent's thread is always either in update or in the event loop, and
\* takes its next step.  Nothing is assumed of the objects.
FairSpec == Spec /\ WF_vars(Agent)

-----------------------------------------------------------------------------
(* Properties.                                                             *)

\* Every variable has its type.  At most one reply waits, and only rows that
\* exist hold data.
TypeOK ==
    /\ has \in [Paths -> SUBSET Ifaces]
    /\ val \in [Paths -> Published(Fields)]
    /\ inbox \in Seq([type : {"Added", "Removed", "Changed", "Unmatched"},
                      path : Paths, ifaces : SUBSET Ifaces, fields : FieldsMap])
    /\ phase \in {"start", "update", "loop"}
    /\ todo \subseteq Paths
    /\ reply \in SUBSET [path : Paths, fields : FieldsMap]
    /\ \A r, s \in reply : r = s
    /\ rows \subseteq Paths
    /\ item \in [Paths -> Item]
    /\ \A p \in Paths \ rows : item[p] = NewItem
    /\ told \in [Paths -> States \union {"none"}]
    /\ unheard \in [Paths -> SUBSET Fields]

\* What a manager was last told about a sensor by trap is the state it would
\* read from the row by a GET, at every moment and not only at rest: each way
\* to make or to change a row sends the trap its state needs.
TrapsAgree == \A p \in rows \ Mute : told[p] = getState(item[p])

\* A sensor without a row was never announced, or its disappearance was: as
\* long as the agent is not restarted no manager keeps a state for a sensor
\* that has left the table.
GoneIsNotified == \A p \in Paths \ rows : told[p] \in {"none", "disabled"}

\* Everything the agent was sent has been handled.
Quiet == phase = "loop" /\ inbox = <<>>

\* At rest no row is left of an object that is gone, whatever signals of its
\* life raced with the initial update.
NoPhantomRow == Quiet => \A p \in rows : Present(p)

\* At rest every object with an owned interface has its row.
NoMissingRow == Quiet => \A p \in Paths : Present(p) => p \in rows

\* Why: what the agent believes of an object is decided by the last signal
\* of its life that waits in the queue, or when none waits by the rows and by
\* what is left of the initial update.  (The inductive invariant.)
Life(p, n) ==
    /\ inbox[n].path = p
    /\ inbox[n].type \in {"Added", "Removed"}
    /\ Owned(inbox[n])
LastLife(p, n) == Life(p, n) /\ \A k \in DOMAIN inbox : k > n => ~Life(p, k)
Expected(p) == p \in rows \union todo \union {r.path : r \in reply}
Whole == "partial" \notin Faults
Believed ==
    /\ phase # "update" => todo = {} /\ reply = {}
    /\ \A p \in Paths :
        /\ \A n \in DOMAIN inbox : LastLife(p, n) =>
              /\ inbox[n].type = "Added" => Present(p)
              /\ inbox[n].type = "Removed" /\ Whole => ~Present(p)
        /\ phase # "start" /\ (\A n \in DOMAIN inbox : ~Life(p, n)) =>
              /\ Expected(p) => Present(p)
              /\ Present(p) /\ Whole => Expected(p)

\* The fields a row should show: those of the interfaces the object has, as
\* far as their payload has the type of the field.
Shown(p) == {f \in FieldsOf(has[p]) : val[p][f] \in FieldType(f)}

\* Unheard: a property belongs to unheard[p] when its latest value was set
\* before the agent listened and no GetAll read it since, or while no row of
\* the object could hear of it.  These are the only values a row can miss:
\* at rest every other one is in the row, although replies overtake signals,
\* calls fail, and rows are destroyed and made again.
Accurate ==
    Quiet => \A p \in Paths : \A f \in Shown(p) \ unheard[p] :
                /\ Present(p) => p \in rows
                /\ item[p][f] = val[p][f]

\* So, at rest, the last trap about a sensor that has properties and whose
\* properties were all heard is its real state: no alarm stays raised or
\* unraised in the manager's eyes.
SourceItem(p) == [f \in ItemFields |->
                    IF f \in FieldsOf(has[p]) THEN val[p][f] ELSE NewItem[f]]
AlarmReaches ==
    Quiet => \A p \in Paths \ Mute :
        FieldsOf(has[p]) # {} /\ Shown(p) = FieldsOf(has[p]) /\ unheard[p] = {}
            => told[p] = getState(SourceItem(p))

\* An object that stays gets a row that stays; the row of an object that
\* stays away goes away.  Needs the agent's next steps (FairSpec) and nothing
\* of the other objects, which may keep the queue busy.
RowsFollow == \A p \in Paths :
    /\ <>[]Present(p) => <>[](p \in rows)
    /\ <>[]~Present(p) => <>[](p \notin rows)

\* What a manager sees of the table is what SensorMib promises: every change
\* of a row comes with its trap and every trap with a change of a row, in the
\* same step, although one message may change a row several times, and a reply
\* or a repeated signal may change nothing.
Mib == INSTANCE SensorMib WITH
    Sensors <- Paths,
    view <- [p \in Paths |-> IF p \in rows THEN getState(item[p]) ELSE "absent"]
MibSpec == Mib!Spec

\* What the README says the agent exports: "actual values" of the available
\* sensors.  At rest a row shows the values its object publishes.
ExportsActual ==
    Quiet => \A p \in rows : \A f \in Shown(p) : item[p][f] = val[p][f]

\* What the README's list of states promises: a sensor below its critical
\* threshold (and not above another one) is reported as criticalLow.
CriticalLowShown ==
    \A p \in rows :
        /\ item[p]["CriticalAlarmLow"] = "on"
        /\ "on" \notin {item[p]["WarningAlarmHigh"], item[p]["CriticalAlarmHigh"]}
        => get_snmp_reply(item[p]).state = "criticalLow"

=============================================================================
