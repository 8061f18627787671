----------------------------- MODULE AgentTables -----------------------------
(***************************************************************************)
(* The inventory and the software table in one process: main fills the one *)
(* after the other and runs the loop that dispatches the signals of both.  *)
(* An exception in a row of one table is caught nowhere: it ends the       *)
(* process, and systemd starts it again.                                   *)
(*                                                                         *)
(* An object may be published by several services, each with interfaces of *)
(* its own: update asks each of them and stores each answer in the row, so *)
(* that the row and its match exist from the first answer on.              *)
(*                                                                         *)
(* A row of the inventory sends a trap with both of its flags when one of  *)
(* them changes.  It goes to the SNMP daemon through the AgentX session,   *)
(* and nowhere while there is none.                                        *)
(***************************************************************************)
EXTENDS Items, Sequences

CONSTANTS
    Inventory, Software,    \* the objects of the two folders
    Ifaces,     \* the interfaces the objects of each kind may implement
    Fields,     \* the properties that are published
    Services,   \* the services of the bus
    Service,    \* the service that implements an interface
    Mute,       \* items whose name gives no object identifier
    Faults,     \* what may go wrong, see FaultKinds
    MaxInbox    \* bound: signals waiting in the connection's queue

FaultKinds == {
    "session",  \* the AgentX session goes down
    "mapper",   \* GetSubTree fails, or the mapper answers with stale data
    "getall"}   \* GetAll fails though the service has the object

ASSUME TablesAssumption ==
    /\ Inventory \cap Software = {}
    /\ Mute \subseteq Inventory
    /\ \A kind \in Kinds : \A i \in Ifaces[kind] : Service[i] \in Services
    /\ Faults \subseteq FaultKinds
    /\ MaxInbox \in Nat

\* A property is published by one interface of an object: one that the table
\* does not own has none of the names the rows have.
ASSUME NamesAssumption ==
    \A kind \in Kinds : \A i \in Ifaces[kind] \ OwnedIfaces(kind) :
        IfaceFields(i) \cap ItemFields(kind) = {}

VARIABLES
    has,        \* the interfaces each object implements now
    val,        \* the properties it publishes now
    inbox,      \* signals routed to the agent and not yet dispatched
    phase,      \* "down", "software", "inventory" (in init of the table), "loop"
    asked,      \* init: the mapper has answered
    todo,       \* init: objects and services of the answer still to ask
    reply,      \* init: the GetAll reply that is not stored yet, if any
    rows,       \* objects that have a row in their table
    item,       \* the data of the rows
    session,    \* the AgentX session is up
    told,       \* what the last trap that arrived said of each item
    lost,       \* history: why a manager may be wrong about an item, see Lost
    unheard     \* history: properties whose latest value was not announced
                \* to the row

vars == <<has, val, inbox, phase, asked, todo, reply, rows, item, session,
          told, lost, unheard>>

Paths == Inventory \union Software
Kind(p) == IF p \in Inventory THEN "inventory" ELSE "software"
Table(phs) == IF phs = "inventory" THEN Inventory ELSE Software

\* Nothing was lost since the last trap about the item arrived; or a trap was;
\* or none was, but the agent ended while the item had a flag to take back.
Lost == {"nothing", "trap", "end"}

-----------------------------------------------------------------------------
(* D-Bus messages and what the objects publish.                            *)

FieldsOf(I) == (UNION {IfaceFields(i) : i \in I}) \cap Fields
Owned(p, I) == I \cap OwnedIfaces(Kind(p)) # {}
Of(p, s) == {i \in has[p] : Service[i] = s}
Overlay(old, new) ==
    [f \in DOMAIN old \union DOMAIN new |->
        IF f \in DOMAIN new THEN new[f] ELSE old[f]]
Only(fields, F) == [f \in DOMAIN fields \cap F |-> fields[f]]

InterfacesAdded(p, I, fields) ==
    [type |-> "Added", path |-> p, ifaces |-> I, fields |-> fields]
InterfacesRemoved(p, I) ==
    [type |-> "Removed", path |-> p, ifaces |-> I, fields |-> NoFields]
PropertiesChanged(p, fields) ==
    [type |-> "Changed", path |-> p, ifaces |-> {}, fields |-> fields]

Queued(p) == \E n \in DOMAIN inbox : inbox[n].path = p

\* The row of p will take the next change of the object: it has its match,
\* and no signal that destroys the row waits in front.
Listens(p) ==
    /\ p \in rows
    /\ ~ \E n \in DOMAIN inbox :
            inbox[n].type = "Removed" /\ inbox[n].path = p /\ Owned(p, inbox[n].ifaces)

\* The matches of the tables exist as long as the process.
Route(m) == IF phase = "down" THEN inbox ELSE Append(inbox, m)

-----------------------------------------------------------------------------
Init ==
    /\ has \in [Paths -> UNION {SUBSET Ifaces[kind] : kind \in Kinds}]
    /\ \A p \in Paths : has[p] \subseteq Ifaces[Kind(p)]
    /\ val \in [Paths -> UNION {Published(FieldsOf(has[p])) : p \in Paths}]
    /\ \A p \in Paths : val[p] \in Published(FieldsOf(has[p]))
    /\ inbox = <<>>
    /\ phase = "down"
    /\ asked = FALSE
    /\ todo = {}
    /\ reply = {}
    /\ rows = {}
    /\ item = [p \in Paths |-> NewItem(Kind(p))]
    /\ session = TRUE
    /\ told = [p \in Inventory |-> Nothing]
    /\ lost = [p \in Inventory |-> "nothing"]
    /\ unheard = [p \in Paths |-> FieldsOf(has[p])]

agent == <<phase, asked, todo, reply, rows, item, session, told, lost>>

-----------------------------------------------------------------------------
(* The objects.                                                            *)

\* A service publishes the object, or more interfaces of it.
AddInterfaces(p, s) ==
    /\ Len(inbox) < MaxInbox
    /\ \E I \in (SUBSET {i \in Ifaces[Kind(p)] \ has[p] : Service[i] = s}) \ {{}} :
       \E fields \in Published(FieldsOf(I)) :
          /\ has' = [has EXCEPT ![p] = @ \union I]
          /\ val' = [val EXCEPT ![p] = Overlay(@, fields)]
          /\ inbox' = Route(InterfacesAdded(p, I, fields))
          /\ unheard' = [unheard EXCEPT
                ![p] = IF phase = "down" THEN @ \union FieldsOf(I)
                                         ELSE @ \ FieldsOf(I)]
    /\ UNCHANGED agent

\* The bus routes the change to the agent only while a row holds the match.
ChangeProperty(p) ==
    /\ Len(inbox) < MaxInbox
    /\ \E f \in DOMAIN val[p] : \E x \in Payload(f) \ {val[p][f]} :
          /\ val' = [val EXCEPT ![p][f] = x]
          /\ inbox' = IF p \in rows
                      THEN Append(inbox, PropertiesChanged(p, [g \in {f} |-> x]))
                      ELSE inbox
          /\ unheard' = [unheard EXCEPT
                ![p] = IF Listens(p) THEN @ \ {f} ELSE @ \union {f}]
    /\ UNCHANGED <<has, agent>>

\* A service takes back interfaces of the object, all of its own for one.  If
\* the table owns one of them it drops the row, whatever other services still
\* publish.
RemoveInterfaces(p, s) ==
    /\ Len(inbox) < MaxInbox
    /\ \E I \in (SUBSET Of(p, s)) \ {{}} :
          /\ has' = [has EXCEPT ![p] = @ \ I]
          /\ val' = [val EXCEPT ![p] = Only(@, FieldsOf(has[p] \ I))]
          /\ inbox' = Route(InterfacesRemoved(p, I))
          /\ unheard' = [unheard EXCEPT
                ![p] = IF Owned(p, I) THEN FieldsOf(has[p] \ I)
                                      ELSE @ \ FieldsOf(I)]
    /\ UNCHANGED agent

-----------------------------------------------------------------------------
(* The AgentX session, which the library opens again by itself.            *)

SessionDown ==
    /\ "session" \in Faults
    /\ session
    /\ session' = FALSE
    /\ UNCHANGED <<has, val, inbox, phase, asked, todo, reply, rows, item, told,
                   lost, unheard>>

SessionUp ==
    /\ ~session
    /\ session' = TRUE
    /\ UNCHANGED <<has, val, inbox, phase, asked, todo, reply, rows, item, told,
                   lost, unheard>>

-----------------------------------------------------------------------------
(* The rows and their traps.                                               *)

(* Trap::send: send_v2trap has no result and nobody asks for one.  A trap  *)
(* about an item without object identifiers names no item.                 *)
send(p, row, flags) ==
    IF p \in Mute THEN row
    ELSE IF session THEN [row EXCEPT !.told = flags, !.lost = "nothing"]
    ELSE [row EXCEPT !.lost = "trap"]

(* Table::getItem; onCreate of both kinds of rows sends no trap.           *)
getItem(p) ==
    [item |-> IF p \in rows THEN item[p] ELSE NewItem(Kind(p)),
     told |-> IF p \in Inventory THEN told[p] ELSE Nothing,
     lost |-> IF p \in Inventory THEN lost[p] ELSE "nothing"]

\* Seeded fault: only the flag that changed is put into the trap.
setFieldsOfOneFlag(p, row, fields) ==
    LET new == [row EXCEPT !.item = setFields(Kind(p), row.item, fields)]
        was == get_snmp_reply(row.item)
        is == get_snmp_reply(new.item)
        trap == [flag \in DOMAIN is |->
                    IF is[flag] = was[flag] THEN row.told[flag] ELSE is[flag]]
    IN  IF p \in Inventory /\ is # was THEN send(p, new, trap) ELSE new

\* Seeded fault: the trap is sent for a change of Present only.
setFieldsOfPresent(p, row, fields) ==
    LET new == [row EXCEPT !.item = setFields(Kind(p), row.item, fields)] IN
    IF p \in Inventory /\ new.item["Present"] # row.item["Present"]
    THEN send(p, new, get_snmp_reply(new.item)) ELSE new

(* InventoryItem::setFields with its trap, Software::setFields.            *)
setFieldsOf(p, row, fields) ==
    LET new == [row EXCEPT !.item = setFields(Kind(p), row.item, fields)] IN
    IF p \in Inventory /\ get_snmp_reply(new.item) # get_snmp_reply(row.item)
    THEN send(p, new, get_snmp_reply(new.item)) ELSE new

Keep(p, row) ==
    /\ rows' = rows \union {p}
    /\ item' = [item EXCEPT ![p] = row.item]
    /\ told' = [q \in Inventory |-> IF q = p THEN row.told ELSE told[q]]
    /\ lost' = [q \in Inventory |-> IF q = p THEN row.lost ELSE lost[q]]
    /\ UNCHANGED <<phase, asked, unheard>>

\* Seeded fault: onDestroy does not ask whether there is something to take back.
dropItemAlwaysTold(p) ==
    LET row == IF p \in Inventory THEN send(p, getItem(p), Nothing) ELSE getItem(p)
    IN  /\ rows' = rows \ {p}
        /\ item' = [item EXCEPT ![p] = NewItem(Kind(p))]
        /\ told' = [q \in Inventory |-> IF q = p THEN row.told ELSE told[q]]
        /\ lost' = [q \in Inventory |-> IF q = p THEN row.lost ELSE lost[q]]
        /\ UNCHANGED <<phase, asked, unheard>>

(* Table::dropItem; InventoryItem::onDestroy takes back what was reported. *)
dropItem(p) ==
    LET row == IF p \in Inventory /\ get_snmp_reply(item[p]) # Nothing
               THEN send(p, getItem(p), Nothing) ELSE getItem(p)
    IN  /\ rows' = rows \ {p}
        /\ item' = [item EXCEPT ![p] = NewItem(Kind(p))]
        /\ told' = [q \in Inventory |-> IF q = p THEN row.told ELSE told[q]]
        /\ lost' = [q \in Inventory |-> IF q = p THEN row.lost ELSE lost[q]]
        /\ UNCHANGED <<phase, asked, unheard>>

(* The process is gone: no row is dropped by dropItem, no trap is sent.    *)
End ==
    /\ phase' = "down"
    /\ asked' = FALSE
    /\ rows' = {}
    /\ item' = [p \in Paths |-> NewItem(Kind(p))]
    /\ lost' = [p \in Inventory |->
                  IF get_snmp_reply(item[p]) # Nothing /\ lost[p] = "nothing"
                     /\ p \notin Mute
                  THEN "end" ELSE lost[p]]
    /\ unheard' = [p \in Paths |-> FieldsOf(has[p])]
    /\ UNCHANGED told

-----------------------------------------------------------------------------
(* main, up to the loop: init of the software, then of the inventory.      *)

\* systemd, Restart=always; AgentUnit has its limit.
Start ==
    /\ phase = "down"
    /\ phase' = "software"
    /\ UNCHANGED <<has, val, inbox, asked, todo, reply, rows, item, session, told,
                   lost, unheard>>

\* The mapper names the services that publish an owned interface of an object;
\* a call that fails reads as an empty answer.  The table has no rows yet:
\* update runs once in a process.
GetSubTree ==
    /\ phase \in {"software", "inventory"}
    /\ ~asked
    /\ asked' = TRUE
    /\ \E found \in SUBSET (Table(phase) \X Services) :
          /\ \/ found = {ps \in Table(phase) \X Services :
                           Owned(ps[1], Of(ps[1], ps[2]))}
             \/ "mapper" \in Faults
          /\ todo' = found
    /\ UNCHANGED <<has, val, inbox, phase, reply, rows, item, session, told, lost,
                   unheard>>

\* Seeded fault: the first answer is taken for the whole object.
GetAllOfFirst(p, s) ==
    /\ reply = {}
    /\ <<p, s>> \in todo
    /\ todo' = {ps \in todo : ps[1] # p}
    /\ reply' = {[path |-> p, fields |-> Only(val[p], FieldsOf(Of(p, s)))]}
    /\ unheard' = [unheard EXCEPT ![p] = IF Queued(p) THEN @ ELSE {}]
    /\ UNCHANGED <<has, val, inbox, phase, asked, rows, item, session, told, lost>>

\* A service answers for its own interfaces of the object; a call that fails,
\* of a service that has none left for one, reads as an empty answer.
GetAll(p, s) ==
    /\ reply = {}
    /\ <<p, s>> \in todo
    /\ todo' = todo \ {<<p, s>>}
    /\ \E F \in {FieldsOf(Of(p, s))} \union (IF "getall" \in Faults THEN {{}} ELSE {}) :
          /\ reply' = {[path |-> p, fields |-> Only(val[p], F)]}
          /\ unheard' = [unheard EXCEPT ![p] = IF Queued(p) THEN @ ELSE @ \ F]
    /\ UNCHANGED <<has, val, inbox, phase, asked, rows, item, session, told, lost>>

\* getItem(path).setFields(fields), or the end of the process.
Store ==
    /\ \E r \in reply :
          IF Throws(Kind(r.path), r.fields)
          THEN End /\ inbox' = <<>> /\ todo' = {}
          ELSE /\ Keep(r.path, setFieldsOf(r.path, getItem(r.path), r.fields))
               /\ UNCHANGED <<inbox, todo>>
    /\ reply' = {}
    /\ UNCHANGED <<has, val, session>>

\* Seeded fault: init returns before the last answer is stored.
FilledEarly ==
    /\ asked
    /\ todo = {}
    /\ phase' = IF phase = "software" THEN "inventory" ELSE "loop"
    /\ asked' = FALSE
    /\ UNCHANGED <<has, val, inbox, todo, reply, rows, item, session, told, lost,
                   unheard>>

\* The table is filled: the next init, or the event loop.
Filled ==
    /\ asked
    /\ todo = {} /\ reply = {}
    /\ phase' = IF phase = "software" THEN "inventory" ELSE "loop"
    /\ asked' = FALSE
    /\ UNCHANGED <<has, val, inbox, todo, reply, rows, item, session, told, lost,
                   unheard>>

-----------------------------------------------------------------------------
(* The event loop: one queued signal per step.                             *)

Dispatch(type) ==
    /\ phase = "loop"
    /\ inbox # <<>>
    /\ Head(inbox).type = type
    /\ UNCHANGED <<has, val, todo, reply, session>>

Ignore == UNCHANGED <<phase, asked, rows, item, told, lost, unheard>>

\* One call of setFields for each interface, in the order of the std::map.
onInterfacesAdded ==
    /\ Dispatch("Added")
    /\ LET m == Head(inbox)
           p == m.path
           From(row, i) == setFieldsOf(p, row, Only(m.fields, IfaceFields(i)))
       IN  IF ~Owned(p, m.ifaces)
           THEN Ignore /\ inbox' = Tail(inbox)
           ELSE IF Throws(Kind(p), m.fields)
           THEN End /\ inbox' = <<>>
           ELSE /\ inbox' = Tail(inbox)
                /\ Keep(p, IF p \in Inventory
                           THEN From(From(From(From(getItem(p),
                                    "Asset"), "Revision"), "Item"), "Status")
                           ELSE From(From(From(getItem(p),
                                    "Activation"), "Priority"), "Version"))

\* A change that was routed for the row that is dropped may find the match of
\* a row created later, or be dropped: both are allowed.
onInterfacesRemoved ==
    /\ Dispatch("Removed")
    /\ LET m == Head(inbox) IN
       IF Owned(m.path, m.ifaces) /\ m.path \in rows
       THEN /\ dropItem(m.path)
            /\ \E orphaned \in BOOLEAN :
                  inbox' = [n \in 1 .. Len(inbox) - 1 |->
                    IF /\ orphaned
                       /\ inbox[n + 1].type = "Changed"
                       /\ inbox[n + 1].path = m.path
                    THEN [inbox[n + 1] EXCEPT !.type = "Unmatched"]
                    ELSE inbox[n + 1]]
       ELSE Ignore /\ inbox' = Tail(inbox)

onPropertiesChanged ==
    /\ Dispatch("Changed")
    /\ LET m == Head(inbox) IN
       IF m.path \notin rows
       THEN Ignore /\ inbox' = Tail(inbox)
       ELSE IF Throws(Kind(m.path), m.fields)
       THEN End /\ inbox' = <<>>
       ELSE /\ Keep(m.path, setFieldsOf(m.path, getItem(m.path), m.fields))
            /\ inbox' = Tail(inbox)

\* A message that no match of the connection takes.
Discard ==
    /\ Dispatch("Unmatched")
    /\ Ignore
    /\ inbox' = Tail(inbox)

\* SIGTERM is blocked until the loop runs and handles it: main returns and
\* its static tables go, rows and all, without a trap.  Other signals and
\* failures end the process at any moment, with the same effect.
Terminate ==
    /\ phase # "down"
    /\ End
    /\ inbox' = <<>> /\ todo' = {} /\ reply' = {}
    /\ UNCHANGED <<has, val, session>>

-----------------------------------------------------------------------------
Objects == \E p \in Paths :
    \/ ChangeProperty(p)
    \/ \E s \in Services : AddInterfaces(p, s) \/ RemoveInterfaces(p, s)
Update == GetSubTree \/ (\E p \in Paths, s \in Services : GetAll(p, s)) \/ Store \/ Filled
Loop == onInterfacesAdded \/ onInterfacesRemoved \/ onPropertiesChanged \/ Discard
Agent == Start \/ Update \/ Loop

Next == Objects \/ SessionDown \/ SessionUp \/ Agent \/ Terminate
Spec == Init /\ [][Next]_vars

-----------------------------------------------------------------------------
(* Properties.                                                             *)

FieldsMap == UNION {Published(F) : F \in UNION {SUBSET FieldsOf(Ifaces[kind]) : kind \in Kinds}}
Message == [type : {"Added", "Removed", "Changed", "Unmatched"}, path : Paths,
            ifaces : UNION {SUBSET Ifaces[kind] : kind \in Kinds},
            fields : FieldsMap]

\* Every variable has its type; one reply waits at most; a published property
\* belongs to an interface of its object; rows that do not exist hold nothing.
TypeOK ==
    /\ \A p \in Paths : has[p] \subseteq Ifaces[Kind(p)]
    /\ \A p \in Paths : val[p] \in Published(FieldsOf(has[p]))
    /\ inbox \in Seq(Message)
    /\ phase \in {"down", "software", "inventory", "loop"}
    /\ asked \in BOOLEAN
    /\ asked => phase \in {"software", "inventory"}
    /\ todo \subseteq (IF asked THEN Table(phase) ELSE {}) \X Services
    /\ reply \subseteq [path : Paths, fields : FieldsMap]
    /\ reply # {} => asked
    /\ \A r, s \in reply : r = s
    /\ rows \subseteq Paths
    /\ \A p \in Paths : IsItem(Kind(p), item[p])
    /\ \A p \in Paths \ rows : item[p] = NewItem(Kind(p))
    /\ session \in BOOLEAN
    /\ told \in [Inventory -> Reply]
    /\ lost \in [Inventory -> Lost]
    /\ \A p \in Paths : unheard[p] \subseteq FieldsOf(has[p])

\* What a GET says of an item: without a row it is neither.
Shows(p) == IF p \in rows THEN get_snmp_reply(item[p]) ELSE Nothing

\* A trap that is lost is made up for by the next one, because a trap carries
\* both flags and not only the one that changed, and one that takes an item
\* back is sent exactly if there is something to take back: whoever has had a
\* trap about an item since the last loss knows what a GET would tell.
InStep == \A p \in Inventory \ Mute : lost[p] = "nothing" => told[p] = Shows(p)

\* The end of the agent alone, as long as its traps arrive, leaves a manager
\* believing in items that are gone and never hides one: what is there is told
\* again.
EndHidesNothing == \A p \in Inventory \ Mute : lost[p] = "end" => Shows(p) = Nothing

\* Step by step: the inventory does what InventoryMib promises, although one
\* message may change a row several times, a row may be made again over the
\* remains of an older one, and whole messages may change nothing.
Mib == INSTANCE InventoryMib WITH
    Items <- Inventory \ Mute,
    view <- [p \in Inventory \ Mute |-> Shows(p)],
    told <- [p \in Inventory \ Mute |-> told[p]],
    lost <- [p \in Inventory \ Mute |-> lost[p]]
MibSpec == Mib!Spec

\* At rest the rows have every value their services announced: those of an
\* object of several services too, each of which fills its part of the row,
\* and after the process has ended on a value it could not read.
Quiet == phase = "loop" /\ inbox = <<>>
Shown(p) == {f \in DOMAIN val[p] : f \in ItemFields(Kind(p)) /\ val[p][f] \in Expected(f)}
Accurate ==
    Quiet => \A p \in Paths : \A f \in Shown(p) \ unheard[p] :
                /\ Owned(p, has[p]) => p \in rows
                /\ item[p][f] = Converted(f, val[p][f])

=============================================================================
