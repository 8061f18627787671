------------------------- MODULE AgentTables_proofs -------------------------
(***************************************************************************)
(* Proofs about AgentTables, for any items and images, any interfaces and  *)
(* services, any strings, any faults and any bounds.                       *)
(*                                                                         *)
(* The first invariant, IInv, has six parts: the objects, what they did    *)
(* not announce, the queue, the control of the initial update, the rows    *)
(* with what was told about them, and what comes from outside.  Only the   *)
(* rows are more than types: of every item with object identifiers, what   *)
(* lost says of the row and of the last trap that arrived is true.         *)
(*                                                                         *)
(* The second, AllHeard, stands on the first and says where each value     *)
(* that was announced to a row is on its way there.                        *)
(*                                                                         *)
(* The refinement of InventoryMib, at the end, needs IInv and one lemma    *)
(* for each way in which a row changes.                                    *)
(***************************************************************************)
EXTENDS AgentTables, SequenceTheorems, TLAPS

-----------------------------------------------------------------------------
(* The data of a row.                                                      *)

LEMMA KindIsKind == ASSUME NEW p \in Paths PROVE Kind(p) \in Kinds
  BY DEF Paths, Kind, Kinds

LEMMA FlagsAreFields == Flags \subseteq ItemFields("inventory")
  BY DEF ItemFields

\* DBusEnum::get gives a column's number or INVALID_ENUM_VALUE.
LEMMA GetType ==
  ASSUME NEW f \in Enums, NEW s
  PROVE  get(Converter(f), s) \in 0 .. 255
<1>1. \A n \in DOMAIN purpose.values : purpose.values[n] \in 0 .. 255
  BY DEF purpose
<1>2. \A n \in DOMAIN activation.values : activation.values[n] \in 0 .. 255
  BY DEF activation
<1> QED
  BY <1>1, <1>2 DEF get, Converter, INVALID_ENUM_VALUE

\* What setFields takes over has the type of the field.
LEMMA ConvertedType ==
  ASSUME NEW f, NEW x \in Expected(f)
  PROVE  Converted(f, x) \in FieldType(f)
<1>1. CASE f \in Flags
  BY <1>1 DEF Converted, Expected, FieldType, Flags, Enums
<1>2. CASE f \in Enums
  <2>1. get(Converter(f), x) \in 0 .. 255
    BY <1>2, GetType
  <2> QED
    BY <1>2, <2>1 DEF Converted, FieldType, Flags, Enums
<1>3. CASE f = "Priority"
  BY <1>3, ItemsAssumption DEF Converted, Expected, FieldType, Flags, Enums
<1>4. CASE f \notin Flags /\ f \notin Enums /\ f # "Priority"
  BY <1>4 DEF Converted, Expected, FieldType
<1> QED
  BY <1>1, <1>2, <1>3, <1>4

LEMMA NewItemType == ASSUME NEW kind PROVE IsItem(kind, NewItem(kind))
<1> DEFINE i == NewItem(kind)
<1>1. i = [f \in ItemFields(kind) |-> i[f]]
  BY DEF NewItem
<1>2. ASSUME NEW f \in ItemFields(kind) PROVE i[f] \in FieldType(f)
  <2>1. CASE f \in Flags
    BY <2>1 DEF NewItem, FieldType, Flags, Enums
  <2>2. CASE f \notin Flags /\ (f \in Enums \/ f = "Priority")
    BY <2>2 DEF NewItem, FieldType, INVALID_ENUM_VALUE
  <2>3. CASE f \notin Flags /\ ~(f \in Enums \/ f = "Priority")
    BY <2>3, ItemsAssumption DEF NewItem, FieldType
  <2> QED
    BY <2>1, <2>2, <2>3
<1> HIDE DEF i
<1>3. IsItem(kind, i)
  BY <1>1, <1>2 DEF IsItem
<1> QED
  BY <1>3 DEF i

\* setFields keeps a row well typed whatever the message carries.
LEMMA SetFieldsType ==
  ASSUME NEW kind, NEW i, IsItem(kind, i), NEW fields
  PROVE  IsItem(kind, setFields(kind, i, fields))
<1> DEFINE new == setFields(kind, i, fields)
<1>1. ASSUME NEW f \in ItemFields(kind) PROVE new[f] \in FieldType(f)
  BY ConvertedType DEF setFields, IsItem
<1>2. new = [f \in ItemFields(kind) |-> new[f]]
  BY DEF setFields
<1> QED
  BY <1>1, <1>2 DEF IsItem

LEMMA ReplyType == ASSUME NEW i PROVE get_snmp_reply(i) \in Reply
  BY DEF get_snmp_reply, Reply, SNMPBOOL

\* A row that is not there is neither present nor functional.
LEMMA NewItemIsNothing == get_snmp_reply(NewItem("inventory")) = Nothing
<1>1. \A f \in Flags : NewItem("inventory")[f] = "false"
  BY FlagsAreFields DEF NewItem, Flags, Enums
<1> DEFINE i == NewItem("inventory")
<1>2. i["Present"] = "false" /\ i["Functional"] = "false"
  BY <1>1 DEF Flags
<1> HIDE DEF i
<1>3. get_snmp_reply(i) = Nothing
  BY <1>2 DEF get_snmp_reply, Nothing, SNMPBOOL
<1> QED
  BY <1>3 DEF i

-----------------------------------------------------------------------------
(* One row with what was told about it.                                    *)

\* What lost says of the row and of the last trap is true.
Believed(reply1, trap, why) ==
    /\ why = "nothing" => trap = reply1
    /\ why = "end" => reply1 = Nothing

GoodRow(p, row) ==
    /\ row = [item |-> row.item, told |-> row.told, lost |-> row.lost]
    /\ IsItem(Kind(p), row.item)
    /\ row.told \in Reply
    /\ row.lost \in Lost
    /\ p \in Inventory \ Mute => Believed(get_snmp_reply(row.item), row.told, row.lost)

\* A trap about the row as it is leaves the row good, whether it arrives or
\* not and whatever was told before.
LEMMA SendGood ==
  ASSUME NEW p, NEW i, IsItem(Kind(p), i), NEW t \in Reply, NEW l \in Lost
  PROVE  GoodRow(p, send(p, [item |-> i, told |-> t, lost |-> l], get_snmp_reply(i)))
<1>1. get_snmp_reply(i) \in Reply
  BY ReplyType
<1>2. CASE p \in Mute
  BY <1>2 DEF send, GoodRow
<1>3. CASE p \notin Mute /\ session
  BY <1>1, <1>3 DEF send, GoodRow, Lost, Believed
<1>4. CASE p \notin Mute /\ ~session
  BY <1>4 DEF send, GoodRow, Lost, Believed
<1> QED
  BY <1>2, <1>3, <1>4

\* InventoryItem::setFields sends its trap exactly if a flag has changed, and
\* then tells both: the row stays good, whatever the message carries.
LEMMA SetFieldsGood ==
  ASSUME NEW p, NEW row, GoodRow(p, row), NEW fields
  PROVE  GoodRow(p, setFieldsOf(p, row, fields))
<1> DEFINE i == setFields(Kind(p), row.item, fields)
           new == [item |-> i, told |-> row.told, lost |-> row.lost]
<1>1. [row EXCEPT !.item = i] = new
  BY DEF GoodRow
<1>2. IsItem(Kind(p), i) /\ row.told \in Reply /\ row.lost \in Lost
  BY SetFieldsType DEF GoodRow
<1>3. setFieldsOf(p, row, fields) =
        IF p \in Inventory /\ get_snmp_reply(i) # get_snmp_reply(row.item)
        THEN send(p, new, get_snmp_reply(i)) ELSE new
  BY <1>1 DEF setFieldsOf
<1> HIDE DEF i
<1>4. GoodRow(p, send(p, new, get_snmp_reply(i)))
  BY <1>2, SendGood
<1>5. ASSUME ~(p \in Inventory /\ get_snmp_reply(i) # get_snmp_reply(row.item))
      PROVE  GoodRow(p, new)
  BY <1>2, <1>5 DEF GoodRow
<1> QED
  BY <1>3, <1>4, <1>5

-----------------------------------------------------------------------------
(* All rows.                                                               *)

RowsInv ==
    /\ rows \subseteq Paths
    /\ item = [p \in Paths |-> item[p]]
    /\ \A p \in Paths : IsItem(Kind(p), item[p])
    /\ \A p \in Paths \ rows : item[p] = NewItem(Kind(p))
    /\ told \in [Inventory -> Reply]
    /\ lost \in [Inventory -> Lost]
    /\ \A p \in Inventory \ Mute : Believed(get_snmp_reply(item[p]), told[p], lost[p])

LEMMA RowsInit == Init => RowsInv
<1> SUFFICES ASSUME Init PROVE RowsInv
  OBVIOUS
<1>1. item = [p \in Paths |-> NewItem(Kind(p))]
  BY DEF Init
<1>2. \A p \in Paths : IsItem(Kind(p), item[p]) /\ item[p] = NewItem(Kind(p))
  BY <1>1, NewItemType
<1>3. Nothing \in Reply /\ "nothing" \in Lost
  BY DEF Nothing, Reply, Lost
<1>4. told \in [Inventory -> Reply] /\ lost \in [Inventory -> Lost]
  BY <1>3 DEF Init
<1>5. ASSUME NEW p \in Inventory
      PROVE  Believed(get_snmp_reply(item[p]), told[p], lost[p])
  <2>1. get_snmp_reply(item[p]) = Nothing
    BY <1>2, NewItemIsNothing DEF Paths, Kind
  <2> QED
    BY <2>1 DEF Believed, Init
<1> QED
  BY <1>1, <1>2, <1>4, <1>5 DEF RowsInv, Init

\* Table::getItem gives a good row, an old or a new one.
LEMMA GetItemGood ==
  ASSUME RowsInv, NEW p \in Paths
  PROVE  GoodRow(p, getItem(p)) /\ getItem(p).item = item[p]
<1>1. (IF p \in rows THEN item[p] ELSE NewItem(Kind(p))) = item[p]
  BY DEF RowsInv
<1>2. Nothing \in Reply /\ "nothing" \in Lost
  BY DEF Nothing, Reply, Lost
<1>3. CASE p \in Inventory
  BY <1>1, <1>3 DEF RowsInv, GoodRow, getItem
<1>4. CASE p \notin Inventory
  BY <1>1, <1>2, <1>4 DEF RowsInv, GoodRow, getItem
<1> QED
  BY <1>3, <1>4

\* The row of p is replaced by a good one.
LEMMA PutGood ==
  ASSUME RowsInv, NEW p \in Paths, NEW row, GoodRow(p, row),
         item' = [item EXCEPT ![p] = row.item],
         told' = [q \in Inventory |-> IF q = p THEN row.told ELSE told[q]],
         lost' = [q \in Inventory |-> IF q = p THEN row.lost ELSE lost[q]],
         rows' \in SUBSET Paths,
         \A q \in Paths \ rows' :
            IF q = p THEN row.item = NewItem(Kind(p)) ELSE q \notin rows
  PROVE  RowsInv'
<1>1. item' = [q \in Paths |-> item'[q]]
  BY DEF RowsInv
<1>2. \A q \in Paths : item'[q] = IF q = p THEN row.item ELSE item[q]
  BY DEF RowsInv
<1>3. \A q \in Paths : IsItem(Kind(q), item'[q])
  BY <1>2 DEF RowsInv, GoodRow
<1>4. \A q \in Paths \ rows' : item'[q] = NewItem(Kind(q))
  BY <1>2 DEF RowsInv
<1>5. told' \in [Inventory -> Reply] /\ lost' \in [Inventory -> Lost]
  BY DEF RowsInv, GoodRow
<1>6. ASSUME NEW q \in Inventory \ Mute
      PROVE  Believed(get_snmp_reply(item'[q]), told'[q], lost'[q])
  <2>1. q \in Paths
    BY DEF Paths
  <2>2. CASE q = p
    BY <1>2, <2>1, <2>2 DEF GoodRow
  <2>3. CASE q # p
    BY <1>2, <2>1, <2>3 DEF RowsInv
  <2> QED
    BY <2>2, <2>3
<1> QED
  BY <1>1, <1>3, <1>4, <1>5, <1>6 DEF RowsInv

LEMMA KeepGood ==
  ASSUME RowsInv, NEW p \in Paths, NEW row, GoodRow(p, row), Keep(p, row)
  PROVE  RowsInv'
<1>1. /\ rows' = rows \union {p}
      /\ item' = [item EXCEPT ![p] = row.item]
      /\ told' = [q \in Inventory |-> IF q = p THEN row.told ELSE told[q]]
      /\ lost' = [q \in Inventory |-> IF q = p THEN row.lost ELSE lost[q]]
  BY DEF Keep
<1>2. rows' \in SUBSET Paths
  BY <1>1 DEF RowsInv
<1>3. \A q \in Paths \ rows' : IF q = p THEN row.item = NewItem(Kind(p)) ELSE q \notin rows
  BY <1>1
<1> QED
  BY <1>1, <1>2, <1>3, PutGood

\* Table::dropItem takes back what a trap reported, if there is something.
LEMMA DropGood == ASSUME RowsInv, NEW p \in Paths, dropItem(p) PROVE RowsInv'
<1> DEFINE new == NewItem(Kind(p))
           row == IF p \in Inventory /\ get_snmp_reply(item[p]) # Nothing
                  THEN send(p, getItem(p), Nothing) ELSE getItem(p)
           put == [item |-> new, told |-> row.told, lost |-> row.lost]
<1>1. /\ rows' = rows \ {p}
      /\ item' = [item EXCEPT ![p] = new]
      /\ told' = [q \in Inventory |-> IF q = p THEN row.told ELSE told[q]]
      /\ lost' = [q \in Inventory |-> IF q = p THEN row.lost ELSE lost[q]]
  BY DEF dropItem
<1>2. GoodRow(p, getItem(p)) /\ getItem(p).item = item[p]
  BY GetItemGood
<1>3. IsItem(Kind(p), new)
  BY NewItemType
<1>4. p \in Inventory => get_snmp_reply(new) = Nothing
  BY NewItemIsNothing DEF Kind
<1>5. GoodRow(p, put)
  <2>1. CASE p \in Inventory /\ get_snmp_reply(item[p]) # Nothing
    <3>1. Nothing \in Reply
      BY DEF Nothing, Reply
    <3>2. CASE p \in Mute
      BY <1>2, <1>3, <2>1, <3>2 DEF send, GoodRow
    <3>3. CASE p \notin Mute /\ session
      <4>1. getItem(p) = [item |-> getItem(p).item, told |-> getItem(p).told,
                          lost |-> getItem(p).lost]
        BY <1>2 DEF GoodRow
      <4>2. row.told = Nothing /\ row.lost = "nothing"
        BY <2>1, <3>3, <4>1 DEF send
      <4> QED
        BY <1>3, <1>4, <2>1, <3>1, <4>2 DEF GoodRow, Lost, Believed
    <3>4. CASE p \notin Mute /\ ~session
      <4>1. getItem(p) = [item |-> getItem(p).item, told |-> getItem(p).told,
                          lost |-> getItem(p).lost]
        BY <1>2 DEF GoodRow
      <4>2. row.told = getItem(p).told /\ row.lost = "trap"
        BY <2>1, <3>4, <4>1 DEF send
      <4> QED
        BY <1>2, <1>3, <4>2 DEF GoodRow, Lost, Believed
    <3> QED
      BY <3>2, <3>3, <3>4
  <2>2. CASE ~(p \in Inventory /\ get_snmp_reply(item[p]) # Nothing)
    <3>1. row.told = getItem(p).told /\ row.lost = getItem(p).lost
      BY <2>2
    <3> QED
      BY <1>2, <1>3, <1>4, <2>2, <3>1 DEF GoodRow
  <2> QED
    BY <2>1, <2>2
<1>6. /\ put.item = new /\ put.told = row.told /\ put.lost = row.lost
      /\ rows' \in SUBSET Paths
      /\ \A q \in Paths \ rows' : IF q = p THEN put.item = new ELSE q \notin rows
  BY <1>1 DEF RowsInv
<1> HIDE DEF new, row, put
<1>7. /\ item' = [item EXCEPT ![p] = put.item]
      /\ told' = [q \in Inventory |-> IF q = p THEN put.told ELSE told[q]]
      /\ lost' = [q \in Inventory |-> IF q = p THEN put.lost ELSE lost[q]]
  BY <1>1, <1>6
<1> QED
  BY <1>5, <1>6, <1>7, PutGood DEF new

\* The process ends without a trap: no row is left, and a manager that had
\* been told of something is wrong for that reason.
LEMMA EndGood == ASSUME RowsInv, End PROVE RowsInv'
<1>1. item' = [p \in Paths |-> NewItem(Kind(p))] /\ rows' = {} /\ told' = told
  BY DEF End
<1>2. \A p \in Paths : item'[p] = NewItem(Kind(p)) /\ IsItem(Kind(p), item'[p])
  BY <1>1, NewItemType
<1>3. \A p \in Inventory :
        lost'[p] = IF /\ get_snmp_reply(item[p]) # Nothing
                      /\ lost[p] = "nothing" /\ p \notin Mute
                   THEN "end" ELSE lost[p]
  BY DEF End
<1>4. lost' \in [Inventory -> Lost]
  BY DEF End, RowsInv, Lost
<1>5. ASSUME NEW p \in Inventory \ Mute
      PROVE  Believed(get_snmp_reply(item'[p]), told'[p], lost'[p])
  <2>1. get_snmp_reply(item'[p]) = Nothing
    BY <1>2, NewItemIsNothing DEF Paths, Kind
  <2>2. Believed(get_snmp_reply(item[p]), told[p], lost[p])
    BY DEF RowsInv
  <2> QED
    BY <1>1, <1>3, <2>1, <2>2 DEF Believed
<1>6. item' = [p \in Paths |-> item'[p]]
  BY <1>1
<1> QED
  BY <1>1, <1>2, <1>4, <1>5, <1>6 DEF RowsInv

-----------------------------------------------------------------------------
(* Messages.                                                               *)

LEMMA PublishedBy ==
  ASSUME NEW F, NEW m, m = [f \in F |-> m[f]], \A f \in F : m[f] \in Payload(f)
  PROVE  m \in Published(F)
<1> DEFINE U == UNION {Payload(f) : f \in F}
<1>1. m \in [F -> U]
  <2>1. \A f \in F : m[f] \in U
    OBVIOUS
  <2> HIDE DEF U
  <2> QED
    BY <2>1
<1> QED
  BY <1>1 DEF Published

LEMMA PublishedHas ==
  ASSUME NEW F, NEW m \in Published(F)
  PROVE  /\ m = [f \in F |-> m[f]]
         /\ DOMAIN m = F
         /\ \A f \in F : m[f] \in Payload(f)
  BY DEF Published

LEMMA OverlayPublished ==
  ASSUME NEW F, NEW G, NEW m \in Published(F), NEW n \in Published(G)
  PROVE  Overlay(m, n) \in Published(F \union G)
<1> DEFINE o == Overlay(m, n)
<1>1. DOMAIN m = F /\ DOMAIN n = G
  BY PublishedHas
<1>2. o = [f \in F \union G |-> IF f \in G THEN n[f] ELSE m[f]]
  BY <1>1 DEF Overlay
<1>3. \A f \in F \union G : o[f] \in Payload(f)
  BY <1>2, PublishedHas
<1>4. o = [f \in F \union G |-> o[f]]
  BY <1>2
<1> HIDE DEF o
<1>5. o \in Published(F \union G)
  BY <1>3, <1>4, PublishedBy
<1> QED
  BY <1>5 DEF o

LEMMA OnlyPublished ==
  ASSUME NEW F, NEW G, NEW m \in Published(F)
  PROVE  Only(m, G) \in Published(F \cap G)
<1> DEFINE o == Only(m, G)
<1>1. DOMAIN m = F
  BY PublishedHas
<1>2. o = [f \in F \cap G |-> m[f]]
  BY <1>1 DEF Only
<1>3. \A f \in F \cap G : o[f] \in Payload(f)
  BY <1>2, PublishedHas
<1>4. o = [f \in F \cap G |-> o[f]]
  BY <1>2
<1> HIDE DEF o
<1>5. o \in Published(F \cap G)
  BY <1>3, <1>4, PublishedBy
<1> QED
  BY <1>5 DEF o

LEMMA FieldsOfUnion ==
  ASSUME NEW I, NEW J
  PROVE  FieldsOf(I \union J) = FieldsOf(I) \union FieldsOf(J)
  BY DEF FieldsOf

\* What is published of an object is a fields_map_t.
LEMMA IsFieldsMap ==
  ASSUME NEW p \in Paths, NEW I \in SUBSET Ifaces[Kind(p)],
         NEW F \in SUBSET FieldsOf(I), NEW m \in Published(F)
  PROVE  m \in FieldsMap
<1>1. FieldsOf(I) \subseteq FieldsOf(Ifaces[Kind(p)])
  <2>1. I \union Ifaces[Kind(p)] = Ifaces[Kind(p)]
    OBVIOUS
  <2> QED
    BY <2>1, FieldsOfUnion
<1>2. F \in SUBSET FieldsOf(Ifaces[Kind(p)])
  BY <1>1
<1>3. F \in UNION {SUBSET FieldsOf(Ifaces[kind]) : kind \in Kinds}
  BY <1>2, KindIsKind
<1> QED
  BY <1>3 DEF FieldsMap

LEMMA NoFieldsIsFieldsMap == ASSUME NEW p \in Paths PROVE NoFields \in FieldsMap
<1>1. NoFields \in Published({})
  BY PublishedBy DEF NoFields
<1>2. {} \in SUBSET FieldsOf({})
  OBVIOUS
<1> QED
  BY <1>1, <1>2, IsFieldsMap

LEMMA IfacesInUnion ==
  ASSUME NEW p \in Paths, NEW I \in SUBSET Ifaces[Kind(p)]
  PROVE  I \in UNION {SUBSET Ifaces[kind] : kind \in Kinds}
  BY KindIsKind

-----------------------------------------------------------------------------
(* The invariant.                                                          *)

ObjectsInv ==
    /\ has = [p \in Paths |-> has[p]]
    /\ \A p \in Paths : has[p] \subseteq Ifaces[Kind(p)]
    /\ val = [p \in Paths |-> val[p]]
    /\ \A p \in Paths : val[p] \in Published(FieldsOf(has[p]))

UnheardInv ==
    /\ unheard = [p \in Paths |-> unheard[p]]
    /\ \A p \in Paths : unheard[p] \subseteq FieldsOf(has[p])

QueueInv == inbox \in Seq(Message)

Replies == [path : Paths, fields : FieldsMap]
ControlInv ==
    /\ phase \in {"down", "software", "inventory", "loop"}
    /\ asked \in BOOLEAN
    /\ asked => phase \in {"software", "inventory"}
    /\ todo \subseteq (IF asked THEN Table(phase) ELSE {}) \X Services
    /\ reply \subseteq Replies
    /\ reply # {} => asked
    /\ \A r, s \in reply : r = s

OutsideInv == session \in BOOLEAN

IInv == /\ ObjectsInv
        /\ UnheardInv
        /\ QueueInv
        /\ ControlInv
        /\ RowsInv
        /\ OutsideInv

\* The state of the agent stays.
LEMMA AgentStays ==
  ASSUME IInv, UNCHANGED agent
  PROVE  ControlInv' /\ RowsInv' /\ OutsideInv'
<1>1. UNCHANGED <<phase, asked, todo, reply>>
  BY DEF agent
<1>2. UNCHANGED <<rows, item, told, lost>>
  BY DEF agent
<1>3. UNCHANGED session
  BY DEF agent
<1>4. ControlInv'
  BY <1>1 DEF IInv, ControlInv
<1>5. RowsInv'
  BY <1>2 DEF IInv, RowsInv
<1>6. OutsideInv'
  BY <1>3 DEF IInv, OutsideInv
<1> QED
  BY <1>4, <1>5, <1>6

LEMMA ObjectsStay ==
  ASSUME IInv, UNCHANGED <<has, val>>
  PROVE  ObjectsInv' /\ (UNCHANGED unheard => UnheardInv')
  BY DEF IInv, ObjectsInv, UnheardInv

\* The bus hands a message to the connection, or does not.
LEMMA Routed ==
  ASSUME IInv, NEW m \in Message, inbox' = inbox \/ inbox' = Append(inbox, m)
  PROVE  QueueInv'
<1>1. inbox \in Seq(Message)
  BY DEF IInv, QueueInv
<1>2. CASE inbox' = inbox
  BY <1>1, <1>2 DEF QueueInv
<1>3. CASE inbox' = Append(inbox, m)
  BY <1>1, <1>3, AppendProperties DEF QueueInv
<1> QED
  BY <1>2, <1>3

LEMMA InitIInv == Init => IInv
<1> SUFFICES ASSUME Init PROVE IInv
  OBVIOUS
<1>1. ObjectsInv
  BY DEF Init, ObjectsInv
<1>2. UnheardInv
  BY DEF Init, UnheardInv
<1>3. QueueInv
  BY EmptySeq DEF Init, QueueInv
<1>4. ControlInv
  BY DEF Init, ControlInv
<1>5. OutsideInv
  BY TablesAssumption DEF Init, OutsideInv
<1> QED
  BY <1>1, <1>2, <1>3, <1>4, <1>5, RowsInit DEF IInv

-----------------------------------------------------------------------------
(* The objects.                                                            *)

LEMMA AddInterfacesKeeps ==
  ASSUME IInv, NEW p \in Paths, NEW s \in Services, AddInterfaces(p, s)
  PROVE  IInv'
<1>1. PICK I \in (SUBSET {i \in Ifaces[Kind(p)] \ has[p] : Service[i] = s}) \ {{}} :
        \E fields \in Published(FieldsOf(I)) :
          /\ has' = [has EXCEPT ![p] = @ \union I]
          /\ val' = [val EXCEPT ![p] = Overlay(@, fields)]
          /\ inbox' = Route(InterfacesAdded(p, I, fields))
          /\ unheard' = [unheard EXCEPT
                ![p] = IF phase = "down" THEN @ \union FieldsOf(I)
                                         ELSE @ \ FieldsOf(I)]
  BY DEF AddInterfaces
<1>2. PICK fields \in Published(FieldsOf(I)) :
          /\ has' = [has EXCEPT ![p] = @ \union I]
          /\ val' = [val EXCEPT ![p] = Overlay(@, fields)]
          /\ inbox' = Route(InterfacesAdded(p, I, fields))
          /\ unheard' = [unheard EXCEPT
                ![p] = IF phase = "down" THEN @ \union FieldsOf(I)
                                         ELSE @ \ FieldsOf(I)]
  BY <1>1
<1>3. UNCHANGED agent
  BY DEF AddInterfaces
<1>4. I \in SUBSET Ifaces[Kind(p)]
  BY <1>1
<1>5. /\ has' = [q \in Paths |-> has'[q]]
      /\ \A q \in Paths : has'[q] = IF q = p THEN has[p] \union I ELSE has[q]
  BY <1>2 DEF IInv, ObjectsInv
<1>6. FieldsOf(has[p] \union I) = FieldsOf(has[p]) \union FieldsOf(I)
  BY FieldsOfUnion
<1>7. Overlay(val[p], fields) \in Published(FieldsOf(has[p] \union I))
  BY <1>2, <1>6, OverlayPublished DEF IInv, ObjectsInv
<1>8. /\ val' = [q \in Paths |-> val'[q]]
      /\ \A q \in Paths : val'[q] = IF q = p THEN Overlay(val[p], fields) ELSE val[q]
  BY <1>2 DEF IInv, ObjectsInv
<1>9. ObjectsInv'
  <2>1. \A q \in Paths : has'[q] \subseteq Ifaces[Kind(q)]
    BY <1>4, <1>5 DEF IInv, ObjectsInv
  <2>2. \A q \in Paths : val'[q] \in Published(FieldsOf(has'[q]))
    BY <1>5, <1>7, <1>8 DEF IInv, ObjectsInv
  <2> QED
    BY <1>5, <1>8, <2>1, <2>2 DEF ObjectsInv
<1>10. UnheardInv'
  <2>1. unheard' = [q \in Paths |-> unheard'[q]]
    BY <1>2 DEF IInv, UnheardInv
  <2>2. \A q \in Paths : q # p => unheard'[q] = unheard[q]
    BY <1>2 DEF IInv, UnheardInv
  <2>3. unheard'[p] \subseteq unheard[p] \union FieldsOf(I)
    BY <1>2 DEF IInv, UnheardInv
  <2>4. \A q \in Paths : unheard'[q] \subseteq FieldsOf(has'[q])
    BY <1>5, <1>6, <2>2, <2>3 DEF IInv, UnheardInv
  <2> QED
    BY <2>1, <2>4 DEF UnheardInv
<1>11. QueueInv'
  <2>1. fields \in FieldsMap
    BY <1>2, <1>4, IsFieldsMap
  <2>2. InterfacesAdded(p, I, fields) \in Message
    BY <1>4, <2>1, IfacesInUnion DEF InterfacesAdded, Message
  <2> QED
    BY <1>2, <2>2, Routed DEF Route
<1> QED
  BY <1>3, <1>9, <1>10, <1>11, AgentStays DEF IInv

LEMMA ChangePropertyKeeps ==
  ASSUME IInv, NEW p \in Paths, ChangeProperty(p)
  PROVE  IInv'
<1>1. PICK f \in DOMAIN val[p] : \E x \in Payload(f) \ {val[p][f]} :
          /\ val' = [val EXCEPT ![p][f] = x]
          /\ inbox' = IF p \in rows
                      THEN Append(inbox, PropertiesChanged(p, [g \in {f} |-> x]))
                      ELSE inbox
          /\ unheard' = [unheard EXCEPT
                ![p] = IF Listens(p) THEN @ \ {f} ELSE @ \union {f}]
  BY DEF ChangeProperty
<1>2. PICK x \in Payload(f) :
          /\ val' = [val EXCEPT ![p][f] = x]
          /\ inbox' = IF p \in rows
                      THEN Append(inbox, PropertiesChanged(p, [g \in {f} |-> x]))
                      ELSE inbox
          /\ unheard' = [unheard EXCEPT
                ![p] = IF Listens(p) THEN @ \ {f} ELSE @ \union {f}]
  BY <1>1
<1>3. UNCHANGED agent /\ UNCHANGED has
  BY DEF ChangeProperty
<1> DEFINE F == FieldsOf(has[p])
<1>4. val[p] = [g \in F |-> val[p][g]] /\ (\A g \in F : val[p][g] \in Payload(g)) /\ f \in F
  BY PublishedHas DEF IInv, ObjectsInv
<1>5. /\ val' = [q \in Paths |-> val'[q]]
      /\ \A q \in Paths : val'[q] = IF q = p THEN [val[p] EXCEPT ![f] = x] ELSE val[q]
  BY <1>2 DEF IInv, ObjectsInv
<1>6. [val[p] EXCEPT ![f] = x] \in Published(F)
  <2> DEFINE n == [val[p] EXCEPT ![f] = x]
  <2>1. n = [g \in F |-> IF g = f THEN x ELSE val[p][g]]
    BY <1>4
  <2>2. n = [g \in F |-> n[g]] /\ \A g \in F : n[g] \in Payload(g)
    BY <1>2, <1>4, <2>1
  <2> HIDE DEF n
  <2>3. n \in Published(F)
    BY <2>2, PublishedBy
  <2> QED
    BY <2>3 DEF n
<1>7. ObjectsInv'
  BY <1>3, <1>5, <1>6 DEF IInv, ObjectsInv
<1>8. UnheardInv'
  <2>1. unheard' = [q \in Paths |-> unheard'[q]]
    BY <1>2 DEF IInv, UnheardInv
  <2>2. \A q \in Paths : unheard'[q] \subseteq unheard[q] \union (IF q = p THEN {f} ELSE {})
    BY <1>2 DEF IInv, UnheardInv
  <2>3. \A q \in Paths : unheard'[q] \subseteq FieldsOf(has'[q])
    BY <1>3, <1>4, <2>2 DEF IInv, UnheardInv
  <2> QED
    BY <2>1, <2>3 DEF UnheardInv
<1>9. QueueInv'
  <2> DEFINE c == [g \in {f} |-> x]
  <2>1. c \in Published({f})
    BY <1>2, PublishedBy
  <2>2. {f} \in SUBSET FieldsOf(has[p]) /\ has[p] \in SUBSET Ifaces[Kind(p)]
    BY <1>4 DEF IInv, ObjectsInv
  <2> HIDE DEF c
  <2>3. c \in FieldsMap
    BY <2>1, <2>2, IsFieldsMap
  <2>4. {} \in UNION {SUBSET Ifaces[kind] : kind \in Kinds}
    BY IfacesInUnion
  <2>5. PropertiesChanged(p, c) \in Message
    BY <2>3, <2>4 DEF PropertiesChanged, Message
  <2>6. inbox' = inbox \/ inbox' = Append(inbox, PropertiesChanged(p, c))
    BY <1>2 DEF c
  <2> QED
    BY <2>5, <2>6, Routed
<1> QED
  BY <1>3, <1>7, <1>8, <1>9, AgentStays DEF IInv

LEMMA RemoveInterfacesKeeps ==
  ASSUME IInv, NEW p \in Paths, NEW s \in Services, RemoveInterfaces(p, s)
  PROVE  IInv'
<1>1. PICK I \in (SUBSET Of(p, s)) \ {{}} :
          /\ has' = [has EXCEPT ![p] = @ \ I]
          /\ val' = [val EXCEPT ![p] = Only(@, FieldsOf(has[p] \ I))]
          /\ inbox' = Route(InterfacesRemoved(p, I))
          /\ unheard' = [unheard EXCEPT
                ![p] = IF Owned(p, I) THEN FieldsOf(has[p] \ I)
                                      ELSE @ \ FieldsOf(I)]
  BY DEF RemoveInterfaces
<1>2. UNCHANGED agent
  BY DEF RemoveInterfaces
<1>3. I \subseteq has[p] /\ I \in SUBSET Ifaces[Kind(p)]
  BY <1>1 DEF Of, IInv, ObjectsInv
<1>4. /\ has' = [q \in Paths |-> has'[q]]
      /\ \A q \in Paths : has'[q] = IF q = p THEN has[p] \ I ELSE has[q]
  BY <1>1 DEF IInv, ObjectsInv
<1>5. FieldsOf(has[p]) = FieldsOf(has[p] \ I) \union FieldsOf(I)
  <2>1. has[p] = (has[p] \ I) \union I
    BY <1>3
  <2> QED
    BY <2>1, FieldsOfUnion
<1>6. Only(val[p], FieldsOf(has[p] \ I)) \in Published(FieldsOf(has[p] \ I))
  <2>1. FieldsOf(has[p]) \cap FieldsOf(has[p] \ I) = FieldsOf(has[p] \ I)
    BY <1>5
  <2>2. val[p] \in Published(FieldsOf(has[p]))
    BY DEF IInv, ObjectsInv
  <2>3. Only(val[p], FieldsOf(has[p] \ I))
          \in Published(FieldsOf(has[p]) \cap FieldsOf(has[p] \ I))
    BY <2>2, OnlyPublished
  <2> QED
    BY <2>1, <2>3
<1>7. /\ val' = [q \in Paths |-> val'[q]]
      /\ \A q \in Paths : val'[q] = IF q = p THEN Only(val[p], FieldsOf(has[p] \ I))
                                            ELSE val[q]
  BY <1>1 DEF IInv, ObjectsInv
<1>8. ObjectsInv'
  <2>1. \A q \in Paths : has'[q] \subseteq Ifaces[Kind(q)]
    BY <1>4 DEF IInv, ObjectsInv
  <2>2. \A q \in Paths : val'[q] \in Published(FieldsOf(has'[q]))
    BY <1>4, <1>6, <1>7 DEF IInv, ObjectsInv
  <2> QED
    BY <1>4, <1>7, <2>1, <2>2 DEF ObjectsInv
<1>9. UnheardInv'
  <2>1. unheard' = [q \in Paths |-> unheard'[q]]
    BY <1>1 DEF IInv, UnheardInv
  <2>2. \A q \in Paths : q # p => unheard'[q] = unheard[q]
    BY <1>1 DEF IInv, UnheardInv
  <2>3. unheard'[p] = IF Owned(p, I) THEN FieldsOf(has[p] \ I) ELSE unheard[p] \ FieldsOf(I)
    BY <1>1 DEF IInv, UnheardInv
  <2>4. unheard'[p] \subseteq FieldsOf(has[p] \ I)
    BY <1>5, <2>3 DEF IInv, UnheardInv
  <2>5. \A q \in Paths : unheard'[q] \subseteq FieldsOf(has'[q])
    BY <1>4, <2>2, <2>4 DEF IInv, UnheardInv
  <2> QED
    BY <2>1, <2>5 DEF UnheardInv
<1>10. QueueInv'
  <2>1. InterfacesRemoved(p, I) \in Message
    BY <1>3, IfacesInUnion, NoFieldsIsFieldsMap DEF InterfacesRemoved, Message
  <2> QED
    BY <1>1, <2>1, Routed DEF Route
<1> QED
  BY <1>2, <1>8, <1>9, <1>10, AgentStays DEF IInv

LEMMA SessionKeeps == ASSUME IInv, SessionDown \/ SessionUp PROVE IInv'
<1>1. UNCHANGED <<has, val, inbox, phase, asked, todo, reply, rows, item, told,
                  lost, unheard>> /\ session' \in BOOLEAN
  BY DEF SessionDown, SessionUp
<1>2. ObjectsInv' /\ UnheardInv'
  BY <1>1 DEF IInv, ObjectsInv, UnheardInv
<1>3. QueueInv'
  BY <1>1 DEF IInv, QueueInv
<1>4. ControlInv'
  BY <1>1 DEF IInv, ControlInv
<1>5. RowsInv'
  BY <1>1 DEF IInv, RowsInv
<1>6. OutsideInv'
  BY <1>1 DEF IInv, OutsideInv
<1> QED
  BY <1>2, <1>3, <1>4, <1>5, <1>6 DEF IInv

-----------------------------------------------------------------------------
(* The initial updates.                                                    *)

LEMMA RowsStay ==
  ASSUME IInv, UNCHANGED <<rows, item, told, lost>>
  PROVE  RowsInv'
  BY DEF IInv, RowsInv

LEMMA OutsideStays == ASSUME IInv, UNCHANGED session PROVE OutsideInv'
  BY DEF IInv, OutsideInv

LEMMA QueueStays == ASSUME IInv, inbox' = inbox \/ inbox' = <<>> PROVE QueueInv'
  BY EmptySeq DEF IInv, QueueInv

LEMMA StartKeeps == ASSUME IInv, Start PROVE IInv'
<1>1. UNCHANGED <<has, val, inbox, asked, todo, reply, rows, item, session, told,
                  lost, unheard>> /\ phase = "down" /\ phase' = "software"
  BY DEF Start
<1>2. ControlInv'
  BY <1>1 DEF IInv, ControlInv
<1> QED
  BY <1>1, <1>2, ObjectsStay, QueueStays, RowsStay, OutsideStays DEF IInv

LEMMA GetSubTreeKeeps == ASSUME IInv, GetSubTree PROVE IInv'
<1>1. /\ UNCHANGED <<has, val, inbox, phase, reply, rows, item, session, told, lost,
                     unheard>>
      /\ phase \in {"software", "inventory"} /\ asked' = TRUE
      /\ todo' \subseteq Table(phase) \X Services
  BY DEF GetSubTree
<1>2. ControlInv'
  BY <1>1 DEF IInv, ControlInv
<1> QED
  BY <1>1, <1>2, ObjectsStay, QueueStays, RowsStay, OutsideStays DEF IInv

LEMMA GetAllKeeps ==
  ASSUME IInv, NEW p \in Paths, NEW s \in Services, GetAll(p, s)
  PROVE  IInv'
<1>0. PICK F : /\ reply' = {[path |-> p, fields |-> Only(val[p], F)]}
               /\ unheard' = [unheard EXCEPT ![p] = IF Queued(p) THEN @ ELSE @ \ F]
  BY DEF GetAll
<1> DEFINE fields == Only(val[p], F)
<1>1. /\ reply = {} /\ <<p, s>> \in todo /\ todo' = todo \ {<<p, s>>}
      /\ reply' = {[path |-> p, fields |-> fields]}
      /\ unheard' = [unheard EXCEPT ![p] = IF Queued(p) THEN @ ELSE @ \ F]
      /\ UNCHANGED <<has, val, inbox, phase, asked, rows, item, session, told, lost>>
  BY <1>0 DEF GetAll
<1>2. fields \in FieldsMap
  <2>1. fields \in Published(FieldsOf(has[p]) \cap F)
    BY OnlyPublished DEF IInv, ObjectsInv
  <2>2. FieldsOf(has[p]) \cap F \in SUBSET FieldsOf(has[p])
    OBVIOUS
  <2>3. has[p] \in SUBSET Ifaces[Kind(p)]
    BY DEF IInv, ObjectsInv
  <2> HIDE DEF fields
  <2> QED
    BY <2>1, <2>2, <2>3, IsFieldsMap
<1>3. UnheardInv'
  <2>1. unheard' = [q \in Paths |-> unheard'[q]]
    BY <1>1 DEF IInv, UnheardInv
  <2>2. \A q \in Paths : unheard'[q] \subseteq unheard[q]
    BY <1>1 DEF IInv, UnheardInv
  <2> QED
    BY <1>1, <2>1, <2>2 DEF IInv, UnheardInv
<1> HIDE DEF fields
<1>4. ControlInv'
  <2>1. reply' \subseteq Replies
    BY <1>1, <1>2 DEF Replies
  <2>2. \A r, t \in reply' : r = t
    BY <1>1
  <2>3. asked
    BY <1>1 DEF IInv, ControlInv
  <2>4. todo' \subseteq (IF asked' THEN Table(phase') ELSE {}) \X Services
    BY <1>1 DEF IInv, ControlInv
  <2> QED
    BY <1>1, <2>1, <2>2, <2>3, <2>4 DEF IInv, ControlInv
<1> QED
  BY <1>1, <1>3, <1>4, ObjectsStay, QueueStays, RowsStay, OutsideStays DEF IInv

LEMMA FilledKeeps == ASSUME IInv, Filled PROVE IInv'
<1>1. /\ UNCHANGED <<has, val, inbox, todo, reply, rows, item, session, told, lost,
                     unheard>>
      /\ todo = {} /\ reply = {} /\ asked' = FALSE
      /\ phase' \in {"inventory", "loop"}
  BY DEF Filled
<1>2. ControlInv'
  BY <1>1 DEF ControlInv
<1> QED
  BY <1>1, <1>2, ObjectsStay, QueueStays, RowsStay, OutsideStays DEF IInv

\* The process ends, wherever it was.
LEMMA EndKeeps ==
  ASSUME IInv, End, inbox' = <<>>, todo' = {}, reply' = {}, UNCHANGED <<has, val>>,
         OutsideInv'
  PROVE  IInv'
<1>1. ControlInv'
  BY DEF End, ControlInv
<1>2. unheard' = [p \in Paths |-> FieldsOf(has[p])] /\ has' = has
  BY DEF End
<1>3. UnheardInv'
  BY <1>2 DEF UnheardInv
<1>4. RowsInv'
  BY EndGood DEF IInv
<1>5. QueueInv'
  BY QueueStays
<1> QED
  BY <1>1, <1>3, <1>4, <1>5, ObjectsStay DEF IInv

LEMMA StoreKeeps == ASSUME IInv, Store PROVE IInv'
<1>1. PICK r \in reply :
        IF Throws(Kind(r.path), r.fields)
        THEN End /\ inbox' = <<>> /\ todo' = {}
        ELSE /\ Keep(r.path, setFieldsOf(r.path, getItem(r.path), r.fields))
             /\ UNCHANGED <<inbox, todo>>
  BY DEF Store
<1>2. reply' = {} /\ UNCHANGED <<has, val, session>>
  BY DEF Store
<1>3. r.path \in Paths
  BY DEF IInv, ControlInv, Replies
<1>4. CASE Throws(Kind(r.path), r.fields)
  BY <1>1, <1>2, <1>4, EndKeeps, OutsideStays
<1>5. CASE ~Throws(Kind(r.path), r.fields)
  <2> DEFINE row == setFieldsOf(r.path, getItem(r.path), r.fields)
  <2>1. Keep(r.path, row) /\ UNCHANGED <<inbox, todo>>
    BY <1>1, <1>5
  <2>2. GoodRow(r.path, row)
    BY <1>3, GetItemGood, SetFieldsGood DEF IInv
  <2> HIDE DEF row
  <2>3. RowsInv'
    BY <1>3, <2>1, <2>2, KeepGood DEF IInv
  <2>4. UNCHANGED <<phase, asked, unheard>>
    BY <2>1 DEF Keep
  <2>5. ControlInv'
    BY <1>2, <2>1, <2>4 DEF IInv, ControlInv
  <2> QED
    BY <1>2, <2>1, <2>3, <2>4, <2>5, ObjectsStay, QueueStays, OutsideStays DEF IInv
<1> QED
  BY <1>4, <1>5

-----------------------------------------------------------------------------
(* The event loop.                                                         *)

LEMMA Dispatched ==
  ASSUME IInv, NEW type, Dispatch(type)
  PROVE  /\ Head(inbox) \in Message
         /\ Tail(inbox) \in Seq(Message)
         /\ Head(inbox).path \in Paths
         /\ phase = "loop" /\ ~asked /\ todo = {} /\ reply = {}
         /\ UNCHANGED <<has, val, todo, reply, session>>
<1>1. inbox \in Seq(Message) /\ inbox # <<>>
  BY DEF IInv, QueueInv, Dispatch
<1>2. Head(inbox) \in Message /\ Tail(inbox) \in Seq(Message)
  BY <1>1, HeadTailProperties
<1>3. Head(inbox).path \in Paths
  BY <1>2 DEF Message
<1>4. phase = "loop" /\ UNCHANGED <<has, val, todo, reply, session>>
  BY DEF Dispatch
<1>5. ~asked
  BY <1>4 DEF IInv, ControlInv
<1>6. todo = {} /\ reply = {}
  BY <1>5 DEF IInv, ControlInv
<1> QED
  BY <1>2, <1>3, <1>4, <1>5, <1>6

\* A signal that no table takes, or that changes rows only.
LEMMA HandledKeeps ==
  ASSUME IInv, NEW type, Dispatch(type), QueueInv', RowsInv',
         UNCHANGED <<phase, asked, unheard>>
  PROVE  IInv'
<1>1. UNCHANGED <<has, val, todo, reply, session>>
  BY DEF Dispatch
<1>2. ControlInv'
  BY <1>1 DEF IInv, ControlInv
<1> QED
  BY <1>1, <1>2, ObjectsStay, OutsideStays DEF IInv

LEMMA IgnoredKeeps ==
  ASSUME IInv, NEW type, Dispatch(type), Ignore, inbox' = Tail(inbox)
  PROVE  IInv'
<1>1. QueueInv'
  BY Dispatched DEF QueueInv
<1>2. RowsInv' /\ UNCHANGED <<phase, asked, unheard>>
  BY RowsStay DEF Ignore
<1> QED
  BY <1>1, <1>2, HandledKeeps

\* A signal that ends the process.
LEMMA ThrownKeeps ==
  ASSUME IInv, NEW type, Dispatch(type), End, inbox' = <<>>
  PROVE  IInv'
<1>1. todo' = {} /\ reply' = {} /\ UNCHANGED <<has, val, session>>
  BY Dispatched
<1> QED
  BY <1>1, EndKeeps, OutsideStays

\* A signal after which a good row is kept.
LEMMA KeptKeeps ==
  ASSUME IInv, NEW type, Dispatch(type), NEW p \in Paths, NEW row, GoodRow(p, row),
         Keep(p, row), inbox' = Tail(inbox)
  PROVE  IInv'
<1>1. QueueInv'
  BY Dispatched DEF QueueInv
<1>2. RowsInv'
  BY KeepGood DEF IInv
<1>3. UNCHANGED <<phase, asked, unheard>>
  BY DEF Keep
<1> QED
  BY <1>1, <1>2, <1>3, HandledKeeps

LEMMA AddedKeeps == ASSUME IInv, onInterfacesAdded PROVE IInv'
<1> DEFINE m == Head(inbox)
           p == m.path
           From(row, i) == setFieldsOf(p, row, Only(m.fields, IfaceFields(i)))
           row1 == IF p \in Inventory
                   THEN From(From(From(From(getItem(p),
                            "Asset"), "Revision"), "Item"), "Status")
                   ELSE From(From(From(getItem(p),
                            "Activation"), "Priority"), "Version")
<1>1. Dispatch("Added") /\ p \in Paths
  <2>1. Dispatch("Added")
    BY DEF onInterfacesAdded
  <2> QED
    BY <2>1, Dispatched
<1>2. CASE ~Owned(p, m.ifaces)
  <2>1. Ignore /\ inbox' = Tail(inbox)
    BY <1>2 DEF onInterfacesAdded
  <2> QED
    BY <1>1, <2>1, IgnoredKeeps
<1>3. CASE Owned(p, m.ifaces) /\ Throws(Kind(p), m.fields)
  <2>1. End /\ inbox' = <<>>
    BY <1>3 DEF onInterfacesAdded
  <2> QED
    BY <1>1, <2>1, ThrownKeeps
<1>4. CASE Owned(p, m.ifaces) /\ ~Throws(Kind(p), m.fields)
  <2>1. Keep(p, row1) /\ inbox' = Tail(inbox)
    BY <1>4 DEF onInterfacesAdded
  <2>2. \A row, i : GoodRow(p, row) => GoodRow(p, From(row, i))
    BY SetFieldsGood
  <2>3. GoodRow(p, getItem(p))
    BY <1>1, GetItemGood DEF IInv
  <2> HIDE DEF From
  <2>4. GoodRow(p, row1)
    <3>1. GoodRow(p, From(From(From(From(getItem(p),
                            "Asset"), "Revision"), "Item"), "Status"))
      BY <2>2, <2>3
    <3>2. GoodRow(p, From(From(From(getItem(p), "Activation"), "Priority"), "Version"))
      BY <2>2, <2>3
    <3> QED
      BY <3>1, <3>2
  <2> HIDE DEF row1, p
  <2> QED
    BY <1>1, <2>1, <2>4, KeptKeeps
<1> QED
  BY <1>2, <1>3, <1>4

LEMMA RemovedKeeps == ASSUME IInv, onInterfacesRemoved PROVE IInv'
<1> DEFINE m == Head(inbox)
           p == m.path
<1>1. Dispatch("Removed")
  BY DEF onInterfacesRemoved
<1>2. p \in Paths
  BY <1>1, Dispatched
<1>3. CASE Owned(p, m.ifaces) /\ p \in rows
  <2>1. dropItem(p)
    BY <1>3 DEF onInterfacesRemoved
  <2>2. PICK orphaned \in BOOLEAN :
          inbox' = [n \in 1 .. Len(inbox) - 1 |->
                    IF /\ orphaned
                       /\ inbox[n + 1].type = "Changed"
                       /\ inbox[n + 1].path = m.path
                    THEN [inbox[n + 1] EXCEPT !.type = "Unmatched"]
                    ELSE inbox[n + 1]]
    BY <1>3 DEF onInterfacesRemoved
  <2>3. inbox \in Seq(Message) /\ Len(inbox) \in Nat /\ Len(inbox) > 0
    BY <1>1 DEF IInv, QueueInv, Dispatch
  <2>4. \A n \in 1 .. Len(inbox) - 1 : inbox[n + 1] \in Message
    BY <2>3, ElementOfSeq
  <2>5. \A n \in 1 .. Len(inbox) - 1 :
          [inbox[n + 1] EXCEPT !.type = "Unmatched"] \in Message
    BY <2>4 DEF Message
  <2>6. QueueInv'
    <3>1. inbox' \in [1 .. Len(inbox) - 1 -> Message]
      BY <2>2, <2>4, <2>5
    <3>2. Len(inbox) - 1 \in Nat
      BY <2>3
    <3> QED
      BY <3>1, <3>2, SeqDef DEF QueueInv
  <2>7. RowsInv'
    BY <1>2, <2>1, DropGood DEF IInv
  <2>8. UNCHANGED <<phase, asked, unheard>>
    BY <2>1 DEF dropItem
  <2> QED
    BY <1>1, <2>6, <2>7, <2>8, HandledKeeps
<1>4. CASE ~(Owned(p, m.ifaces) /\ p \in rows)
  <2>1. Ignore /\ inbox' = Tail(inbox)
    BY <1>4 DEF onInterfacesRemoved
  <2> QED
    BY <1>1, <2>1, IgnoredKeeps
<1> QED
  BY <1>3, <1>4

LEMMA ChangedKeeps == ASSUME IInv, onPropertiesChanged PROVE IInv'
<1> DEFINE m == Head(inbox)
           p == m.path
           row1 == setFieldsOf(p, getItem(p), m.fields)
<1>1. Dispatch("Changed")
  BY DEF onPropertiesChanged
<1>2. p \in Paths
  BY <1>1, Dispatched
<1>3. CASE p \notin rows
  <2>1. Ignore /\ inbox' = Tail(inbox)
    BY <1>3 DEF onPropertiesChanged
  <2> QED
    BY <1>1, <2>1, IgnoredKeeps
<1>4. CASE p \in rows /\ Throws(Kind(p), m.fields)
  <2>1. End /\ inbox' = <<>>
    BY <1>4 DEF onPropertiesChanged
  <2> QED
    BY <1>1, <2>1, ThrownKeeps
<1>5. CASE p \in rows /\ ~Throws(Kind(p), m.fields)
  <2>1. Keep(p, row1) /\ inbox' = Tail(inbox)
    BY <1>5 DEF onPropertiesChanged
  <2>2. GoodRow(p, row1)
    BY <1>2, GetItemGood, SetFieldsGood DEF IInv
  <2> HIDE DEF row1, p
  <2> QED
    BY <1>1, <1>2, <2>1, <2>2, KeptKeeps
<1> QED
  BY <1>3, <1>4, <1>5

LEMMA DiscardKeeps == ASSUME IInv, Discard PROVE IInv'
  BY IgnoredKeeps DEF Discard

LEMMA TerminateKeeps == ASSUME IInv, Terminate PROVE IInv'
<1>1. /\ UNCHANGED <<has, val, session>>
      /\ End /\ inbox' = <<>> /\ todo' = {} /\ reply' = {}
  BY DEF Terminate
<1>2. OutsideInv'
  BY <1>1, TablesAssumption DEF IInv, OutsideInv
<1> QED
  BY <1>1, <1>2, EndKeeps

LEMMA NextIInv == IInv /\ [Next]_vars => IInv'
<1> SUFFICES ASSUME IInv, [Next]_vars PROVE IInv'
  OBVIOUS
<1>1. CASE Objects
  BY <1>1, AddInterfacesKeeps, ChangePropertyKeeps, RemoveInterfacesKeeps DEF Objects
<1>2. CASE SessionDown \/ SessionUp
  BY <1>2, SessionKeeps
<1>3. CASE Start
  BY <1>3, StartKeeps
<1>4. CASE Update
  BY <1>4, GetSubTreeKeeps, GetAllKeeps, StoreKeeps, FilledKeeps DEF Update
<1>5. CASE Loop
  BY <1>5, AddedKeeps, RemovedKeeps, ChangedKeeps, DiscardKeeps DEF Loop
<1>6. CASE Terminate
  BY <1>6, TerminateKeeps
<1>7. CASE UNCHANGED vars
  <2>1. UNCHANGED agent /\ UNCHANGED <<has, val, inbox, unheard>>
    BY <1>7 DEF vars, agent
  <2> QED
    BY <2>1, AgentStays, ObjectsStay, QueueStays DEF IInv
<1> QED
  BY <1>1, <1>2, <1>3, <1>4, <1>5, <1>6, <1>7 DEF Next, Agent

-----------------------------------------------------------------------------
(* The theorems.                                                           *)

LEMMA IInvIsTypeOK == IInv => TypeOK
<1> SUFFICES ASSUME IInv PROVE TypeOK
  OBVIOUS
<1>1. \A p \in Paths : has[p] \subseteq Ifaces[Kind(p)]
  BY DEF IInv, ObjectsInv
<1>2. \A p \in Paths : val[p] \in Published(FieldsOf(has[p]))
  BY DEF IInv, ObjectsInv
<1>3. \A p \in Paths : unheard[p] \subseteq FieldsOf(has[p])
  BY DEF IInv, UnheardInv
<1>4. /\ rows \subseteq Paths
      /\ \A p \in Paths : IsItem(Kind(p), item[p])
      /\ \A p \in Paths \ rows : item[p] = NewItem(Kind(p))
      /\ told \in [Inventory -> Reply] /\ lost \in [Inventory -> Lost]
  BY DEF IInv, RowsInv
<1>5. inbox \in Seq(Message) /\ session \in BOOLEAN
  BY DEF IInv, QueueInv, OutsideInv
<1>6. ControlInv
  BY DEF IInv
<1> QED
  BY <1>1, <1>2, <1>3, <1>4, <1>5, <1>6 DEF TypeOK, ControlInv, Replies

LEMMA InvariantHolds == Spec => []IInv
  BY InitIInv, NextIInv, PTL DEF Spec

\* Whatever the services publish, and whatever ends the process: the rows hold
\* well-typed data, the queue well-formed messages, and at most one answer
\* waits to be stored (Table::update, Item::setField).
THEOREM TypeCorrect == Spec => []TypeOK
  BY InvariantHolds, IInvIsTypeOK, PTL

\* What a GET tells of an item is what its data says, there or not.
Telling == \A p \in Inventory : Shows(p) = get_snmp_reply(item[p])

LEMMA RowsTell == RowsInv => Telling
<1> SUFFICES ASSUME RowsInv, NEW p \in Inventory
             PROVE  Shows(p) = get_snmp_reply(item[p])
  BY DEF Telling
<1>1. p \in Paths /\ Kind(p) = "inventory"
  BY DEF Paths, Kind
<1>2. CASE p \in rows
  BY <1>2 DEF Shows
<1>3. CASE p \notin rows
  <2>1. item[p] = NewItem("inventory")
    BY <1>1, <1>3 DEF RowsInv
  <2> QED
    BY <1>3, <2>1, NewItemIsNothing DEF Shows
<1> QED
  BY <1>2, <1>3

\* InventoryItem's traps repair what was lost before them: for any number of
\* items and services, any messages and any losses, a manager that had a trap
\* about an item since the last loss knows what a GET tells (inventory.cpp
\* setFields, onDestroy and sendStateTrap; Trap::send).
THEOREM AlwaysInStep == Spec => []InStep
<1>1. IInv => InStep
  BY RowsTell DEF Telling, IInv, RowsInv, Believed, InStep, Paths
<1> QED
  BY <1>1, InvariantHolds, PTL

\* If only the end of the process separates a manager from the rows, the
\* manager is wrong about items that are not there (any more), and never about
\* one that is (main's exit without dropItem, the new process's setFields).
THEOREM EndNeverHides == Spec => []EndHidesNothing
<1>1. IInv => EndHidesNothing
  BY RowsTell DEF Telling, IInv, RowsInv, Believed, EndHidesNothing, Paths
<1> QED
  BY <1>1, InvariantHolds, PTL

-----------------------------------------------------------------------------
(* What the rows hold.  For each property of each object that was          *)
(* announced to its row the invariant says where its value is on the way   *)
(* there: in the queue, in the reply, or in the row.                       *)

\* A message that will set the field f of p's row; one that will drop the row.
Carries(p, f, m) ==
    m.path = p /\ m.type \in {"Added", "Changed"} /\ f \in DOMAIN m.fields
Drops(p, m) == m.path = p /\ m.type = "Removed" /\ Owned(p, m.ifaces)
Matters(p, f, m) == Carries(p, f, m) \/ Drops(p, m)

\* The queue says nothing of the field, or message n says the last word.
Silent(p, f) == \A n \in DOMAIN inbox : ~Matters(p, f, inbox[n])
LastWord(p, f, n) ==
    /\ Matters(p, f, inbox[n])
    /\ \A k \in DOMAIN inbox : k > n => ~Matters(p, f, inbox[k])

\* The value the object publishes is on its way.  An answer of another service
\* does not touch it, and a change reaches its row only if nothing drops that
\* row before.
InReply(p, f) ==
    \E r \in reply : r.path = p /\ f \in DOMAIN r.fields /\ r.fields[f] = val[p][f]
InRow(p, f) ==
    /\ p \in rows
    /\ \A x \in Expected(f) : x = val[p][f] => item[p][f] = Converted(f, x)
    /\ \A r \in reply : r.path = p => f \notin DOMAIN r.fields
Undropped(p) == \A n \in DOMAIN inbox : ~Drops(p, inbox[n])
Brings(p, f, m) ==
    /\ Carries(p, f, m)
    /\ m.fields[f] = val[p][f]
    /\ m.type = "Changed" => p \in rows /\ Undropped(p)
Arrives(p, f) ==
    \/ Silent(p, f) /\ (InReply(p, f) \/ InRow(p, f))
    \/ \E n \in DOMAIN inbox : LastWord(p, f, n) /\ Brings(p, f, inbox[n])

\* InterfacesAdded names interfaces the object may have, and carries their
\* properties.
Named == \A n \in DOMAIN inbox :
    inbox[n].type = "Added" =>
        /\ inbox[n].ifaces \subseteq Ifaces[Kind(inbox[n].path)]
        /\ DOMAIN inbox[n].fields \subseteq FieldsOf(inbox[n].ifaces)

Due(p) == (FieldsOf(has[p]) \cap ItemFields(Kind(p))) \ unheard[p]
Heard(p) == \A f \in Due(p) : Arrives(p, f)
AllHeard == Named /\ \A p \in Paths : Heard(p)

-----------------------------------------------------------------------------
(* Fields and rows.                                                        *)

\* A field of a row comes with an interface that the table owns.
LEMMA FieldsAreOwned ==
  ASSUME NEW p \in Paths, NEW I \in SUBSET Ifaces[Kind(p)],
         NEW f \in FieldsOf(I) \cap ItemFields(Kind(p))
  PROVE  Owned(p, I)
<1>1. PICK i \in I : f \in IfaceFields(i)
  BY DEF FieldsOf
<1>2. i \in OwnedIfaces(Kind(p))
  BY <1>1, KindIsKind, NamesAssumption
<1> QED
  BY <1>1, <1>2 DEF Owned

\* What setFields leaves in a field.
Set(i, fields, f) ==
    IF f \in DOMAIN fields /\ fields[f] \in Expected(f)
    THEN Converted(f, fields[f]) ELSE i[f]

\* The row has of i what the message sets, among the fields G alone.
HasSet(row, i, fields, f, G) ==
    row.item[f] = IF f \in G THEN Set(i, fields, f) ELSE i[f]

LEMMA SetOne ==
  ASSUME NEW p, NEW row, GoodRow(p, row), NEW fields, NEW f \in ItemFields(Kind(p))
  PROVE  setFieldsOf(p, row, fields).item[f] = Set(row.item, fields, f)
<1> DEFINE i == setFields(Kind(p), row.item, fields)
           new == [item |-> i, told |-> row.told, lost |-> row.lost]
<1>1. [row EXCEPT !.item = i] = new
  BY DEF GoodRow
<1>2. i[f] = Set(row.item, fields, f)
  BY DEF setFields, Set
<1>3. setFieldsOf(p, row, fields) =
        IF p \in Inventory /\ get_snmp_reply(i) # get_snmp_reply(row.item)
        THEN send(p, new, get_snmp_reply(i)) ELSE new
  BY <1>1 DEF setFieldsOf
<1> HIDE DEF i
<1>4. send(p, new, get_snmp_reply(i)).item = i
  BY DEF send
<1> QED
  BY <1>2, <1>3, <1>4

\* The calls for one interface after another set what one call would: after
\* those for the fields G, one more for the fields F.
LEMMA SetMore ==
  ASSUME NEW p, NEW row, GoodRow(p, row), NEW fields, NEW f \in ItemFields(Kind(p)),
         NEW i, NEW F, NEW G,
         HasSet(row, i, fields, f, G)
  PROVE  HasSet(setFieldsOf(p, row, Only(fields, F)), i, fields, f, F \union G)
<1>1. /\ f \in DOMAIN Only(fields, F) <=> f \in DOMAIN fields /\ f \in F
      /\ f \in DOMAIN Only(fields, F) => Only(fields, F)[f] = fields[f]
  BY DEF Only
<1>2. setFieldsOf(p, row, Only(fields, F)).item[f] = Set(row.item, Only(fields, F), f)
  BY SetOne
<1> QED
  BY <1>1, <1>2 DEF Set, HasSet

LEMMA SetInventory ==
  ASSUME NEW p \in Inventory, NEW row, GoodRow(p, row), NEW fields,
         NEW f \in ItemFields(Kind(p))
  PROVE  setFieldsOf(p, setFieldsOf(p, setFieldsOf(p, setFieldsOf(p, row,
            Only(fields, IfaceFields("Asset"))),
            Only(fields, IfaceFields("Revision"))),
            Only(fields, IfaceFields("Item"))),
            Only(fields, IfaceFields("Status"))).item[f] = Set(row.item, fields, f)
<1> DEFINE A == IfaceFields("Asset")
           R == IfaceFields("Revision")
           I == IfaceFields("Item")
           S == IfaceFields("Status")
           row1 == setFieldsOf(p, row, Only(fields, A))
           row2 == setFieldsOf(p, row1, Only(fields, R))
           row3 == setFieldsOf(p, row2, Only(fields, I))
           row4 == setFieldsOf(p, row3, Only(fields, S))
           was == row.item
           Now(r, G) == HasSet(r, was, fields, f, G)
<1>1. f \in S \union (I \union (R \union (A \union {})))
  BY DEF IfaceFields, ItemFields, Kind, Flags
<1>2. GoodRow(p, row1) /\ GoodRow(p, row2) /\ GoodRow(p, row3)
  BY SetFieldsGood
<1> HIDE DEF A, R, I, S
<1>3. Now(row, {})
  BY DEF HasSet
<1>4. Now(row1, A \union {})
  BY <1>3, SetMore
<1> HIDE DEF row1
<1>5. Now(row2, R \union (A \union {}))
  BY <1>2, <1>4, SetMore
<1> HIDE DEF row2
<1>6. Now(row3, I \union (R \union (A \union {})))
  BY <1>2, <1>5, SetMore
<1> HIDE DEF row3
<1>7. Now(row4, S \union (I \union (R \union (A \union {}))))
  BY <1>2, <1>6, SetMore
<1>8. row4.item[f] = Set(was, fields, f)
  BY <1>1, <1>7 DEF HasSet
<1> QED
  BY <1>8 DEF row1, row2, row3, A, R, I, S

LEMMA SetSoftware ==
  ASSUME NEW p \in Paths \ Inventory, NEW row, GoodRow(p, row), NEW fields,
         NEW f \in ItemFields(Kind(p))
  PROVE  setFieldsOf(p, setFieldsOf(p, setFieldsOf(p, row,
            Only(fields, IfaceFields("Activation"))),
            Only(fields, IfaceFields("Priority"))),
            Only(fields, IfaceFields("Version"))).item[f] = Set(row.item, fields, f)
<1> DEFINE A == IfaceFields("Activation")
           P == IfaceFields("Priority")
           V == IfaceFields("Version")
           row1 == setFieldsOf(p, row, Only(fields, A))
           row2 == setFieldsOf(p, row1, Only(fields, P))
           row3 == setFieldsOf(p, row2, Only(fields, V))
           was == row.item
           Now(r, G) == HasSet(r, was, fields, f, G)
<1>1. f \in V \union (P \union (A \union {}))
  BY DEF IfaceFields, ItemFields, Kind, Enums
<1>2. GoodRow(p, row1) /\ GoodRow(p, row2)
  BY SetFieldsGood
<1> HIDE DEF A, P, V
<1>3. Now(row, {})
  BY DEF HasSet
<1>4. Now(row1, A \union {})
  BY <1>3, SetMore
<1> HIDE DEF row1
<1>5. Now(row2, P \union (A \union {}))
  BY <1>2, <1>4, SetMore
<1> HIDE DEF row2
<1>6. Now(row3, V \union (P \union (A \union {})))
  BY <1>2, <1>5, SetMore
<1>7. row3.item[f] = Set(was, fields, f)
  BY <1>1, <1>6 DEF HasSet
<1> QED
  BY <1>7 DEF row1, row2, A, P, V

LEMMA KeepItem ==
  ASSUME IInv, NEW p \in Paths, NEW row, Keep(p, row)
  PROVE  /\ rows' = rows \union {p}
         /\ item'[p] = row.item
         /\ \A q \in Paths : q # p => item'[q] = item[q]
  BY DEF Keep, IInv, RowsInv

-----------------------------------------------------------------------------
(* The queue.                                                              *)

LEMMA Appended ==
  ASSUME IInv, NEW m \in Message, inbox' = Append(inbox, m)
  PROVE  \E last \in Nat :
            /\ DOMAIN inbox' = DOMAIN inbox \union {last}
            /\ inbox'[last] = m
            /\ \A n \in DOMAIN inbox : inbox'[n] = inbox[n]
            /\ \A n \in DOMAIN inbox' : ~(n > last)
<1>1. inbox \in Seq(Message)
  BY DEF IInv, QueueInv
<1>2. /\ Len(inbox) \in Nat
      /\ DOMAIN inbox = 1 .. Len(inbox)
      /\ DOMAIN inbox' = 1 .. Len(inbox) + 1
      /\ \A n \in DOMAIN inbox : inbox'[n] = inbox[n]
      /\ inbox'[Len(inbox) + 1] = m
  BY <1>1, AppendProperties, LenProperties
<1>3. PICK last \in Nat : last = Len(inbox) + 1
  BY <1>2
<1> QED
  BY <1>2, <1>3

LEMMA QueueDomain ==
  ASSUME IInv, inbox # <<>>
  PROVE  /\ Len(inbox) \in Nat /\ Len(inbox) >= 1
         /\ DOMAIN inbox = 1 .. Len(inbox)
         /\ Head(inbox) = inbox[1]
<1>1. inbox \in Seq(Message)
  BY DEF IInv, QueueInv
<1> QED
  BY <1>1, HeadTailProperties, LenProperties, EmptySeq

\* The queue as it was, or one more message that does not matter.
Joined(p, f) ==
    \/ UNCHANGED inbox
    \/ \E m \in Message : inbox' = Append(inbox, m) /\ ~Matters(p, f, m)

LEMMA JoinedWord ==
  ASSUME IInv, NEW p, NEW f, Joined(p, f)
  PROVE  /\ Silent(p, f) => Silent(p, f)'
         /\ \A n \in DOMAIN inbox : LastWord(p, f, n) =>
                n \in DOMAIN inbox' /\ inbox'[n] = inbox[n] /\ LastWord(p, f, n)'
         /\ Undropped(p) => Undropped(p)'
<1>1. CASE UNCHANGED inbox
  BY <1>1 DEF Silent, LastWord, Matters, Carries, Drops, Owned, Undropped
<1>2. ASSUME NEW m \in Message, inbox' = Append(inbox, m), ~Matters(p, f, m)
      PROVE  /\ Silent(p, f) => Silent(p, f)'
             /\ \A n \in DOMAIN inbox : LastWord(p, f, n) =>
                    n \in DOMAIN inbox' /\ inbox'[n] = inbox[n] /\ LastWord(p, f, n)'
             /\ Undropped(p) => Undropped(p)'
  <2>1. PICK last \in Nat :
          /\ DOMAIN inbox' = DOMAIN inbox \union {last}
          /\ inbox'[last] = m
          /\ \A n \in DOMAIN inbox : inbox'[n] = inbox[n]
    BY <1>2, Appended
  <2>2. ~Matters(p, f, inbox'[last]) /\ ~Drops(p, inbox'[last])
    BY <1>2, <2>1 DEF Matters
  <2>3. \A n \in DOMAIN inbox : /\ Matters(p, f, inbox'[n]) <=> Matters(p, f, inbox[n])
                                /\ Drops(p, inbox'[n]) <=> Drops(p, inbox[n])
    BY <2>1
  <2> QED
    BY <2>1, <2>2, <2>3
    DEF Silent, LastWord, Undropped, Matters, Carries, Drops, Owned
<1> QED
  BY <1>1, <1>2 DEF Joined

\* A message that matters says the last word.
LEMMA WordSaid ==
  ASSUME IInv, NEW p, NEW f, NEW m \in Message, inbox' = Append(inbox, m),
         Matters(p, f, m)
  PROVE  \E n \in DOMAIN inbox' : inbox'[n] = m /\ LastWord(p, f, n)'
<1>1. PICK last \in Nat :
        /\ DOMAIN inbox' = DOMAIN inbox \union {last}
        /\ inbox'[last] = m
        /\ \A n \in DOMAIN inbox' : ~(n > last)
  BY Appended
<1>2. Matters(p, f, inbox'[last])
  BY <1>1
<1> QED
  BY <1>1, <1>2 DEF LastWord, Matters, Carries, Drops, Owned

LEMMA UndroppedStays ==
  ASSUME IInv, NEW p, NEW m \in Message, inbox' = Append(inbox, m),
         ~Drops(p, m), Undropped(p)
  PROVE  Undropped(p)'
<1>1. PICK last \in Nat :
        /\ DOMAIN inbox' = DOMAIN inbox \union {last}
        /\ inbox'[last] = m
        /\ \A n \in DOMAIN inbox : inbox'[n] = inbox[n]
  BY Appended
<1> QED
  BY <1>1 DEF Undropped, Drops, Owned

LEMMA NamedStays ==
  ASSUME IInv, Named,
         \/ UNCHANGED inbox
         \/ \E m \in Message :
               /\ inbox' = Append(inbox, m)
               /\ m.type = "Added" => /\ m.ifaces \subseteq Ifaces[Kind(m.path)]
                                      /\ DOMAIN m.fields \subseteq FieldsOf(m.ifaces)
  PROVE  Named'
<1>1. CASE UNCHANGED inbox
  BY <1>1 DEF Named, FieldsOf, Kind
<1>2. ASSUME NEW m \in Message, inbox' = Append(inbox, m),
             m.type = "Added" => /\ m.ifaces \subseteq Ifaces[Kind(m.path)]
                                 /\ DOMAIN m.fields \subseteq FieldsOf(m.ifaces)
      PROVE  Named'
  <2>1. PICK last \in Nat :
          /\ DOMAIN inbox' = DOMAIN inbox \union {last}
          /\ inbox'[last] = m
          /\ \A n \in DOMAIN inbox : inbox'[n] = inbox[n]
    BY <1>2, Appended
  <2>2. ASSUME NEW n \in DOMAIN inbox', inbox'[n].type = "Added"
        PROVE  /\ inbox'[n].ifaces \subseteq Ifaces[Kind(inbox'[n].path)]
               /\ DOMAIN inbox'[n].fields \subseteq FieldsOf(inbox'[n].ifaces)
    <3>1. CASE n = last
      BY <1>2, <2>1, <2>2, <3>1
    <3>2. CASE n \in DOMAIN inbox
      <4>1. inbox'[n] = inbox[n]
        BY <2>1, <3>2
      <4> QED
        BY <2>2, <3>2, <4>1 DEF Named
    <3> QED
      BY <2>1, <2>2, <3>1, <3>2
  <2> QED
    BY <2>2 DEF Named, FieldsOf, Kind
<1> QED
  BY <1>1, <1>2

-----------------------------------------------------------------------------
(* The objects' steps and the values.                                      *)

LEMMA ArrivesStays ==
  ASSUME IInv, NEW p, NEW f, Joined(p, f), Arrives(p, f),
         UNCHANGED <<reply, rows, item>>, val'[p][f] = val[p][f]
  PROVE  Arrives(p, f)'
<1>1. CASE Silent(p, f) /\ (InReply(p, f) \/ InRow(p, f))
  BY <1>1, JoinedWord DEF Arrives, InReply, InRow
<1>2. ASSUME NEW n \in DOMAIN inbox, LastWord(p, f, n), Brings(p, f, inbox[n])
      PROVE  Arrives(p, f)'
  <2>1. n \in DOMAIN inbox' /\ inbox'[n] = inbox[n] /\ LastWord(p, f, n)'
    BY <1>2, JoinedWord
  <2>2. Undropped(p) => Undropped(p)'
    BY JoinedWord
  <2>3. Brings(p, f, inbox[n])'
    BY <1>2, <2>1, <2>2 DEF Brings, Carries
  <2> QED
    BY <2>1, <2>3 DEF Arrives
<1> QED
  BY <1>1, <1>2 DEF Arrives

\* What a step of one object says of the others is nothing.
LEMMA OthersHeard ==
  ASSUME IInv, NEW p \in Paths, NEW q \in Paths, q # p, Heard(q),
         \/ UNCHANGED inbox
         \/ \E m \in Message : inbox' = Append(inbox, m) /\ m.path = p,
         UNCHANGED <<reply, rows, item>>,
         has'[q] = has[q], val'[q] = val[q], unheard'[q] = unheard[q]
  PROVE  Heard(q)'
<1>1. \A f : Joined(q, f)
  BY DEF Joined, Matters, Carries, Drops
<1>2. Due(q)' = Due(q)
  BY DEF Due, FieldsOf
<1>3. \A f \in Due(q) : Arrives(q, f)'
  BY <1>1, ArrivesStays DEF Heard
<1> QED
  BY <1>2, <1>3 DEF Heard

\* The values do not move, nor does anything on its way.
LEMMA SameHeard ==
  ASSUME IInv, AllHeard,
         UNCHANGED <<has, val, unheard, inbox, reply, rows, item>>
  PROVE  AllHeard'
<1>1. \A q, f : Joined(q, f)
  BY DEF Joined
<1>2. Named'
  BY NamedStays DEF AllHeard
<1>3. ASSUME NEW q \in Paths PROVE Heard(q)'
  <2>1. Due(q)' = Due(q)
    BY DEF Due, FieldsOf
  <2>2. \A f \in Due(q) : Arrives(q, f)'
    BY <1>1, ArrivesStays DEF AllHeard, Heard
  <2> QED
    BY <2>1, <2>2 DEF Heard
<1> QED
  BY <1>2, <1>3 DEF AllHeard

\* The process is gone and has heard of nothing.
LEMMA EndHeard ==
  ASSUME IInv, End, inbox' = <<>>, has' = has
  PROVE  AllHeard'
<1>1. Named'
  BY DEF Named
<1>2. ASSUME NEW p \in Paths PROVE Heard(p)'
  <2>1. unheard'[p] = FieldsOf(has[p]) /\ FieldsOf(has[p])' = FieldsOf(has[p])
    BY DEF End, FieldsOf
  <2>2. Due(p)' = {}
    BY <2>1 DEF Due
  <2> QED
    BY <2>2 DEF Heard
<1> QED
  BY <1>1, <1>2 DEF AllHeard

LEMMA AddInterfacesHeard ==
  ASSUME IInv, AllHeard, NEW p \in Paths, NEW s \in Services, AddInterfaces(p, s)
  PROVE  AllHeard'
<1>0. /\ UNCHANGED <<phase, reply, rows, item>>
      /\ Named /\ \A q \in Paths : Heard(q)
      /\ has = [q \in Paths |-> has[q]]
      /\ val = [q \in Paths |-> val[q]]
      /\ unheard = [q \in Paths |-> unheard[q]]
      /\ val[p] \in Published(FieldsOf(has[p]))
  BY DEF AddInterfaces, agent, AllHeard, IInv, ObjectsInv, UnheardInv
<1>1. PICK I \in (SUBSET {i \in Ifaces[Kind(p)] \ has[p] : Service[i] = s}) \ {{}} :
        \E fields \in Published(FieldsOf(I)) :
          /\ has' = [has EXCEPT ![p] = @ \union I]
          /\ val' = [val EXCEPT ![p] = Overlay(@, fields)]
          /\ inbox' = Route(InterfacesAdded(p, I, fields))
          /\ unheard' = [unheard EXCEPT
                ![p] = IF phase = "down" THEN @ \union FieldsOf(I)
                                         ELSE @ \ FieldsOf(I)]
  BY DEF AddInterfaces
<1>2. PICK fields \in Published(FieldsOf(I)) :
          /\ has' = [has EXCEPT ![p] = @ \union I]
          /\ val' = [val EXCEPT ![p] = Overlay(@, fields)]
          /\ inbox' = Route(InterfacesAdded(p, I, fields))
          /\ unheard' = [unheard EXCEPT
                ![p] = IF phase = "down" THEN @ \union FieldsOf(I)
                                         ELSE @ \ FieldsOf(I)]
  BY <1>1
<1> DEFINE m == InterfacesAdded(p, I, fields)
<1>3. I \in SUBSET Ifaces[Kind(p)]
  BY <1>1
<1>4. /\ m \in Message /\ m.path = p /\ m.type = "Added" /\ m.ifaces = I
      /\ m.fields = fields /\ DOMAIN fields = FieldsOf(I)
  <2>1. fields \in FieldsMap
    BY <1>2, <1>3, IsFieldsMap
  <2>2. DOMAIN fields = FieldsOf(I)
    BY <1>2, PublishedHas
  <2> QED
    BY <1>3, <2>1, <2>2, IfacesInUnion DEF InterfacesAdded, Message
<1>5. inbox' = IF phase = "down" THEN inbox ELSE Append(inbox, m)
  BY <1>2 DEF Route
<1>6. /\ has'[p] = has[p] \union I /\ val'[p] = Overlay(val[p], fields)
      /\ unheard'[p] = IF phase = "down" THEN unheard[p] \union FieldsOf(I)
                                         ELSE unheard[p] \ FieldsOf(I)
      /\ \A q \in Paths : q # p =>
            has'[q] = has[q] /\ val'[q] = val[q] /\ unheard'[q] = unheard[q]
  BY <1>0, <1>2
<1>7. \A f \in FieldsOf(has[p]) \union FieldsOf(I) :
        val'[p][f] = IF f \in FieldsOf(I) THEN fields[f] ELSE val[p][f]
  <2>1. DOMAIN val[p] = FieldsOf(has[p])
    BY <1>0, PublishedHas
  <2> QED
    BY <1>4, <1>6, <2>1 DEF Overlay
<1> HIDE DEF m
<1>8. Named'
  <2>1. \/ UNCHANGED inbox
        \/ /\ inbox' = Append(inbox, m)
           /\ m.type = "Added" => /\ m.ifaces \subseteq Ifaces[Kind(m.path)]
                                  /\ DOMAIN m.fields \subseteq FieldsOf(m.ifaces)
    BY <1>3, <1>4, <1>5
  <2> QED
    BY <1>0, <1>4, <2>1, NamedStays
<1>9. ASSUME NEW q \in Paths, q # p PROVE Heard(q)'
  <2>1. UNCHANGED inbox \/ inbox' = Append(inbox, m)
    BY <1>5
  <2> QED
    BY <1>0, <1>4, <1>6, <1>9, <2>1, OthersHeard
<1>10. FieldsOf(has[p])' = FieldsOf(has[p]) \union FieldsOf(I)
  <2>1. FieldsOf(has[p])' = FieldsOf(has'[p])
    BY DEF FieldsOf
  <2> QED
    BY <1>6, <2>1, FieldsOfUnion
<1>11. ASSUME NEW f \in FieldsOf(I), phase # "down" PROVE Arrives(p, f)'
  <2>1. Carries(p, f, m)
    BY <1>4 DEF Carries
  <2>2. PICK n \in DOMAIN inbox' : inbox'[n] = m /\ LastWord(p, f, n)'
    BY <1>4, <1>5, <1>11, <2>1, WordSaid DEF Matters
  <2>3. m.fields[f] = val'[p][f]
    BY <1>4, <1>7
  <2>4. Brings(p, f, inbox[n])'
    BY <1>4, <2>1, <2>2, <2>3 DEF Brings, Carries
  <2> QED
    BY <2>2, <2>4 DEF Arrives
<1>12. ASSUME NEW f, f \notin FieldsOf(I) PROVE Joined(p, f)
  <2>1. ~Matters(p, f, m)
    BY <1>4, <1>12 DEF Matters, Carries, Drops
  <2> QED
    BY <1>4, <1>5, <2>1 DEF Joined
<1>13. ASSUME NEW f \in Due(p)' PROVE Arrives(p, f)'
  <2>1. /\ f \in FieldsOf(has[p]) \union FieldsOf(I)
        /\ f \in ItemFields(Kind(p)) /\ f \notin unheard'[p]
    BY <1>10, <1>13 DEF Due
  <2>2. CASE f \in FieldsOf(I)
    BY <1>6, <1>11, <2>1, <2>2
  <2>3. CASE f \notin FieldsOf(I)
    <3>1. f \in Due(p)
      BY <1>6, <2>1, <2>3 DEF Due
    <3>2. Arrives(p, f) /\ val'[p][f] = val[p][f]
      BY <1>0, <1>7, <2>1, <2>3, <3>1 DEF Heard
    <3> QED
      BY <1>0, <1>12, <2>3, <3>2, ArrivesStays
  <2> QED
    BY <2>2, <2>3
<1>14. Heard(p)'
  BY <1>13 DEF Heard
<1> QED
  BY <1>8, <1>9, <1>14 DEF AllHeard

\* A change is on its way behind nothing that drops the row, or unheard.
LEMMA ChangePropertyHeard ==
  ASSUME IInv, AllHeard, NEW p \in Paths, ChangeProperty(p)
  PROVE  AllHeard'
<1>0. /\ UNCHANGED <<has, phase, reply, rows, item>>
      /\ Named /\ \A q \in Paths : Heard(q)
      /\ val = [q \in Paths |-> val[q]]
      /\ unheard = [q \in Paths |-> unheard[q]]
      /\ val[p] \in Published(FieldsOf(has[p])) /\ has[p] \in SUBSET Ifaces[Kind(p)]
  BY DEF ChangeProperty, agent, AllHeard, IInv, ObjectsInv, UnheardInv
<1>1. PICK f \in DOMAIN val[p] : \E x \in Payload(f) \ {val[p][f]} :
          /\ val' = [val EXCEPT ![p][f] = x]
          /\ inbox' = IF p \in rows
                      THEN Append(inbox, PropertiesChanged(p, [g \in {f} |-> x]))
                      ELSE inbox
          /\ unheard' = [unheard EXCEPT
                ![p] = IF Listens(p) THEN @ \ {f} ELSE @ \union {f}]
  BY DEF ChangeProperty
<1>2. PICK x \in Payload(f) :
          /\ val' = [val EXCEPT ![p][f] = x]
          /\ inbox' = IF p \in rows
                      THEN Append(inbox, PropertiesChanged(p, [g \in {f} |-> x]))
                      ELSE inbox
          /\ unheard' = [unheard EXCEPT
                ![p] = IF Listens(p) THEN @ \ {f} ELSE @ \union {f}]
  BY <1>1
<1> DEFINE c == [g \in {f} |-> x]
           m == PropertiesChanged(p, c)
<1>3. /\ m \in Message /\ m.path = p /\ m.type = "Changed"
      /\ DOMAIN m.fields = {f} /\ m.fields[f] = x
  <2>1. c \in Published({f}) /\ DOMAIN c = {f} /\ c[f] = x
    BY <1>2, PublishedBy
  <2>2. {f} \in SUBSET FieldsOf(has[p])
    BY <1>0, <1>1, PublishedHas
  <2> HIDE DEF c
  <2>3. c \in FieldsMap
    BY <1>0, <2>1, <2>2, IsFieldsMap
  <2>4. {} \in UNION {SUBSET Ifaces[kind] : kind \in Kinds}
    BY IfacesInUnion
  <2> QED
    BY <2>1, <2>3, <2>4 DEF PropertiesChanged, Message
<1>4. inbox' = IF p \in rows THEN Append(inbox, m) ELSE inbox
  BY <1>2
<1>5. /\ val'[p][f] = x
      /\ \A g : g # f => val'[p][g] = val[p][g]
      /\ unheard'[p] = IF Listens(p) THEN unheard[p] \ {f} ELSE unheard[p] \union {f}
      /\ \A q \in Paths : q # p => val'[q] = val[q] /\ unheard'[q] = unheard[q]
  <2>1. val'[p] = [val[p] EXCEPT ![f] = x]
    BY <1>0, <1>2
  <2>2. \A g : g # f => val'[p][g] = val[p][g]
    BY <2>1
  <2>3. val'[p][f] = x
    BY <1>1, <2>1
  <2>4. \A q \in Paths : q # p => val'[q] = val[q] /\ unheard'[q] = unheard[q]
    BY <1>0, <1>2
  <2>5. unheard'[p] = IF Listens(p) THEN unheard[p] \ {f} ELSE unheard[p] \union {f}
    BY <1>0, <1>2
  <2> QED
    BY <2>2, <2>3, <2>4, <2>5
<1> HIDE DEF c, m
<1>6. Named'
  <2>1. UNCHANGED inbox \/ inbox' = Append(inbox, m)
    BY <1>4
  <2> QED
    BY <1>0, <1>3, <2>1, NamedStays
<1>7. ASSUME NEW q \in Paths, q # p PROVE Heard(q)'
  <2>1. UNCHANGED inbox \/ inbox' = Append(inbox, m)
    BY <1>4
  <2> QED
    BY <1>0, <1>3, <1>5, <1>7, <2>1, OthersHeard
<1>8. ASSUME NEW g, g # f PROVE Joined(p, g)
  <2>1. ~Matters(p, g, m)
    BY <1>3, <1>8 DEF Matters, Carries, Drops
  <2> QED
    BY <1>3, <1>4, <2>1 DEF Joined
<1>9. ASSUME Listens(p) PROVE Arrives(p, f)'
  <2>1. p \in rows /\ Undropped(p)
    BY <1>9 DEF Listens, Undropped, Drops
  <2>2. Carries(p, f, m) /\ ~Drops(p, m)
    BY <1>3 DEF Carries, Drops
  <2>3. PICK n \in DOMAIN inbox' : inbox'[n] = m /\ LastWord(p, f, n)'
    BY <1>3, <1>4, <2>1, <2>2, WordSaid DEF Matters
  <2>4. Undropped(p)'
    BY <1>3, <1>4, <2>1, <2>2, UndroppedStays
  <2>5. Brings(p, f, inbox[n])'
    BY <1>0, <1>3, <1>5, <2>1, <2>2, <2>3, <2>4 DEF Brings, Carries
  <2> QED
    BY <2>3, <2>5 DEF Arrives
<1>10. ASSUME NEW g \in Due(p)' PROVE Arrives(p, g)'
  <2>1. g \in FieldsOf(has[p]) /\ g \in ItemFields(Kind(p)) /\ g \notin unheard'[p]
    BY <1>0, <1>10 DEF Due, FieldsOf
  <2>2. CASE g = f
    BY <1>5, <1>9, <2>1, <2>2
  <2>3. CASE g # f
    <3>1. g \in Due(p)
      BY <1>5, <2>1, <2>3 DEF Due
    <3>2. Arrives(p, g) /\ val'[p][g] = val[p][g]
      BY <1>0, <1>5, <2>3, <3>1 DEF Heard
    <3> QED
      BY <1>0, <1>8, <2>3, <3>2, ArrivesStays
  <2> QED
    BY <2>2, <2>3
<1>11. Heard(p)'
  BY <1>10 DEF Heard
<1> QED
  BY <1>6, <1>7, <1>11 DEF AllHeard

\* An interface that the table owns takes the whole row with it, one that it
\* does not own has no field of a row.
LEMMA RemoveInterfacesHeard ==
  ASSUME IInv, AllHeard, NEW p \in Paths, NEW s \in Services, RemoveInterfaces(p, s)
  PROVE  AllHeard'
<1>0. /\ UNCHANGED <<phase, reply, rows, item>>
      /\ Named /\ \A q \in Paths : Heard(q)
      /\ has = [q \in Paths |-> has[q]]
      /\ val = [q \in Paths |-> val[q]]
      /\ unheard = [q \in Paths |-> unheard[q]]
      /\ val[p] \in Published(FieldsOf(has[p])) /\ has[p] \in SUBSET Ifaces[Kind(p)]
  BY DEF RemoveInterfaces, agent, AllHeard, IInv, ObjectsInv, UnheardInv
<1>1. PICK I \in (SUBSET Of(p, s)) \ {{}} :
          /\ has' = [has EXCEPT ![p] = @ \ I]
          /\ val' = [val EXCEPT ![p] = Only(@, FieldsOf(has[p] \ I))]
          /\ inbox' = Route(InterfacesRemoved(p, I))
          /\ unheard' = [unheard EXCEPT
                ![p] = IF Owned(p, I) THEN FieldsOf(has[p] \ I)
                                      ELSE @ \ FieldsOf(I)]
  BY DEF RemoveInterfaces
<1> DEFINE m == InterfacesRemoved(p, I)
           left == FieldsOf(has[p] \ I)
<1>2. I \subseteq has[p] /\ I \in SUBSET Ifaces[Kind(p)]
  BY <1>0, <1>1 DEF Of
<1>3. m \in Message /\ m.path = p /\ m.type = "Removed" /\ m.ifaces = I
  BY <1>2, IfacesInUnion, NoFieldsIsFieldsMap DEF InterfacesRemoved, Message
<1>4. inbox' = inbox \/ inbox' = Append(inbox, m)
  BY <1>1 DEF Route
<1>5. /\ has'[p] = has[p] \ I /\ val'[p] = Only(val[p], left)
      /\ unheard'[p] = IF Owned(p, I) THEN left ELSE unheard[p] \ FieldsOf(I)
      /\ \A q \in Paths : q # p =>
            has'[q] = has[q] /\ val'[q] = val[q] /\ unheard'[q] = unheard[q]
  BY <1>0, <1>1
<1>6. FieldsOf(has[p]) = left \union FieldsOf(I)
  <2>1. has[p] = (has[p] \ I) \union I
    BY <1>2
  <2> QED
    BY <2>1, FieldsOfUnion
<1>7. \A f \in left : val'[p][f] = val[p][f]
  <2>1. DOMAIN val[p] = FieldsOf(has[p])
    BY <1>0, PublishedHas
  <2> QED
    BY <1>5, <1>6, <2>1 DEF Only
<1> HIDE DEF m, left
<1>8. Named'
  BY <1>0, <1>3, <1>4, NamedStays
<1>9. ASSUME NEW q \in Paths, q # p PROVE Heard(q)'
  BY <1>0, <1>3, <1>4, <1>5, <1>9, OthersHeard
<1>10. FieldsOf(has[p])' = left
  BY <1>5 DEF FieldsOf, left
<1>11. ASSUME NEW f \in Due(p)' PROVE Arrives(p, f)'
  <2>1. f \in left /\ f \in ItemFields(Kind(p)) /\ f \notin unheard'[p]
    BY <1>10, <1>11 DEF Due
  <2>2. ~Owned(p, I)
    BY <1>5, <2>1
  <2>3. f \notin FieldsOf(I)
    BY <1>2, <2>1, <2>2, FieldsAreOwned
  <2>4. f \in Due(p)
    BY <1>5, <1>6, <2>1, <2>2, <2>3 DEF Due
  <2>5. Joined(p, f)
    <3>1. ~Matters(p, f, m)
      BY <1>3, <2>2 DEF Matters, Carries, Drops
    <3> QED
      BY <1>3, <1>4, <3>1 DEF Joined
  <2> QED
    BY <1>0, <1>7, <2>1, <2>4, <2>5, ArrivesStays DEF Heard
<1>12. Heard(p)'
  BY <1>11 DEF Heard
<1> QED
  BY <1>8, <1>9, <1>12 DEF AllHeard

-----------------------------------------------------------------------------
(* The initial updates and the values.                                     *)

\* What a step that leaves the queue alone says of it.
LEMMA SameQueue ==
  ASSUME UNCHANGED inbox, NEW q, NEW f
  PROVE  /\ Silent(q, f)' <=> Silent(q, f)
         /\ \A n \in DOMAIN inbox : LastWord(q, f, n)' <=> LastWord(q, f, n)
         /\ Undropped(q)' <=> Undropped(q)
  BY DEF Silent, LastWord, Undropped, Matters, Carries, Drops, Owned

\* What is on its way in the queue stays there while no row goes.
LEMMA BroughtStays ==
  ASSUME UNCHANGED <<val, inbox>>, rows \subseteq rows', NEW q, NEW f,
         NEW n \in DOMAIN inbox, LastWord(q, f, n), Brings(q, f, inbox[n])
  PROVE  Arrives(q, f)'
<1>1. Brings(q, f, inbox[n])'
  BY SameQueue DEF Brings, Carries
<1> QED
  BY <1>1, SameQueue DEF Arrives

\* The reply has what the service publishes now.  If signals of the object are
\* queued they say what the reply may lack.
LEMMA GetAllHeard ==
  ASSUME IInv, AllHeard, NEW p \in Paths, NEW s \in Services, GetAll(p, s)
  PROVE  AllHeard'
<1>9. PICK F : /\ reply' = {[path |-> p, fields |-> Only(val[p], F)]}
               /\ unheard' = [unheard EXCEPT ![p] = IF Queued(p) THEN @ ELSE @ \ F]
  BY DEF GetAll
<1> DEFINE fields == Only(val[p], F)
<1>0. /\ UNCHANGED <<has, val, inbox, rows, item>>
      /\ reply = {} /\ reply' = {[path |-> p, fields |-> fields]}
      /\ Named /\ \A q \in Paths : Heard(q)
      /\ unheard = [q \in Paths |-> unheard[q]]
      /\ DOMAIN val[p] = FieldsOf(has[p])
  <2>1. val[p] \in Published(FieldsOf(has[p]))
    BY DEF IInv, ObjectsInv
  <2> QED
    BY <1>9, <2>1, PublishedHas DEF GetAll, AllHeard, IInv, UnheardInv
<1>1. /\ \A q \in Paths : q # p => unheard'[q] = unheard[q]
      /\ unheard'[p] = IF Queued(p) THEN unheard[p] ELSE unheard[p] \ F
  BY <1>0, <1>9
<1>2. /\ \A f : f \in DOMAIN fields <=> f \in FieldsOf(has[p]) /\ f \in F
      /\ \A f \in DOMAIN fields : fields[f] = val[p][f]
  BY <1>0 DEF Only
<1> HIDE DEF fields
<1>3. Named'
  BY <1>0, NamedStays
<1>4. \A q : FieldsOf(has[q])' = FieldsOf(has[q])
  BY <1>0 DEF FieldsOf
<1>5. ASSUME NEW f \in DOMAIN fields PROVE InReply(p, f)'
  BY <1>0, <1>2, <1>5 DEF InReply
<1>6. ASSUME NEW q \in Paths, NEW f \in Due(q) PROVE Arrives(q, f)'
  <2>1. Arrives(q, f) /\ ~InReply(q, f)
    BY <1>0, <1>6 DEF Heard, InReply
  <2>2. CASE Silent(q, f) /\ InRow(q, f)
    <3>1. CASE q = p /\ f \in DOMAIN fields
      BY <1>0, <1>5, <2>2, <3>1, SameQueue DEF Arrives
    <3>2. CASE ~(q = p /\ f \in DOMAIN fields)
      <4>1. \A r \in reply' : r.path = q => f \notin DOMAIN r.fields
        BY <1>0, <3>2
      <4>2. InRow(q, f)'
        BY <1>0, <2>2, <4>1 DEF InRow
      <4> QED
        BY <1>0, <2>2, <4>2, SameQueue DEF Arrives
    <3> QED
      BY <3>1, <3>2
  <2>3. ASSUME NEW n \in DOMAIN inbox, LastWord(q, f, n), Brings(q, f, inbox[n])
        PROVE  Arrives(q, f)'
    BY <1>0, <2>3, BroughtStays
  <2> QED
    BY <2>1, <2>2, <2>3 DEF Arrives
<1>7. ASSUME NEW f \in F, ~Queued(p), f \in FieldsOf(has[p]) PROVE Arrives(p, f)'
  <2>1. Silent(p, f)
    BY <1>7 DEF Silent, Queued, Matters, Carries, Drops
  <2>2. f \in DOMAIN fields
    BY <1>2, <1>7
  <2> QED
    BY <1>0, <1>5, <2>1, <2>2, SameQueue DEF Arrives
<1>8. ASSUME NEW q \in Paths, NEW f \in Due(q)' PROVE Arrives(q, f)'
  <2>1. f \in FieldsOf(has[q]) /\ f \in ItemFields(Kind(q)) /\ f \notin unheard'[q]
    BY <1>4, <1>8 DEF Due
  <2>2. CASE f \in unheard[q]
    BY <1>1, <1>7, <2>1, <2>2
  <2>3. CASE f \notin unheard[q]
    BY <1>6, <2>1, <2>3 DEF Due
  <2> QED
    BY <2>2, <2>3
<1> QED
  BY <1>3, <1>8 DEF AllHeard, Heard

\* The row has what the reply has, and of the rest what it had.
LEMMA StoreHeard == ASSUME IInv, AllHeard, Store PROVE AllHeard'
<1>1. PICK r \in reply :
        IF Throws(Kind(r.path), r.fields)
        THEN End /\ inbox' = <<>> /\ todo' = {}
        ELSE /\ Keep(r.path, setFieldsOf(r.path, getItem(r.path), r.fields))
             /\ UNCHANGED <<inbox, todo>>
  BY DEF Store
<1>2. reply' = {} /\ UNCHANGED <<has, val>> /\ Named /\ \A q \in Paths : Heard(q)
  BY DEF Store, AllHeard
<1>3. r.path \in Paths /\ reply = {r}
  BY DEF IInv, ControlInv, Replies
<1>4. CASE Throws(Kind(r.path), r.fields)
  BY <1>1, <1>2, <1>4, EndHeard
<1>5. CASE ~Throws(Kind(r.path), r.fields)
  <2> DEFINE p == r.path
             row == setFieldsOf(p, getItem(p), r.fields)
  <2>1. Keep(p, row) /\ UNCHANGED inbox
    BY <1>1, <1>5
  <2>2. \A f \in ItemFields(Kind(p)) : row.item[f] = Set(item[p], r.fields, f)
    BY <1>3, GetItemGood, SetOne DEF IInv
  <2> HIDE DEF row
  <2>3. /\ rows' = rows \union {p} /\ item'[p] = row.item
        /\ \A q \in Paths : q # p => item'[q] = item[q]
    BY <1>3, <2>1, KeepItem
  <2>4. unheard' = unheard
    BY <2>1 DEF Keep
  <2>5. \A q : Due(q)' = Due(q)
    BY <1>2, <2>4 DEF Due, FieldsOf
  <2>6. Named'
    BY <1>2, <2>1, NamedStays
  <2>7. ASSUME NEW q \in Paths, NEW f \in Due(q) PROVE Arrives(q, f)'
    <3>0. Arrives(q, f) /\ f \in ItemFields(Kind(q))
      BY <1>2, <2>7 DEF Heard, Due
    <3>1. CASE Silent(q, f) /\ InReply(q, f)
      <4>1. q = p /\ f \in DOMAIN r.fields /\ r.fields[f] = val[q][f]
        BY <1>3, <3>1 DEF InReply
      <4>2. item'[q][f] = Set(item[p], r.fields, f)
        BY <2>2, <2>3, <3>0, <4>1
      <4>3. InRow(q, f)'
        BY <1>2, <2>3, <4>1, <4>2 DEF InRow, Set
      <4> QED
        BY <2>1, <3>1, <4>3, SameQueue DEF Arrives
    <3>2. CASE Silent(q, f) /\ InRow(q, f)
      <4>1. item'[q][f] = item[q][f]
        <5>1. CASE q = p
          <6>1. f \notin DOMAIN r.fields
            BY <1>3, <3>2, <5>1 DEF InRow
          <6> QED
            BY <2>2, <2>3, <3>0, <5>1, <6>1 DEF Set
        <5>2. CASE q # p
          BY <2>3, <5>2
        <5> QED
          BY <5>1, <5>2
      <4>2. InRow(q, f)'
        BY <1>2, <2>3, <3>2, <4>1 DEF InRow
      <4> QED
        BY <2>1, <3>2, <4>2, SameQueue DEF Arrives
    <3>3. ASSUME NEW n \in DOMAIN inbox, LastWord(q, f, n), Brings(q, f, inbox[n])
          PROVE  Arrives(q, f)'
      BY <1>2, <2>1, <2>3, <3>3, BroughtStays
    <3> QED
      BY <3>0, <3>1, <3>2, <3>3 DEF Arrives
  <2> QED
    BY <2>5, <2>6, <2>7 DEF AllHeard, Heard
<1> QED
  BY <1>4, <1>5

-----------------------------------------------------------------------------
(* The event loop and the values.                                          *)

\* The head of the queue is handled.  Only the changes for a row that it drops
\* may be orphaned.
Handled ==
    /\ DOMAIN inbox' = 1 .. Len(inbox) - 1
    /\ \A n \in 1 .. Len(inbox) - 1 :
          /\ inbox'[n].path = inbox[n + 1].path
          /\ inbox'[n].ifaces = inbox[n + 1].ifaces
          /\ inbox'[n].fields = inbox[n + 1].fields
          /\ \/ inbox'[n].type = inbox[n + 1].type
             \/ /\ Drops(inbox[n + 1].path, inbox[1])
                /\ inbox[n + 1].type = "Changed"
                /\ inbox'[n].type = "Unmatched"

LEMMA TailHandles ==
  ASSUME IInv, inbox # <<>>, inbox' = Tail(inbox)
  PROVE  Handled
<1>1. inbox \in Seq(Message)
  BY DEF IInv, QueueInv
<1> QED
  BY <1>1, HeadTailProperties, LenProperties DEF Handled

LEMMA HandledDomain ==
  ASSUME IInv, inbox # <<>>, Handled
  PROVE  /\ Len(inbox) \in Nat /\ Len(inbox) >= 1 /\ 1 \in DOMAIN inbox
         /\ DOMAIN inbox = 1 .. Len(inbox)
         /\ \A n \in DOMAIN inbox' :
               n \in 1 .. Len(inbox) - 1 /\ n + 1 \in DOMAIN inbox /\ n + 1 > 1
         /\ \A n \in DOMAIN inbox : n # 1 =>
               \E k \in DOMAIN inbox' : k \in 1 .. Len(inbox) - 1 /\ k + 1 = n
<1>1. /\ Len(inbox) \in Nat /\ Len(inbox) >= 1
      /\ DOMAIN inbox = 1 .. Len(inbox) /\ DOMAIN inbox' = 1 .. Len(inbox) - 1
  BY QueueDomain DEF Handled
<1>2. ASSUME NEW n \in DOMAIN inbox, n # 1
      PROVE  \E k \in DOMAIN inbox' : k \in 1 .. Len(inbox) - 1 /\ k + 1 = n
  <2>1. n - 1 \in 1 .. Len(inbox) - 1 /\ (n - 1) + 1 = n
    BY <1>1, <1>2
  <2> QED
    BY <1>1, <2>1
<1> QED
  BY <1>1, <1>2

\* A message says in its new place what it said before, or is orphaned.
LEMMA SameWord ==
  ASSUME Handled, NEW p, NEW f, NEW n \in 1 .. Len(inbox) - 1
  PROVE  /\ Matters(p, f, inbox[n])' => Matters(p, f, inbox[n + 1])
         /\ inbox'[n].type = inbox[n + 1].type
                => (Matters(p, f, inbox[n])' <=> Matters(p, f, inbox[n + 1]))
  BY DEF Handled, Matters, Carries, Drops, Owned

LEMMA WordGone ==
  ASSUME IInv, inbox # <<>>, Handled, NEW p, NEW f,
         Silent(p, f) \/ LastWord(p, f, 1)
  PROVE  Silent(p, f)'
<1>1. \A k \in DOMAIN inbox : k > 1 => ~Matters(p, f, inbox[k])
  BY DEF Silent, LastWord
<1>2. ASSUME NEW n \in DOMAIN inbox' PROVE ~Matters(p, f, inbox[n])'
  BY <1>1, <1>2, HandledDomain, SameWord
<1> QED
  BY <1>2 DEF Silent

LEMMA WordMoves ==
  ASSUME IInv, inbox # <<>>, Handled, NEW p, NEW f,
         NEW n \in DOMAIN inbox, n # 1, LastWord(p, f, n),
         inbox[n].type = "Changed" => ~Drops(inbox[n].path, inbox[1])
  PROVE  \E k \in DOMAIN inbox' :
            /\ LastWord(p, f, k)'
            /\ inbox'[k].path = inbox[n].path
            /\ inbox'[k].type = inbox[n].type
            /\ inbox'[k].fields = inbox[n].fields
<1>1. PICK k \in DOMAIN inbox' : k \in 1 .. Len(inbox) - 1 /\ k + 1 = n
  BY HandledDomain
<1>2. /\ inbox'[k].path = inbox[n].path
      /\ inbox'[k].type = inbox[n].type
      /\ inbox'[k].fields = inbox[n].fields
  BY <1>1 DEF Handled
<1>3. Matters(p, f, inbox[k])'
  BY <1>1, <1>2, SameWord DEF LastWord
<1>4. ASSUME NEW j \in DOMAIN inbox', j > k PROVE ~Matters(p, f, inbox[j])'
  <2>1. j + 1 \in DOMAIN inbox /\ j + 1 > n /\ j \in 1 .. Len(inbox) - 1
    BY <1>1, <1>4, HandledDomain
  <2> QED
    BY <2>1, SameWord DEF LastWord
<1>5. LastWord(p, f, k)'
  BY <1>3, <1>4 DEF LastWord
<1> QED
  BY <1>1, <1>2, <1>5

LEMMA UndroppedMoves ==
  ASSUME IInv, inbox # <<>>, Handled, NEW p, Undropped(p)
  PROVE  Undropped(p)'
<1>1. ASSUME NEW n \in DOMAIN inbox' PROVE ~Drops(p, inbox[n])'
  <2>1. n + 1 \in DOMAIN inbox /\ n \in 1 .. Len(inbox) - 1
    BY <1>1, HandledDomain
  <2>2. ~Drops(p, inbox[n + 1])
    BY <2>1 DEF Undropped
  <2> QED
    BY <2>1, <2>2 DEF Handled, Drops, Owned
<1> QED
  BY <1>1 DEF Undropped

LEMMA NamedMoves ==
  ASSUME IInv, inbox # <<>>, Handled, Named
  PROVE  Named'
<1>1. ASSUME NEW n \in DOMAIN inbox', inbox'[n].type = "Added"
      PROVE  /\ inbox'[n].ifaces \subseteq Ifaces[Kind(inbox'[n].path)]
             /\ DOMAIN inbox'[n].fields \subseteq FieldsOf(inbox'[n].ifaces)
  <2>1. n + 1 \in DOMAIN inbox /\ n \in 1 .. Len(inbox) - 1
    BY <1>1, HandledDomain
  <2>2. /\ inbox[n + 1].type = "Added" /\ inbox'[n].fields = inbox[n + 1].fields
        /\ inbox'[n].ifaces = inbox[n + 1].ifaces /\ inbox'[n].path = inbox[n + 1].path
    BY <1>1, <2>1 DEF Handled
  <2>3. /\ inbox[n + 1].ifaces \subseteq Ifaces[Kind(inbox[n + 1].path)]
        /\ DOMAIN inbox[n + 1].fields \subseteq FieldsOf(inbox[n + 1].ifaces)
    BY <2>1, <2>2 DEF Named
  <2> QED
    BY <2>2, <2>3
<1> QED
  BY <1>1 DEF Named, FieldsOf, Kind

\* What the message at the head does to the row of q.
Takes(q, m) ==
    /\ m.path = q
    /\ \/ m.type = "Added" /\ Owned(q, m.ifaces)
       \/ m.type = "Changed" /\ q \in rows
Effect(q, m) ==
    /\ Takes(q, m) => /\ q \in rows'
                      /\ \A f \in ItemFields(Kind(q)) :
                            item'[q][f] = Set(item[q], m.fields, f)
    /\ ~Drops(q, m) /\ ~Takes(q, m) =>
            (q \in rows' <=> q \in rows) /\ item'[q] = item[q]
AtHead == inbox # <<>> /\ reply = {} /\ UNCHANGED <<has, val, reply, unheard>>

LEMMA HandledHeard ==
  ASSUME IInv, AllHeard, AtHead, Handled, NEW q \in Paths, Effect(q, inbox[1])
  PROVE  Heard(q)'
<1> DEFINE m == inbox[1]
<1>0. /\ Named /\ Heard(q) /\ inbox # <<>> /\ reply = {}
      /\ UNCHANGED <<has, val, reply, unheard>>
      /\ 1 \in DOMAIN inbox
      /\ Undropped(q) => Undropped(q)'
  BY HandledDomain, UndroppedMoves DEF AllHeard, AtHead
<1>1. Due(q)' = Due(q)
  BY <1>0 DEF Due, FieldsOf
<1>2. ASSUME NEW f \in Due(q) PROVE Arrives(q, f)'
  <2>0. Arrives(q, f) /\ f \in ItemFields(Kind(q))
    BY <1>0, <1>2 DEF Heard, Due
  <2>1. CASE Silent(q, f) /\ (InReply(q, f) \/ InRow(q, f))
    <3>1. InRow(q, f) /\ ~Matters(q, f, m)
      BY <1>0, <2>1 DEF InReply, Silent
    <3>2. Takes(q, m) => f \notin DOMAIN m.fields
      BY <3>1 DEF Matters, Carries, Takes
    <3>3. q \in rows' /\ item'[q][f] = item[q][f]
      BY <2>0, <3>1, <3>2 DEF Effect, Set, Matters, InRow
    <3>4. InRow(q, f)'
      BY <1>0, <3>1, <3>3 DEF InRow
    <3> QED
      BY <1>0, <2>1, <3>4, WordGone DEF Arrives
  <2>2. CASE LastWord(q, f, 1) /\ Brings(q, f, m)
    <3>1. m.path = q /\ f \in DOMAIN m.fields /\ m.fields[f] = val[q][f]
      BY <2>2 DEF Brings, Carries
    <3>2. Takes(q, m)
      <4>1. CASE m.type = "Added"
        <5>1. m.ifaces \in SUBSET Ifaces[Kind(q)] /\ f \in FieldsOf(m.ifaces)
          BY <1>0, <3>1, <4>1 DEF Named
        <5>2. Owned(q, m.ifaces)
          BY <2>0, <5>1, FieldsAreOwned
        <5> QED
          BY <3>1, <4>1, <5>2 DEF Takes
      <4>2. CASE m.type = "Changed"
        BY <2>2, <3>1, <4>2 DEF Brings, Takes
      <4> QED
        BY <2>2, <4>1, <4>2 DEF Brings, Carries
    <3>3. q \in rows' /\ item'[q][f] = Set(item[q], m.fields, f)
      BY <2>0, <3>2 DEF Effect
    <3>4. InRow(q, f)'
      BY <1>0, <3>1, <3>3 DEF InRow, Set
    <3> QED
      BY <1>0, <2>2, <3>4, WordGone DEF Arrives
  <2>3. ASSUME NEW n \in DOMAIN inbox, n # 1, LastWord(q, f, n),
               Brings(q, f, inbox[n])
        PROVE  Arrives(q, f)'
    <3>1. /\ inbox[n].path = q
          /\ inbox[n].type = "Changed" => q \in rows /\ Undropped(q)
      BY <2>3 DEF Brings, Carries
    <3>2. inbox[n].type = "Changed" => ~Drops(q, inbox[1])
      BY <1>0, <3>1 DEF Undropped
    <3>3. PICK k \in DOMAIN inbox' :
            /\ LastWord(q, f, k)'
            /\ inbox'[k].path = inbox[n].path
            /\ inbox'[k].type = inbox[n].type
            /\ inbox'[k].fields = inbox[n].fields
      BY <1>0, <2>3, <3>1, <3>2, WordMoves
    <3>4. inbox[n].type = "Changed" => q \in rows'
      BY <3>1, <3>2 DEF Effect
    <3>5. Brings(q, f, inbox[k])'
      BY <1>0, <2>3, <3>1, <3>3, <3>4 DEF Brings, Carries
    <3> QED
      BY <3>3, <3>5 DEF Arrives
  <2> QED
    BY <2>0, <2>1, <2>2, <2>3 DEF Arrives
<1> QED
  BY <1>1, <1>2 DEF Heard

LEMMA AllHandled ==
  ASSUME IInv, AllHeard, AtHead, Handled, \A q \in Paths : Effect(q, inbox[1])
  PROVE  AllHeard'
<1>1. inbox # <<>> /\ Named
  BY DEF AtHead, AllHeard
<1> QED
  BY <1>1, NamedMoves, HandledHeard DEF AllHeard

LEMMA IgnoredHeard ==
  ASSUME IInv, AllHeard, AtHead, inbox' = Tail(inbox), Ignore,
         \A q \in Paths : ~Takes(q, inbox[1])
  PROVE  AllHeard'
<1>1. \A q \in Paths : Effect(q, inbox[1])
  BY DEF Effect, Ignore
<1>2. Handled
  BY TailHandles DEF AtHead
<1> QED
  BY <1>1, <1>2, AllHandled

\* The row of p takes what the message at the head has.
LEMMA TakenHeard ==
  ASSUME IInv, AllHeard, AtHead, inbox' = Tail(inbox), NEW p \in Paths, NEW row,
         Keep(p, row), Takes(p, inbox[1]),
         \A f \in ItemFields(Kind(p)) : row.item[f] = Set(item[p], inbox[1].fields, f)
  PROVE  AllHeard'
<1>1. /\ rows' = rows \union {p} /\ item'[p] = row.item
      /\ \A q \in Paths : q # p => item'[q] = item[q]
  BY KeepItem
<1>2. inbox[1].path = p
  BY DEF Takes
<1>3. \A q \in Paths : Effect(q, inbox[1])
  <2>1. Effect(p, inbox[1])
    BY <1>1 DEF Effect
  <2>2. \A q \in Paths : q # p => Effect(q, inbox[1])
    BY <1>1, <1>2 DEF Effect, Takes
  <2> QED
    BY <2>1, <2>2
<1>4. Handled
  BY TailHandles DEF AtHead
<1> QED
  BY <1>3, <1>4, AllHandled

LEMMA Dispatching ==
  ASSUME IInv, NEW type, Dispatch(type), unheard' = unheard
  PROVE  AtHead
  BY Dispatched DEF AtHead, Dispatch

LEMMA AddedHeard == ASSUME IInv, AllHeard, onInterfacesAdded PROVE AllHeard'
<1> DEFINE m == Head(inbox)
           p == m.path
           From(row, i) == setFieldsOf(p, row, Only(m.fields, IfaceFields(i)))
           row1 == IF p \in Inventory
                   THEN From(From(From(From(getItem(p),
                            "Asset"), "Revision"), "Item"), "Status")
                   ELSE From(From(From(getItem(p),
                            "Activation"), "Priority"), "Version")
<1>1. Dispatch("Added") /\ inbox # <<>> /\ m.type = "Added"
  BY DEF onInterfacesAdded, Dispatch
<1>2. m = inbox[1] /\ p \in Paths /\ UNCHANGED <<has, val>>
  BY <1>1, Dispatched, QueueDomain
<1>3. CASE ~Owned(p, m.ifaces)
  <2>1. Ignore /\ inbox' = Tail(inbox)
    BY <1>3 DEF onInterfacesAdded
  <2>2. AtHead
    BY <1>1, <2>1, Dispatching DEF Ignore
  <2>3. \A q \in Paths : ~Takes(q, inbox[1])
    BY <1>1, <1>2, <1>3 DEF Takes
  <2> QED
    BY <2>1, <2>2, <2>3, IgnoredHeard
<1>4. CASE Owned(p, m.ifaces) /\ Throws(Kind(p), m.fields)
  <2>1. End /\ inbox' = <<>>
    BY <1>4 DEF onInterfacesAdded
  <2> QED
    BY <1>2, <2>1, EndHeard
<1>5. CASE Owned(p, m.ifaces) /\ ~Throws(Kind(p), m.fields)
  <2>1. Keep(p, row1) /\ inbox' = Tail(inbox)
    BY <1>5 DEF onInterfacesAdded
  <2>2. GoodRow(p, getItem(p)) /\ getItem(p).item = item[p]
    BY <1>2, GetItemGood DEF IInv
  <2>3. ASSUME NEW f \in ItemFields(Kind(p))
        PROVE  row1.item[f] = Set(item[p], m.fields, f)
    <3>1. CASE p \in Inventory
      BY <2>2, <2>3, <3>1, SetInventory
    <3>2. CASE p \notin Inventory
      BY <1>2, <2>2, <2>3, <3>2, SetSoftware
    <3> QED
      BY <3>1, <3>2
  <2> HIDE DEF row1
  <2>4. AtHead
    BY <1>1, <2>1, Dispatching DEF Keep
  <2>5. Takes(p, inbox[1])
    BY <1>1, <1>2, <1>5 DEF Takes
  <2> HIDE DEF p, m
  <2>6. \A f \in ItemFields(Kind(p)) : row1.item[f] = Set(item[p], inbox[1].fields, f)
    BY <1>2, <2>3
  <2> QED
    BY <1>2, <2>1, <2>4, <2>5, <2>6, TakenHeard
<1> QED
  BY <1>3, <1>4, <1>5

LEMMA ChangedHeard == ASSUME IInv, AllHeard, onPropertiesChanged PROVE AllHeard'
<1> DEFINE m == Head(inbox)
           p == m.path
           row1 == setFieldsOf(p, getItem(p), m.fields)
<1>1. Dispatch("Changed") /\ inbox # <<>> /\ m.type = "Changed"
  BY DEF onPropertiesChanged, Dispatch
<1>2. m = inbox[1] /\ p \in Paths /\ UNCHANGED <<has, val>>
  BY <1>1, Dispatched, QueueDomain
<1>3. CASE p \notin rows
  <2>1. Ignore /\ inbox' = Tail(inbox)
    BY <1>3 DEF onPropertiesChanged
  <2>2. AtHead
    BY <1>1, <2>1, Dispatching DEF Ignore
  <2>3. \A q \in Paths : ~Takes(q, inbox[1])
    BY <1>1, <1>2, <1>3 DEF Takes
  <2> QED
    BY <2>1, <2>2, <2>3, IgnoredHeard
<1>4. CASE p \in rows /\ Throws(Kind(p), m.fields)
  <2>1. End /\ inbox' = <<>>
    BY <1>4 DEF onPropertiesChanged
  <2> QED
    BY <1>2, <2>1, EndHeard
<1>5. CASE p \in rows /\ ~Throws(Kind(p), m.fields)
  <2>1. Keep(p, row1) /\ inbox' = Tail(inbox)
    BY <1>5 DEF onPropertiesChanged
  <2>2. \A f \in ItemFields(Kind(p)) : row1.item[f] = Set(item[p], m.fields, f)
    BY <1>2, GetItemGood, SetOne DEF IInv
  <2> HIDE DEF row1
  <2>3. AtHead
    BY <1>1, <2>1, Dispatching DEF Keep
  <2>4. Takes(p, inbox[1])
    BY <1>1, <1>2, <1>5 DEF Takes
  <2> HIDE DEF p, m
  <2>5. \A f \in ItemFields(Kind(p)) : row1.item[f] = Set(item[p], inbox[1].fields, f)
    BY <1>2, <2>2
  <2> QED
    BY <1>2, <2>1, <2>3, <2>4, <2>5, TakenHeard
<1> QED
  BY <1>3, <1>4, <1>5

LEMMA RemovedHeard == ASSUME IInv, AllHeard, onInterfacesRemoved PROVE AllHeard'
<1> DEFINE m == Head(inbox)
           p == m.path
<1>1. Dispatch("Removed") /\ inbox # <<>> /\ m.type = "Removed"
  BY DEF onInterfacesRemoved, Dispatch
<1>2. m = inbox[1] /\ p \in Paths
  BY <1>1, Dispatched, QueueDomain
<1>3. \A q \in Paths : ~Takes(q, inbox[1])
  BY <1>1, <1>2 DEF Takes
<1>4. CASE Owned(p, m.ifaces) /\ p \in rows
  <2>1. dropItem(p)
    BY <1>4 DEF onInterfacesRemoved
  <2>2. rows' = rows \ {p} /\ \A q \in Paths : q # p => item'[q] = item[q]
    BY <1>2, <2>1 DEF dropItem, IInv, RowsInv
  <2>3. Drops(p, inbox[1])
    BY <1>1, <1>2, <1>4 DEF Drops
  <2>4. \A q \in Paths : Effect(q, inbox[1])
    BY <1>3, <2>2, <2>3 DEF Effect
  <2>5. AtHead
    BY <1>1, <2>1, Dispatching DEF dropItem
  <2>6. Handled
    <3>1. PICK orphaned \in BOOLEAN :
            inbox' = [n \in 1 .. Len(inbox) - 1 |->
              IF /\ orphaned
                 /\ inbox[n + 1].type = "Changed"
                 /\ inbox[n + 1].path = m.path
              THEN [inbox[n + 1] EXCEPT !.type = "Unmatched"]
              ELSE inbox[n + 1]]
      BY <1>4 DEF onInterfacesRemoved
    <3>2. ASSUME NEW n \in 1 .. Len(inbox) - 1 PROVE inbox[n + 1] \in Message
      <4>1. inbox \in Seq(Message) /\ Len(inbox) \in Nat
        BY <1>1, QueueDomain DEF IInv, QueueInv
      <4> QED
        BY <4>1, ElementOfSeq
    <3>3. ASSUME NEW n \in 1 .. Len(inbox) - 1
          PROVE  /\ inbox'[n].path = inbox[n + 1].path
                 /\ inbox'[n].ifaces = inbox[n + 1].ifaces
                 /\ inbox'[n].fields = inbox[n + 1].fields
                 /\ \/ inbox'[n].type = inbox[n + 1].type
                    \/ /\ inbox[n + 1].path = p
                       /\ inbox[n + 1].type = "Changed"
                       /\ inbox'[n].type = "Unmatched"
      BY <3>1, <3>2 DEF Message
    <3>4. DOMAIN inbox' = 1 .. Len(inbox) - 1
      BY <3>1
    <3> QED
      BY <2>3, <3>3, <3>4 DEF Handled
  <2> QED
    BY <2>4, <2>5, <2>6, AllHandled
<1>5. CASE ~(Owned(p, m.ifaces) /\ p \in rows)
  <2>1. Ignore /\ inbox' = Tail(inbox)
    BY <1>5 DEF onInterfacesRemoved
  <2>2. AtHead
    BY <1>1, <2>1, Dispatching DEF Ignore
  <2> QED
    BY <1>3, <2>1, <2>2, IgnoredHeard
<1> QED
  BY <1>4, <1>5

LEMMA DiscardHeard == ASSUME IInv, AllHeard, Discard PROVE AllHeard'
<1>1. Dispatch("Unmatched") /\ inbox # <<>> /\ Head(inbox).type = "Unmatched"
  BY DEF Discard, Dispatch
<1>2. \A q \in Paths : ~Takes(q, inbox[1])
  BY <1>1, QueueDomain DEF Takes
<1>3. AtHead
  BY <1>1, Dispatching DEF Discard, Ignore
<1> QED
  BY <1>2, <1>3, IgnoredHeard DEF Discard

LEMMA NextHeard == IInv /\ AllHeard /\ [Next]_vars => AllHeard'
<1> SUFFICES ASSUME IInv, AllHeard, [Next]_vars PROVE AllHeard'
  OBVIOUS
<1>1. CASE Objects
  BY <1>1, AddInterfacesHeard, ChangePropertyHeard, RemoveInterfacesHeard DEF Objects
<1>2. CASE SessionDown \/ SessionUp \/ Start \/ GetSubTree \/ Filled \/ UNCHANGED vars
  <2>1. UNCHANGED <<has, val, unheard, inbox, reply, rows, item>>
    BY <1>2 DEF SessionDown, SessionUp, Start, GetSubTree, Filled, vars
  <2> QED
    BY <2>1, SameHeard
<1>3. CASE Update /\ ~GetSubTree /\ ~Filled
  BY <1>3, GetAllHeard, StoreHeard DEF Update
<1>4. CASE Loop
  BY <1>4, AddedHeard, RemovedHeard, ChangedHeard, DiscardHeard DEF Loop
<1>5. CASE Terminate
  BY <1>5, EndHeard DEF Terminate
<1> QED
  BY <1>1, <1>2, <1>3, <1>4, <1>5 DEF Next, Agent, Update

LEMMA InitHeard == Init => AllHeard
<1> SUFFICES ASSUME Init PROVE AllHeard
  OBVIOUS
<1>1. Named
  BY DEF Init, Named
<1>2. \A p \in Paths : Due(p) = {}
  BY DEF Init, Due
<1> QED
  BY <1>1, <1>2 DEF AllHeard, Heard

\* For any items and images, any services and strings, any faults and ends: at
\* rest a row lacks no value that was announced to it or read by GetAll since
\* it was set, whatever other services the object has (Table::update,
\* onInterfacesAdded and the rows' setFields).
THEOREM AlwaysAccurate == Spec => []Accurate
<1>1. IInv /\ AllHeard => Accurate
  <2> SUFFICES ASSUME IInv, AllHeard, Quiet, NEW p \in Paths,
                      NEW f \in Shown(p) \ unheard[p]
               PROVE  p \in rows /\ item[p][f] = Converted(f, val[p][f])
    BY DEF Accurate
  <2>1. DOMAIN inbox = {} /\ reply = {}
    BY DEF Quiet, IInv, ControlInv
  <2>2. val[p] \in Published(FieldsOf(has[p]))
    BY DEF IInv, ObjectsInv
  <2>3. f \in Due(p) /\ val[p][f] \in Expected(f)
    BY <2>2, PublishedHas DEF Shown, Due
  <2>4. Arrives(p, f)
    BY <2>3 DEF AllHeard, Heard
  <2> QED
    BY <2>1, <2>3, <2>4 DEF Arrives, InReply, InRow
<1> QED
  BY <1>1, InitIInv, NextIInv, InitHeard, NextHeard, PTL DEF Spec

-----------------------------------------------------------------------------
(* The inventory implements InventoryMib.                                  *)

\* One row, from old to new: what a GET tells has changed and the trap tells
\* so, or is lost; or nothing has changed and nothing was sent.
Reports(old, new) ==
    \/ /\ get_snmp_reply(new.item) = get_snmp_reply(old.item)
       /\ new.told = old.told
       /\ new.lost = old.lost
    \/ /\ get_snmp_reply(new.item) # get_snmp_reply(old.item)
       /\ session
       /\ new.told = get_snmp_reply(new.item)
       /\ new.lost = "nothing"
    \/ /\ get_snmp_reply(new.item) # get_snmp_reply(old.item)
       /\ ~session
       /\ new.told = old.told
       /\ new.lost = "trap"

LEMMA SendIs ==
  ASSUME NEW p, p \notin Mute, NEW i, NEW t, NEW l, NEW flags
  PROVE  LET sent == send(p, [item |-> i, told |-> t, lost |-> l], flags) IN
         /\ session => sent = [item |-> i, told |-> flags, lost |-> "nothing"]
         /\ ~session => sent = [item |-> i, told |-> t, lost |-> "trap"]
<1>1. CASE session
  BY <1>1 DEF send
<1>2. CASE ~session
  BY <1>2 DEF send
<1> QED
  BY <1>1, <1>2

LEMMA SetFieldsReports ==
  ASSUME NEW p \in Inventory \ Mute, NEW row, GoodRow(p, row), NEW fields
  PROVE  Reports(row, setFieldsOf(p, row, fields))
<1> DEFINE i == setFields(Kind(p), row.item, fields)
           new == [item |-> i, told |-> row.told, lost |-> row.lost]
<1>1. [row EXCEPT !.item = i] = new
  BY DEF GoodRow
<1>2. setFieldsOf(p, row, fields) =
        IF get_snmp_reply(i) # get_snmp_reply(row.item)
        THEN send(p, new, get_snmp_reply(i)) ELSE new
  BY <1>1 DEF setFieldsOf
<1> HIDE DEF i
<1>3. LET sent == send(p, new, get_snmp_reply(i)) IN
      /\ session => sent = [item |-> i, told |-> get_snmp_reply(i), lost |-> "nothing"]
      /\ ~session => sent = [item |-> i, told |-> row.told, lost |-> "trap"]
  BY SendIs
<1>4. CASE get_snmp_reply(i) = get_snmp_reply(row.item)
  <2>1. setFieldsOf(p, row, fields) = new
    BY <1>2, <1>4
  <2> QED
    BY <1>4, <2>1 DEF Reports
<1>5. CASE get_snmp_reply(i) # get_snmp_reply(row.item) /\ session
  <2>1. setFieldsOf(p, row, fields) =
          [item |-> i, told |-> get_snmp_reply(i), lost |-> "nothing"]
    BY <1>2, <1>3, <1>5
  <2> QED
    BY <1>5, <2>1 DEF Reports
<1>6. CASE get_snmp_reply(i) # get_snmp_reply(row.item) /\ ~session
  <2>1. setFieldsOf(p, row, fields) = [item |-> i, told |-> row.told, lost |-> "trap"]
    BY <1>2, <1>3, <1>6
  <2> QED
    BY <1>6, <2>1 DEF Reports
<1> QED
  BY <1>4, <1>5, <1>6

\* Two calls after one another are one, unless the second undoes the first.
LEMMA ReportsTwice ==
  ASSUME NEW a, NEW b, NEW c, Reports(a, b), Reports(b, c),
         get_snmp_reply(c.item) = get_snmp_reply(a.item)
            => get_snmp_reply(b.item) = get_snmp_reply(a.item)
  PROVE  Reports(a, c)
  BY DEF Reports

\* A call for an interface without the flag leaves the flag alone.
LEMMA FlagStays ==
  ASSUME NEW p \in Inventory, NEW row, GoodRow(p, row), NEW fields, NEW F,
         NEW f \in Flags \ F
  PROVE  setFieldsOf(p, row, Only(fields, F)).item[f] = row.item[f]
<1>1. f \in ItemFields(Kind(p))
  BY FlagsAreFields DEF Kind
<1>2. f \notin DOMAIN Only(fields, F)
  BY DEF Only
<1> QED
  BY <1>1, <1>2, SetOne DEF Set

\* The calls for the interfaces of one message: each flag belongs to one of
\* them, so no call undoes another.
LEMMA AddedReports ==
  ASSUME NEW p \in Inventory \ Mute, NEW row, GoodRow(p, row), NEW fields
  PROVE  Reports(row, setFieldsOf(p, setFieldsOf(p, setFieldsOf(p, setFieldsOf(p, row,
            Only(fields, IfaceFields("Asset"))),
            Only(fields, IfaceFields("Revision"))),
            Only(fields, IfaceFields("Item"))),
            Only(fields, IfaceFields("Status"))))
<1> DEFINE A == IfaceFields("Asset")
           R == IfaceFields("Revision")
           I == IfaceFields("Item")
           S == IfaceFields("Status")
           row1 == setFieldsOf(p, row, Only(fields, A))
           row2 == setFieldsOf(p, row1, Only(fields, R))
           row3 == setFieldsOf(p, row2, Only(fields, I))
           row4 == setFieldsOf(p, row3, Only(fields, S))
<1>1. GoodRow(p, row1) /\ GoodRow(p, row2) /\ GoodRow(p, row3)
  BY SetFieldsGood
<1>2. /\ "Present" \in Flags \ A /\ "Functional" \in Flags \ A
      /\ "Present" \in Flags \ R /\ "Functional" \in Flags \ R
      /\ "Functional" \in Flags \ I /\ "Present" \in Flags \ S
  BY DEF IfaceFields, Flags
<1> HIDE DEF A, R, I, S
<1>3. Reports(row, row1) /\ Reports(row1, row2) /\ Reports(row2, row3) /\ Reports(row3, row4)
  BY <1>1, SetFieldsReports
<1>4. row1.item["Present"] = row.item["Present"] /\ row1.item["Functional"] = row.item["Functional"]
  BY <1>2, FlagStays
<1>5. row2.item["Present"] = row1.item["Present"] /\ row2.item["Functional"] = row1.item["Functional"]
  BY <1>1, <1>2, FlagStays
<1>6. row3.item["Functional"] = row2.item["Functional"]
  BY <1>1, <1>2, FlagStays
<1>7. row4.item["Present"] = row3.item["Present"]
  BY <1>1, <1>2, FlagStays
<1> HIDE DEF row1, row2, row3, row4
<1>8. Reports(row, row2)
  BY <1>3, <1>5, ReportsTwice DEF get_snmp_reply
<1>9. Reports(row, row3)
  BY <1>3, <1>4, <1>5, <1>8, ReportsTwice DEF get_snmp_reply
<1>10. get_snmp_reply(row4.item) = get_snmp_reply(row.item)
          => get_snmp_reply(row3.item) = get_snmp_reply(row.item)
  BY <1>4, <1>5, <1>6, <1>7 DEF get_snmp_reply
<1>11. Reports(row, row4)
  BY <1>3, <1>9, <1>10, ReportsTwice
<1> QED
  BY <1>11 DEF row1, row2, row3, row4, A, R, I, S

\* The mapping.
View == [p \in Inventory \ Mute |-> Shows(p)]
Told == [p \in Inventory \ Mute |-> told[p]]
LostFor == [p \in Inventory \ Mute |-> lost[p]]
mib == <<View, Told, LostFor, session>>

\* The row of one object is replaced by one that reports its change.
LEMMA PutIsMib ==
  ASSUME RowsInv, Telling, Telling', session' = session,
         NEW p \in Paths, NEW row,
         p \in Inventory \ Mute => Reports(getItem(p), row),
         item' = [item EXCEPT ![p] = row.item],
         told' = [q \in Inventory |-> IF q = p THEN row.told ELSE told[q]],
         lost' = [q \in Inventory |-> IF q = p THEN row.lost ELSE lost[q]]
  PROVE  [Mib!Next]_mib
<1>1. \A q \in Paths : item'[q] = IF q = p THEN row.item ELSE item[q]
  BY DEF RowsInv
<1>2. \A q \in Inventory \ Mute :
        q # p => View'[q] = View[q] /\ Told'[q] = Told[q] /\ LostFor'[q] = LostFor[q]
  BY <1>1 DEF View, Told, LostFor, Telling, Paths
<1>3. CASE p \notin Inventory \ Mute
  <2>1. View' = View /\ Told' = Told /\ LostFor' = LostFor
    BY <1>2, <1>3 DEF View, Told, LostFor
  <2> QED
    BY <2>1 DEF mib
<1>4. CASE p \in Inventory \ Mute
  <2>1. /\ getItem(p).item = item[p]
        /\ getItem(p).told = told[p]
        /\ getItem(p).lost = lost[p]
    <3>1. getItem(p).item = item[p]
      BY GetItemGood
    <3> QED
      BY <1>4, <3>1 DEF getItem
  <2>2. /\ View[p] = get_snmp_reply(getItem(p).item)
        /\ View'[p] = get_snmp_reply(row.item)
        /\ Told[p] = getItem(p).told /\ Told'[p] = row.told
        /\ LostFor[p] = getItem(p).lost /\ LostFor'[p] = row.lost
    BY <1>1, <1>4, <2>1 DEF View, Told, LostFor, Telling, Paths
  <2>3. View'[p] \in Reply
    BY <2>2, ReplyType
  <2>4. /\ View' = [View EXCEPT ![p] = View'[p]]
        /\ Told' = [Told EXCEPT ![p] = Told'[p]]
        /\ LostFor' = [LostFor EXCEPT ![p] = LostFor'[p]]
    BY <1>2, <1>4 DEF View, Told, LostFor
  <2>5. CASE View'[p] = View[p] /\ Told'[p] = Told[p] /\ LostFor'[p] = LostFor[p]
    <3>1. \A q \in Inventory \ Mute :
            View'[q] = View[q] /\ Told'[q] = Told[q] /\ LostFor'[q] = LostFor[q]
      BY <1>2, <2>5
    <3>2. View' = View /\ Told' = Told /\ LostFor' = LostFor
      BY <3>1 DEF View, Told, LostFor
    <3> QED
      BY <3>2 DEF mib
  <2>6. CASE ~(View'[p] = View[p] /\ Told'[p] = Told[p] /\ LostFor'[p] = LostFor[p])
    <3>1. /\ View'[p] # View[p]
          /\ \/ session /\ Told'[p] = View'[p] /\ LostFor'[p] = "nothing"
             \/ ~session /\ Told'[p] = Told[p] /\ LostFor'[p] = "trap"
      BY <1>4, <2>2, <2>6 DEF Reports
    <3>2. Told'[p] = Told[p] => Told' = Told
      BY <2>4 DEF Told
    <3>3. Mib!Change(p)
      BY <2>3, <2>4, <3>1, <3>2 DEF Mib!Change, View, Told, LostFor
    <3> QED
      BY <1>4, <3>3 DEF Mib!Next
  <2> QED
    BY <2>5, <2>6
<1> QED
  BY <1>3, <1>4

LEMMA KeepIsMib ==
  ASSUME RowsInv, Telling, Telling', session' = session,
         NEW p \in Paths, NEW row, Keep(p, row),
         p \in Inventory \ Mute => Reports(getItem(p), row)
  PROVE  [Mib!Next]_mib
  BY PutIsMib DEF Keep

\* onDestroy reports what it takes back, if there is something.
LEMMA DropIsMib ==
  ASSUME RowsInv, Telling, Telling', session' = session,
         NEW p \in Paths, dropItem(p)
  PROVE  [Mib!Next]_mib
<1> DEFINE new == NewItem(Kind(p))
           old == getItem(p)
           row == IF p \in Inventory /\ get_snmp_reply(item[p]) # Nothing
                  THEN send(p, old, Nothing) ELSE old
           put == [item |-> new, told |-> row.told, lost |-> row.lost]
<1>1. /\ item' = [item EXCEPT ![p] = put.item]
      /\ told' = [q \in Inventory |-> IF q = p THEN put.told ELSE told[q]]
      /\ lost' = [q \in Inventory |-> IF q = p THEN put.lost ELSE lost[q]]
  BY DEF dropItem
<1>2. ASSUME p \in Inventory \ Mute PROVE Reports(old, put)
  <2>1. get_snmp_reply(new) = Nothing
    BY <1>2, NewItemIsNothing DEF Kind
  <2>2. old = [item |-> item[p], told |-> old.told, lost |-> old.lost]
    BY GetItemGood DEF GoodRow
  <2>3. CASE get_snmp_reply(item[p]) = Nothing
    <3>1. put.item = new /\ put.told = old.told /\ put.lost = old.lost
      BY <2>3
    <3>2. old.item = item[p]
      BY <2>2
    <3> QED
      BY <2>1, <2>3, <3>1, <3>2 DEF Reports
  <2>4. CASE get_snmp_reply(item[p]) # Nothing
    <3>1. /\ session => row = [item |-> item[p], told |-> Nothing, lost |-> "nothing"]
          /\ ~session => row = [item |-> item[p], told |-> old.told, lost |-> "trap"]
      <4> HIDE DEF old
      <4>1. row = send(p, [item |-> item[p], told |-> old.told, lost |-> old.lost], Nothing)
        BY <1>2, <2>2, <2>4
      <4> QED
        BY <1>2, <4>1, SendIs
    <3>2. /\ put.item = new /\ old.item = item[p]
          /\ session => put.told = Nothing /\ put.lost = "nothing"
          /\ ~session => put.told = old.told /\ put.lost = "trap"
      <4>1. old.item = item[p]
        BY <2>2
      <4>2. session => row.told = Nothing /\ row.lost = "nothing"
        BY <3>1
      <4>3. ~session => row.told = old.told /\ row.lost = "trap"
        BY <3>1
      <4> QED
        BY <4>1, <4>2, <4>3
    <3> QED
      BY <2>1, <2>4, <3>2 DEF Reports
  <2> QED
    BY <2>3, <2>4
<1> HIDE DEF put
<1> QED
  BY <1>1, <1>2, PutIsMib

LEMMA EndIsMib ==
  ASSUME RowsInv, Telling, Telling', session' = session, End
  PROVE  [Mib!Next]_mib
<1>1. \A p \in Inventory : Shows(p)' = Nothing
  BY DEF End, Shows
<1>2. View' = [p \in Inventory \ Mute |-> Nothing]
  BY <1>1 DEF View
<1>3. Told' = Told
  BY DEF End, Told
<1>4. LostFor' = [p \in Inventory \ Mute |->
         IF View[p] # Nothing /\ LostFor[p] = "nothing" THEN "end" ELSE LostFor[p]]
  <2>1. \A p \in Inventory \ Mute : View[p] = get_snmp_reply(item[p]) /\ LostFor[p] = lost[p]
    BY DEF View, LostFor, Telling
  <2>2. \A p \in Inventory \ Mute : LostFor'[p] =
          IF get_snmp_reply(item[p]) # Nothing /\ lost[p] = "nothing" THEN "end" ELSE lost[p]
    BY DEF End, LostFor
  <2> QED
    BY <2>1, <2>2 DEF LostFor
<1> QED
  BY <1>2, <1>3, <1>4 DEF Mib!Next, Mib!End, View, Told, LostFor

LEMMA SameIsMib ==
  ASSUME UNCHANGED <<rows, item, told, lost, session>>
  PROVE  [Mib!Next]_mib
<1>1. UNCHANGED mib
  BY DEF mib, View, Told, LostFor, Shows
<1> QED
  BY <1>1

\* A step that keeps the session and ends the process, keeps a row that
\* reports, or changes no row.
LEMMA StoreIsMib ==
  ASSUME IInv, Telling, Telling', Store
  PROVE  [Mib!Next]_mib
<1>1. PICK r \in reply :
        IF Throws(Kind(r.path), r.fields)
        THEN End /\ inbox' = <<>> /\ todo' = {}
        ELSE /\ Keep(r.path, setFieldsOf(r.path, getItem(r.path), r.fields))
             /\ UNCHANGED <<inbox, todo>>
  BY DEF Store
<1>2. session' = session
  BY DEF Store
<1>3. r.path \in Paths /\ RowsInv
  BY DEF IInv, ControlInv, Replies
<1>4. CASE Throws(Kind(r.path), r.fields)
  BY <1>1, <1>2, <1>3, <1>4, EndIsMib
<1>5. CASE ~Throws(Kind(r.path), r.fields)
  <2> DEFINE p == r.path
             row == setFieldsOf(p, getItem(p), r.fields)
  <2>1. Keep(p, row)
    BY <1>1, <1>5
  <2>2. p \in Inventory \ Mute => Reports(getItem(p), row)
    BY <1>3, GetItemGood, SetFieldsReports
  <2> HIDE DEF row, p
  <2> QED
    BY <1>2, <1>3, <2>1, <2>2, KeepIsMib DEF p
<1> QED
  BY <1>4, <1>5

LEMMA IgnoredIsMib ==
  ASSUME NEW type, Dispatch(type), Ignore
  PROVE  [Mib!Next]_mib
  BY SameIsMib DEF Dispatch, Ignore

LEMMA AddedIsMib ==
  ASSUME IInv, Telling, Telling', onInterfacesAdded
  PROVE  [Mib!Next]_mib
<1> DEFINE m == Head(inbox)
           p == m.path
           From(row, i) == setFieldsOf(p, row, Only(m.fields, IfaceFields(i)))
           rowOfItem == From(From(From(From(getItem(p),
                            "Asset"), "Revision"), "Item"), "Status")
           rowOfImage == From(From(From(getItem(p),
                            "Activation"), "Priority"), "Version")
           row1 == IF p \in Inventory THEN rowOfItem ELSE rowOfImage
<1>1. Dispatch("Added") /\ p \in Paths /\ session' = session /\ RowsInv
  <2>1. Dispatch("Added")
    BY DEF onInterfacesAdded
  <2> QED
    BY <2>1, Dispatched DEF IInv
<1>2. CASE ~Owned(p, m.ifaces)
  <2>1. Ignore
    BY <1>2 DEF onInterfacesAdded
  <2> QED
    BY <1>1, <2>1, IgnoredIsMib
<1>3. CASE Owned(p, m.ifaces) /\ Throws(Kind(p), m.fields)
  <2>1. End
    BY <1>3 DEF onInterfacesAdded
  <2> QED
    BY <1>1, <2>1, EndIsMib
<1>4. CASE Owned(p, m.ifaces) /\ ~Throws(Kind(p), m.fields)
  <2>1. Keep(p, row1)
    BY <1>4 DEF onInterfacesAdded
  <2>2. ASSUME p \in Inventory \ Mute PROVE Reports(getItem(p), row1)
    <3>1. GoodRow(p, getItem(p))
      BY <1>1, GetItemGood
    <3>2. Reports(getItem(p), rowOfItem)
      BY <2>2, <3>1, AddedReports
    <3> HIDE DEF rowOfItem
    <3> QED
      BY <2>2, <3>2
  <2> HIDE DEF row1, p
  <2> QED
    BY <1>1, <2>1, <2>2, KeepIsMib
<1> QED
  BY <1>2, <1>3, <1>4

LEMMA RemovedIsMib ==
  ASSUME IInv, Telling, Telling', onInterfacesRemoved
  PROVE  [Mib!Next]_mib
<1> DEFINE m == Head(inbox)
           p == m.path
<1>1. Dispatch("Removed") /\ p \in Paths /\ session' = session /\ RowsInv
  <2>1. Dispatch("Removed")
    BY DEF onInterfacesRemoved
  <2> QED
    BY <2>1, Dispatched DEF IInv
<1>2. CASE Owned(p, m.ifaces) /\ p \in rows
  <2>1. dropItem(p)
    BY <1>2 DEF onInterfacesRemoved
  <2> HIDE DEF p
  <2> QED
    BY <1>1, <2>1, DropIsMib
<1>3. CASE ~(Owned(p, m.ifaces) /\ p \in rows)
  <2>1. Ignore
    BY <1>3 DEF onInterfacesRemoved
  <2> QED
    BY <1>1, <2>1, IgnoredIsMib
<1> QED
  BY <1>2, <1>3

LEMMA ChangedIsMib ==
  ASSUME IInv, Telling, Telling', onPropertiesChanged
  PROVE  [Mib!Next]_mib
<1> DEFINE m == Head(inbox)
           p == m.path
           row1 == setFieldsOf(p, getItem(p), m.fields)
<1>1. Dispatch("Changed") /\ p \in Paths /\ session' = session /\ RowsInv
  <2>1. Dispatch("Changed")
    BY DEF onPropertiesChanged
  <2> QED
    BY <2>1, Dispatched DEF IInv
<1>2. CASE p \notin rows
  <2>1. Ignore
    BY <1>2 DEF onPropertiesChanged
  <2> QED
    BY <1>1, <2>1, IgnoredIsMib
<1>3. CASE p \in rows /\ Throws(Kind(p), m.fields)
  <2>1. End
    BY <1>3 DEF onPropertiesChanged
  <2> QED
    BY <1>1, <2>1, EndIsMib
<1>4. CASE p \in rows /\ ~Throws(Kind(p), m.fields)
  <2>1. Keep(p, row1)
    BY <1>4 DEF onPropertiesChanged
  <2>2. p \in Inventory \ Mute => Reports(getItem(p), row1)
    BY <1>1, GetItemGood, SetFieldsReports
  <2> HIDE DEF row1, p
  <2> QED
    BY <1>1, <2>1, <2>2, KeepIsMib
<1> QED
  BY <1>2, <1>3, <1>4

LEMMA MibNext ==
  IInv /\ Telling /\ Telling' /\ [Next]_vars => [Mib!Next]_mib
<1> SUFFICES ASSUME IInv, Telling, Telling', [Next]_vars PROVE [Mib!Next]_mib
  OBVIOUS
<1>1. CASE Objects
  BY <1>1, SameIsMib DEF Objects, AddInterfaces, ChangeProperty, RemoveInterfaces, agent
<1>2. CASE SessionDown \/ SessionUp
  <2>1. session' = ~session /\ UNCHANGED <<rows, item, told, lost>>
    BY <1>2 DEF SessionDown, SessionUp, IInv, OutsideInv
  <2>2. View' = View /\ Told' = Told /\ LostFor' = LostFor
    BY <2>1 DEF View, Told, LostFor, Shows
  <2> QED
    BY <2>1, <2>2 DEF Mib!Next, Mib!Session, View, Told, LostFor
<1>3. CASE Start \/ GetSubTree \/ (\E p \in Paths, s \in Services : GetAll(p, s)) \/ Filled
  BY <1>3, SameIsMib DEF Start, GetSubTree, GetAll, Filled
<1>4. CASE Store
  BY <1>4, StoreIsMib
<1>5. CASE onInterfacesAdded \/ onInterfacesRemoved \/ onPropertiesChanged
  BY <1>5, AddedIsMib, RemovedIsMib, ChangedIsMib
<1>6. CASE Discard
  BY <1>6, IgnoredIsMib DEF Discard
<1>7. CASE Terminate
  BY <1>7, EndIsMib DEF Terminate, IInv
<1>8. CASE UNCHANGED vars
  BY <1>8, SameIsMib DEF vars
<1> QED
  BY <1>1, <1>2, <1>3, <1>4, <1>5, <1>6, <1>7, <1>8 DEF Next, Agent, Update, Loop

\* The inventory as a manager sees it, with lost traps, several services of
\* one object and ends of the process, is what InventoryMib says: every change
\* of what a GET tells has its one trap, sent in the same step, and there is no
\* trap without a change (InventoryItem::setFields, onDestroy; Trap::send).
THEOREM ImplementsMib == Spec => MibSpec
<1>1. Init => Mib!Init
  BY RowsInit, RowsTell DEF Init, Mib!Init, Shows
<1>2. IInv => Telling
  BY RowsTell DEF IInv
<1>3. IInv /\ Telling /\ Telling' /\ [Next]_vars => [Mib!Next]_mib
  BY MibNext
<1> QED
  BY <1>1, <1>2, <1>3, InvariantHolds, PTL
     DEF Spec, MibSpec, Mib!Spec, mib, View, Told, LostFor

=============================================================================
