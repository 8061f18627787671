------------------------- MODULE SensorTable_proofs -------------------------
(***************************************************************************)
(* Proofs about SensorTable, for any set of objects, any payloads, any set *)
(* of faults and any length of the queue.                                  *)
(***************************************************************************)
EXTENDS SensorTable, SequenceTheorems, TLAPS

-----------------------------------------------------------------------------
(* The data of a row.                                                      *)

\* A new row has the default values of the constructor, well typed.
LEMMA NewItemType == NewItem \in Item
  BY ZeroAssumption DEF NewItem, Item, ItemFields, Alarms, FieldType

\* Sensor::setFields keeps a row well typed whatever a message carries: the
\* test of the variant's alternative is enough.
LEMMA SetFieldsType ==
  ASSUME NEW i \in Item, NEW fields
  PROVE  setFields(i, fields) \in Item
<1> DEFINE new == setFields(i, fields)
           U == UNION {FieldType(f) : f \in ItemFields}
<1>1. ASSUME NEW f \in ItemFields PROVE new[f] \in FieldType(f)
  BY DEF setFields, Item
<1>2. new \in [ItemFields -> U]
  BY <1>1 DEF setFields
<1> QED
  BY <1>1, <1>2 DEF Item

\* Sensor::getState returns one of the states of the MIB.
LEMMA GetStateType == ASSUME NEW i PROVE getState(i) \in States
  BY DEF getState, States

\* Any set of properties a service publishes can be read as a fields_map_t.
LEMMA PublishedIsFieldsMap ==
  ASSUME NEW F \in SUBSET ItemFields, NEW m \in Published(F)
  PROVE  m \in FieldsMap
<1> DEFINE U == UNION {Payload(f) : f \in ItemFields}
<1>1. m \in [F -> U] /\ \A f \in F : m[f] \in Payload(f)
  BY DEF Published
<1> QED
  BY <1>1 DEF FieldsMap

\* What GetAll returns is a fields_map_t.
LEMMA OnlyIsFieldsMap ==
  ASSUME NEW F \in SUBSET ItemFields, NEW m \in Published(F), NEW G
  PROVE  Only(m, G) \in FieldsMap
<1>1. DOMAIN m = F /\ \A f \in F : m[f] \in Payload(f)
  BY DEF Published
<1>2. Only(m, G) \in Published(F \cap G)
  BY <1>1 DEF Only, Published
<1> QED
  BY <1>2, PublishedIsFieldsMap

\* The values of an object keep their type when some of them change.
LEMMA OverlayType ==
  ASSUME NEW F, NEW old \in Published(F), NEW G, NEW new \in Published(G)
  PROVE  Overlay(old, new) \in Published(F)
<1>1. /\ DOMAIN old = F /\ \A f \in F : old[f] \in Payload(f)
      /\ DOMAIN new = G /\ \A f \in G : new[f] \in Payload(f)
  BY DEF Published
<1>2. \A f \in F : Overlay(old, new)[f] \in Payload(f)
  BY <1>1 DEF Overlay
<1> QED
  BY <1>1, <1>2 DEF Overlay, Published

LEMMA FieldsOfType == ASSUME NEW I PROVE FieldsOf(I) \subseteq Fields
  BY DEF FieldsOf

-----------------------------------------------------------------------------
(* The row and its trap.                                                   *)

Told == States \union {"none"}
Row == [item : Item, told : Told]

LEMMA SendNotifyType ==
  ASSUME NEW p, NEW last \in Told, NEW s \in States
  PROVE  send_notify(p, last, s) \in Told
  BY DEF send_notify, Told

LEMMA GetItemType ==
  ASSUME TypeOK, NEW p \in Paths
  PROVE  getItem(p) \in Row
<1>1. "normal" \in States
  BY DEF States
<1> QED
  BY <1>1, NewItemType, SendNotifyType DEF getItem, Row, Told, TypeOK

LEMMA SetFieldsOfType ==
  ASSUME NEW p, NEW row \in Row, NEW fields
  PROVE  setFieldsOf(p, row, fields) \in Row
<1>1. setFields(row.item, fields) \in Item
  BY SetFieldsType DEF Row
<1>2. getState(setFields(row.item, fields)) \in States
  BY GetStateType
<1> QED
  BY <1>1, <1>2, SendNotifyType DEF setFieldsOf, Row

LEMMA KeepType ==
  ASSUME TypeOK, NEW p \in Paths, NEW row \in Row, Keep(p, row)
  PROVE  /\ rows' \subseteq Paths
         /\ item' \in [Paths -> Item]
         /\ \A q \in Paths \ rows' : item'[q] = NewItem
         /\ told' \in [Paths -> Told]
  BY DEF Keep, Row, TypeOK, Told

LEMMA DropItemType ==
  ASSUME TypeOK, NEW gone \in SUBSET Paths, dropItem(gone)
  PROVE  /\ rows' \subseteq Paths
         /\ item' \in [Paths -> Item]
         /\ \A q \in Paths \ rows' : item'[q] = NewItem
         /\ told' \in [Paths -> Told]
<1>1. "disabled" \in States
  BY DEF States
<1> QED
  BY <1>1, NewItemType, SendNotifyType DEF dropItem, TypeOK, Told

-----------------------------------------------------------------------------
(* Types.                                                                  *)

Message == [type : {"Added", "Removed", "Changed", "Unmatched"},
            path : Paths, ifaces : SUBSET Ifaces, fields : FieldsMap]

LEMMA NoFieldsType == NoFields \in FieldsMap
<1>1. NoFields \in Published({})
  BY DEF NoFields, Published
<1> QED
  BY <1>1, PublishedIsFieldsMap

\* The message at the head of the queue, and the queue without it.
LEMMA DispatchType ==
  ASSUME TypeOK, NEW type, Dispatch(type)
  PROVE  /\ Head(inbox) \in Message
         /\ Tail(inbox) \in Seq(Message)
  BY HeadTailProperties DEF TypeOK, Dispatch, Message

LEMMA TypeInit == Init => TypeOK
<1> SUFFICES ASSUME Init PROVE TypeOK
  OBVIOUS
<1>1. \A p \in Paths : FieldsOf(has[p]) \in SUBSET Fields
  BY FieldsOfType
<1>2. <<>> \in Seq(Message)
  OBVIOUS
<1> QED
  BY <1>1, <1>2, NewItemType DEF Init, TypeOK, Message

LEMMA TypeObjects ==
  ASSUME TypeOK, NEW p \in Paths,
         AddInterfaces(p) \/ ChangeProperty(p) \/ RemoveInterfaces(p)
  PROVE  TypeOK'
<1>0. /\ val[p] \in Published(Fields) /\ has[p] \in SUBSET Ifaces
      /\ inbox \in Seq(Message) /\ Fields \subseteq ItemFields
      /\ val \in [Paths -> Published(Fields)]
      /\ has \in [Paths -> SUBSET Ifaces]
      /\ unheard \in [Paths -> SUBSET Fields]
  BY TableAssumption DEF TypeOK, Message
<1>1. CASE AddInterfaces(p)
  <2>0. PICK I \in (SUBSET (Ifaces \ has[p])) \ {{}} :
          \E fields \in Published(FieldsOf(I)) :
          /\ has' = [has EXCEPT ![p] = @ \union I]
          /\ val' = [val EXCEPT ![p] = Overlay(@, fields)]
          /\ inbox' = Append(inbox, InterfacesAdded(p, I, fields))
          /\ unheard' = [unheard EXCEPT ![p] = @ \ FieldsOf(I)]
    BY <1>1 DEF AddInterfaces
  <2>1. PICK fields \in Published(FieldsOf(I)) :
          /\ has' = [has EXCEPT ![p] = @ \union I]
          /\ val' = [val EXCEPT ![p] = Overlay(@, fields)]
          /\ inbox' = Append(inbox, InterfacesAdded(p, I, fields))
          /\ unheard' = [unheard EXCEPT ![p] = @ \ FieldsOf(I)]
    BY <2>0
  <2>2. Overlay(val[p], fields) \in Published(Fields)
    BY <1>0, OverlayType
  <2>3. fields \in FieldsMap
    BY <1>0, FieldsOfType, PublishedIsFieldsMap
  <2>4. InterfacesAdded(p, I, fields) \in Message
    BY <2>1, <2>3 DEF InterfacesAdded, Message
  <2>5. inbox' \in Seq(Message)
    BY <1>0, <2>1, <2>4, AppendProperties
  <2> QED
    BY <1>0, <1>1, <2>1, <2>2, <2>5 DEF AddInterfaces, TypeOK, Message
<1>2. CASE ChangeProperty(p)
  <2>0. PICK f \in FieldsOf(has[p]) : \E x \in Payload(f) \ {val[p][f]} :
          /\ val' = [val EXCEPT ![p][f] = x]
          /\ inbox' = IF p \in rows
                      THEN Append(inbox, PropertiesChanged(p, [g \in {f} |-> x]))
                      ELSE inbox
          /\ unheard' = [unheard EXCEPT
                ![p] = IF Listens(p) THEN @ \ {f} ELSE @ \union {f}]
    BY <1>2 DEF ChangeProperty
  <2>1. PICK x \in Payload(f) \ {val[p][f]} :
          /\ val' = [val EXCEPT ![p][f] = x]
          /\ inbox' = IF p \in rows
                      THEN Append(inbox, PropertiesChanged(p, [g \in {f} |-> x]))
                      ELSE inbox
          /\ unheard' = [unheard EXCEPT
                ![p] = IF Listens(p) THEN @ \ {f} ELSE @ \union {f}]
    BY <2>0
  <2>2. f \in Fields
    BY FieldsOfType
  <2>3. [val[p] EXCEPT ![f] = x] \in Published(Fields)
    BY <1>0, <2>1, <2>2 DEF Published
  <2>4. val' \in [Paths -> Published(Fields)]
    BY <1>0, <2>1, <2>3
  <2>5. [g \in {f} |-> x] \in Published({f})
    BY <2>1 DEF Published
  <2>6. [g \in {f} |-> x] \in FieldsMap
    BY <1>0, <2>2, <2>5, PublishedIsFieldsMap
  <2>7. PropertiesChanged(p, [g \in {f} |-> x]) \in Message
    BY <2>6 DEF PropertiesChanged, Message
  <2>8. inbox' \in Seq(Message)
    BY <1>0, <2>1, <2>7, AppendProperties
  <2>9. unheard' \in [Paths -> SUBSET Fields]
    BY <1>0, <2>1, <2>2
  <2> QED
    BY <1>0, <1>2, <2>4, <2>8, <2>9 DEF ChangeProperty, TypeOK, Message
<1>3. CASE RemoveInterfaces(p)
  <2>1. PICK I \in (SUBSET has[p]) \ {{}} :
          /\ has' = [has EXCEPT ![p] = @ \ I]
          /\ val' = [val EXCEPT ![p] =
                        Overlay(@, [f \in FieldsOf(I) |-> NewItem[f]])]
          /\ inbox' = Append(inbox, InterfacesRemoved(p, I))
          /\ unheard' = [unheard EXCEPT
                ![p] = IF I \cap OwnedIfaces # {} THEN FieldsOf(has[p] \ I)
                                                  ELSE @ \ FieldsOf(I)]
    BY <1>3 DEF RemoveInterfaces
  <2>2. [f \in FieldsOf(I) |-> NewItem[f]] \in Published(FieldsOf(I))
    BY <1>0, NewItemType, FieldsOfType DEF Published, Item, Payload
  <2>3. Overlay(val[p], [f \in FieldsOf(I) |-> NewItem[f]]) \in Published(Fields)
    BY <1>0, <2>2, OverlayType
  <2>4. InterfacesRemoved(p, I) \in Message
    BY <1>0, NoFieldsType DEF InterfacesRemoved, Message
  <2>5. inbox' \in Seq(Message)
    BY <1>0, <2>1, <2>4, AppendProperties
  <2>6. unheard' \in [Paths -> SUBSET Fields]
    BY <1>0, <2>1, FieldsOfType
  <2>7. has' \in [Paths -> SUBSET Ifaces]
    BY <1>0, <2>1
  <2>8. val' \in [Paths -> Published(Fields)]
    BY <1>0, <2>1, <2>3
  <2> QED
    BY <1>0, <1>3, <2>5, <2>6, <2>7, <2>8 DEF RemoveInterfaces, TypeOK, Message
<1> QED
  BY <1>1, <1>2, <1>3

LEMMA TypeUpdate == ASSUME TypeOK, Update PROVE TypeOK'
<1>1. CASE GetSubTree
  <2>1. PICK found \in SUBSET Paths : todo' = found /\ dropItem(rows \ found)
    BY <1>1 DEF GetSubTree
  <2>2. rows \ found \in SUBSET Paths
    BY DEF TypeOK
  <2> QED
    BY <1>1, <2>1, <2>2, DropItemType DEF GetSubTree, TypeOK, Told
<1>2. ASSUME NEW p \in Paths, GetAll(p) PROVE TypeOK'
  <2>1. /\ val[p] \in Published(Fields) /\ Fields \subseteq ItemFields
        /\ unheard \in [Paths -> SUBSET Fields]
    BY TableAssumption DEF TypeOK
  <2>2. Only(val[p], FieldsOf(has[p])) \in FieldsMap
    BY <2>1, OnlyIsFieldsMap
  <2>3. unheard' \in [Paths -> SUBSET Fields]
    BY <1>2, <2>1 DEF GetAll
  <2>4. PICK r \in [path : Paths, fields : FieldsMap] : reply' = {r}
    BY <1>2, <2>2, NoFieldsType DEF GetAll
  <2>5. todo' \subseteq Paths
    BY <1>2 DEF GetAll, TypeOK
  <2> QED
    BY <1>2, <2>3, <2>4, <2>5 DEF GetAll, TypeOK
<1>3. CASE Store
  <2>1. PICK r \in reply :
          Keep(r.path, setFieldsOf(r.path, getItem(r.path), r.fields))
    BY <1>3 DEF Store
  <2>2. r.path \in Paths
    BY DEF TypeOK
  <2>3. setFieldsOf(r.path, getItem(r.path), r.fields) \in Row
    BY <2>2, GetItemType, SetFieldsOfType
  <2> QED
    BY <1>3, <2>1, <2>2, <2>3, KeepType DEF Store, TypeOK, Told
<1>4. CASE RunLoop
  BY <1>4 DEF RunLoop, TypeOK
<1> QED
  BY <1>1, <1>2, <1>3, <1>4 DEF Update

LEMMA TypeLoop == ASSUME TypeOK, Loop PROVE TypeOK'
<1> DEFINE m == Head(inbox)
           Of(i) == Only(m.fields, IfaceFields(i))
<1>0. Tail(inbox) \in Seq(Message) /\ m \in Message
  BY DispatchType DEF Loop, onInterfacesAdded, onInterfacesRemoved,
                      onPropertiesChanged, Discard
<1>1. m.path \in Paths
  BY <1>0 DEF Message
<1>2. CASE onInterfacesAdded
  <2>1. CASE Owned(m)
    <3> DEFINE row == setFieldsOf(m.path, setFieldsOf(m.path, setFieldsOf(m.path,
                        getItem(m.path), Of("Critical")), Of("Warning")), Of("Value"))
    <3>1. row \in Row
      BY <1>1, GetItemType, SetFieldsOfType
    <3>2. Keep(m.path, row)
      BY <1>2, <2>1 DEF onInterfacesAdded
    <3> HIDE DEF row
    <3> QED
      BY <1>0, <1>1, <1>2, <3>1, <3>2, KeepType
      DEF onInterfacesAdded, Dispatch, TypeOK, Told, Message
  <2>2. CASE ~Owned(m)
    BY <1>0, <1>2, <2>2 DEF onInterfacesAdded, Dispatch, TypeOK, Message
  <2> QED
    BY <2>1, <2>2
<1>3. CASE onInterfacesRemoved
  <2>1. CASE Owned(m) /\ m.path \in rows
    <3>1. PICK orphaned \in BOOLEAN :
            inbox' = [n \in 1 .. Len(inbox) - 1 |->
              IF /\ orphaned
                 /\ inbox[n + 1].type = "Changed"
                 /\ inbox[n + 1].path = m.path
              THEN [inbox[n + 1] EXCEPT !.type = "Unmatched"]
              ELSE inbox[n + 1]]
      BY <1>3, <2>1 DEF onInterfacesRemoved
    <3>2. inbox \in Seq(Message) /\ Len(inbox) \in Nat /\ Len(inbox) > 0
      BY <1>3 DEF TypeOK, Message, onInterfacesRemoved, Dispatch
    <3>3. ASSUME NEW n \in 1 .. Len(inbox) - 1 PROVE inbox'[n] \in Message
      <4>1. inbox[n + 1] \in Message
        BY <3>2, ElementOfSeq
      <4> QED
        BY <3>1, <4>1 DEF Message
    <3>4. inbox' \in Seq(Message)
      <4>1. Len(inbox) - 1 \in Nat
        BY <3>2
      <4>2. inbox' \in [1 .. Len(inbox) - 1 -> Message]
        BY <3>1, <3>3
      <4> QED
        BY <4>1, <4>2, SeqDef
    <3> QED
      BY <1>1, <1>3, <2>1, <3>4, DropItemType
      DEF onInterfacesRemoved, Dispatch, TypeOK, Told, Message
  <2>2. CASE ~(Owned(m) /\ m.path \in rows)
    BY <1>0, <1>3, <2>2 DEF onInterfacesRemoved, Dispatch, TypeOK, Message
  <2> QED
    BY <2>1, <2>2
<1>4. CASE onPropertiesChanged
  <2>1. CASE m.path \in rows
    <3>1. setFieldsOf(m.path, getItem(m.path), m.fields) \in Row
      BY <1>1, GetItemType, SetFieldsOfType
    <3> QED
      BY <1>0, <1>1, <1>4, <2>1, <3>1, KeepType
      DEF onPropertiesChanged, Dispatch, TypeOK, Told, Message
  <2>2. CASE m.path \notin rows
    BY <1>0, <1>4, <2>2 DEF onPropertiesChanged, Dispatch, TypeOK, Message
  <2> QED
    BY <2>1, <2>2
<1>5. CASE Discard
  BY <1>0, <1>5 DEF Discard, Dispatch, TypeOK, Message
<1> QED
  BY <1>2, <1>3, <1>4, <1>5 DEF Loop

LEMMA TypeRestart == ASSUME TypeOK, Restart PROVE TypeOK'
<1>1. \A p \in Paths : FieldsOf(has[p]) \in SUBSET Fields
  BY FieldsOfType
<1>2. <<>> \in Seq(Message)
  OBVIOUS
<1> QED
  BY <1>1, <1>2, NewItemType DEF Restart, TypeOK, Message

LEMMA TypeNext == TypeOK /\ [Next]_vars => TypeOK'
<1> SUFFICES ASSUME TypeOK, [Next]_vars PROVE TypeOK'
  OBVIOUS
<1>1. CASE Objects
  BY <1>1, TypeObjects DEF Objects
<1>2. CASE Agent
  BY <1>2, TypeUpdate, TypeLoop DEF Agent
<1>3. CASE Restart
  BY <1>3, TypeRestart
<1>4. CASE UNCHANGED vars
  BY <1>4 DEF vars, TypeOK
<1> QED
  BY <1>1, <1>2, <1>3, <1>4 DEF Next

\* Rows only ever hold well-typed data, in every behaviour: the proof rests on
\* SetFieldsType, that is on the type test of Item::setField.
THEOREM TypeCorrect == Spec => []TypeOK
<1> QED
  BY TypeInit, TypeNext, PTL DEF Spec

-----------------------------------------------------------------------------
(* Traps.                                                                  *)

\* A path without trap OIDs never had a trap.
MuteIsSilent == \A p \in Mute : told[p] = "none"
TrapInv == TypeOK /\ TrapsAgree /\ MuteIsSilent

\* The trap onCreate sends is right for the defaults of the constructor.
LEMMA NewItemIsNormal == getState(NewItem) = "normal"
  BY DEF getState, NewItem, ItemFields, Alarms

\* A row and the last trap about it, as TrapInv wants them.
Agrees(p, row) == IF p \in Mute THEN row.told = "none"
                                ELSE row.told = getState(row.item)

LEMMA GetItemAgrees ==
  ASSUME TrapInv, NEW p \in Paths
  PROVE  Agrees(p, getItem(p))
<1>1. CASE p \in rows
  BY <1>1 DEF getItem, Agrees, TrapInv, TrapsAgree, MuteIsSilent
<1>2. CASE p \notin rows
  BY <1>2, NewItemIsNormal DEF getItem, send_notify, Agrees, TrapInv, MuteIsSilent
<1> QED
  BY <1>1, <1>2

\* setFields keeps a row and its last trap in agreement, since it compares
\* the states before and after.
LEMMA SetFieldsOfAgrees ==
  ASSUME NEW p, NEW row, Agrees(p, row), NEW fields
  PROVE  Agrees(p, setFieldsOf(p, row, fields))
  BY DEF Agrees, setFieldsOf, send_notify

LEMMA KeepAgrees ==
  ASSUME TrapInv, NEW p \in Paths, NEW row, Agrees(p, row), Keep(p, row)
  PROVE  TrapsAgree' /\ MuteIsSilent'
<1>1. /\ item'[p] = row.item /\ told'[p] = row.told
      /\ \A q \in Paths \ {p} : item'[q] = item[q] /\ told'[q] = told[q]
      /\ rows' = rows \union {p} /\ rows \subseteq Paths
  BY DEF Keep, TrapInv, TypeOK
<1> QED
  BY <1>1, TableAssumption
  DEF Agrees, TrapInv, TrapsAgree, MuteIsSilent

LEMMA DropItemAgrees ==
  ASSUME TrapInv, NEW gone, dropItem(gone)
  PROVE  TrapsAgree' /\ MuteIsSilent'
<1>1. \A p \in Paths \ gone : item'[p] = item[p] /\ told'[p] = told[p]
  BY DEF dropItem
<1>2. \A p \in Mute : told'[p] = told[p]
  BY TableAssumption DEF dropItem, send_notify
<1>3. rows' = rows \ gone /\ rows \subseteq Paths
  BY DEF dropItem, TrapInv, TypeOK
<1> QED
  BY <1>1, <1>2, <1>3 DEF TrapInv, TrapsAgree, MuteIsSilent

LEMMA TrapNext == TrapInv /\ [Next]_vars => TrapInv'
<1> SUFFICES ASSUME TrapInv, [Next]_vars PROVE TrapsAgree' /\ MuteIsSilent'
  BY TypeNext DEF TrapInv
<1> DEFINE m == Head(inbox)
           Of(i) == Only(m.fields, IfaceFields(i))
<1>0. TypeOK
  BY DEF TrapInv
<1>1. CASE UNCHANGED <<rows, item, told>>
  BY <1>1 DEF TrapInv, TrapsAgree, MuteIsSilent
<1>2. CASE Objects
  BY <1>1, <1>2 DEF Objects, AddInterfaces, ChangeProperty, RemoveInterfaces
<1>3. CASE Update
  <2>1. CASE GetSubTree
    BY <2>1, DropItemAgrees DEF GetSubTree
  <2>2. CASE Store
    <3>1. PICK r \in reply :
            Keep(r.path, setFieldsOf(r.path, getItem(r.path), r.fields))
      BY <2>2 DEF Store
    <3>2. r.path \in Paths
      BY <1>0 DEF TypeOK
    <3> QED
      BY <3>1, <3>2, GetItemAgrees, SetFieldsOfAgrees, KeepAgrees
  <2>3. CASE (\E p \in Paths : GetAll(p)) \/ RunLoop
    BY <1>1, <2>3 DEF GetAll, RunLoop
  <2> QED
    BY <1>3, <2>1, <2>2, <2>3 DEF Update
<1>4. CASE Loop
  <2>0. m.path \in Paths
    BY <1>0, <1>4, DispatchType
    DEF Loop, onInterfacesAdded, onInterfacesRemoved, onPropertiesChanged,
        Discard, Message
  <2>1. CASE onInterfacesAdded
    <3>1. CASE Owned(m)
      <4> DEFINE row == setFieldsOf(m.path, setFieldsOf(m.path, setFieldsOf(m.path,
                          getItem(m.path), Of("Critical")), Of("Warning")), Of("Value"))
      <4>1. Agrees(m.path, row)
        BY <2>0, GetItemAgrees, SetFieldsOfAgrees
      <4>2. Keep(m.path, row)
        BY <2>1, <3>1 DEF onInterfacesAdded
      <4> HIDE DEF row
      <4> QED
        BY <2>0, <4>1, <4>2, KeepAgrees
    <3>2. CASE ~Owned(m)
      BY <1>1, <2>1, <3>2 DEF onInterfacesAdded
    <3> QED
      BY <3>1, <3>2
  <2>2. CASE onInterfacesRemoved
    <3>1. CASE Owned(m) /\ m.path \in rows
      BY <2>2, <3>1, DropItemAgrees DEF onInterfacesRemoved
    <3>2. CASE ~(Owned(m) /\ m.path \in rows)
      BY <1>1, <2>2, <3>2 DEF onInterfacesRemoved
    <3> QED
      BY <3>1, <3>2
  <2>3. CASE onPropertiesChanged
    <3>1. CASE m.path \in rows
      <4>1. Keep(m.path, setFieldsOf(m.path, getItem(m.path), m.fields))
        BY <2>3, <3>1 DEF onPropertiesChanged
      <4> QED
        BY <2>0, <4>1, GetItemAgrees, SetFieldsOfAgrees, KeepAgrees
    <3>2. CASE m.path \notin rows
      BY <1>1, <2>3, <3>2 DEF onPropertiesChanged
    <3> QED
      BY <3>1, <3>2
  <2>4. CASE Discard
    BY <1>1, <2>4 DEF Discard
  <2> QED
    BY <1>4, <2>1, <2>2, <2>3, <2>4 DEF Loop
<1>5. CASE Restart
  BY <1>5 DEF Restart, TrapInv, TrapsAgree, MuteIsSilent
<1>6. CASE UNCHANGED vars
  BY <1>1, <1>6 DEF vars
<1> QED
  BY <1>2, <1>3, <1>4, <1>5, <1>6 DEF Next, Agent

\* In every state, the last trap about a sensor is the state its row shows:
\* traps and GETs never disagree, under every fault of the model.
THEOREM TrapsAlwaysAgree == Spec => []TrapsAgree
<1>1. Init => TrapInv
  BY TypeInit, TableAssumption DEF Init, TrapInv, TrapsAgree, MuteIsSilent
<1>2. TrapInv => TrapsAgree
  BY DEF TrapInv
<1> QED
  BY <1>1, <1>2, TrapNext, PTL DEF Spec

LEMMA GoneNext ==
  ASSUME "restart" \notin Faults, TrapInv, GoneIsNotified, [Next]_vars
  PROVE  GoneIsNotified'
<1>0. TypeOK /\ ~Restart
  BY DEF TrapInv, Restart
<1>1. CASE \/ UNCHANGED <<rows, told>>
          \/ \E p \in Paths, row \in Row : Keep(p, row)
  BY <1>0, <1>1 DEF GoneIsNotified, Keep, TypeOK
<1>2. CASE \E gone \in SUBSET Paths : dropItem(gone)
  <2>1. PICK gone \in SUBSET Paths : dropItem(gone)
    BY <1>2
  <2>2. \A p \in gone \cap rows : told'[p] \in {"none", "disabled"}
    BY <2>1 DEF dropItem, send_notify, TrapInv, MuteIsSilent
  <2>3. \A p \in Paths \ (gone \cap rows) : told'[p] = told[p]
    BY <2>1 DEF dropItem
  <2> QED
    BY <1>0, <2>1, <2>2, <2>3 DEF GoneIsNotified, dropItem
<1>3. CASE Objects
  BY <1>1, <1>3 DEF Objects, AddInterfaces, ChangeProperty, RemoveInterfaces
<1>4. CASE Update
  <2>1. CASE GetSubTree
    <3>1. rows \subseteq Paths
      BY <1>0 DEF TypeOK
    <3>2. PICK found \in SUBSET Paths : dropItem(rows \ found)
      BY <2>1 DEF GetSubTree
    <3>3. rows \ found \in SUBSET Paths
      BY <3>1
    <3> QED
      BY <1>2, <3>2, <3>3
  <2>2. CASE Store
    <3>1. PICK r \in reply :
            Keep(r.path, setFieldsOf(r.path, getItem(r.path), r.fields))
      BY <2>2 DEF Store
    <3>2. r.path \in Paths
      BY <1>0 DEF TypeOK
    <3> QED
      BY <1>0, <1>1, <3>1, <3>2, GetItemType, SetFieldsOfType
  <2>3. CASE (\E p \in Paths : GetAll(p)) \/ RunLoop
    BY <1>1, <2>3 DEF GetAll, RunLoop
  <2> QED
    BY <1>4, <2>1, <2>2, <2>3 DEF Update
<1>5. CASE Loop
  <2> DEFINE m == Head(inbox)
             Of(i) == Only(m.fields, IfaceFields(i))
             added == setFieldsOf(m.path, setFieldsOf(m.path, setFieldsOf(m.path,
                        getItem(m.path), Of("Critical")), Of("Warning")), Of("Value"))
             changed == setFieldsOf(m.path, getItem(m.path), m.fields)
  <2>0. m.path \in Paths
    BY <1>0, <1>5, DispatchType
    DEF Loop, onInterfacesAdded, onInterfacesRemoved, onPropertiesChanged,
        Discard, Message
  <2>1. added \in Row /\ changed \in Row
    BY <1>0, <2>0, GetItemType, SetFieldsOfType
  <2>2. \/ UNCHANGED <<rows, told>>
        \/ Keep(m.path, added) \/ Keep(m.path, changed)
        \/ dropItem({m.path})
    BY <1>5 DEF Loop, onInterfacesAdded, onInterfacesRemoved,
                onPropertiesChanged, Discard
  <2> HIDE DEF added, changed, m
  <2> QED
    BY <1>1, <1>2, <2>0, <2>1, <2>2
<1> QED
  BY <1>0, <1>1, <1>3, <1>4, <1>5 DEF Next, Agent, vars

\* Unless the agent is restarted, no manager keeps a state for a sensor that
\* has no row any more: every way a row goes sends its last trap.
THEOREM GoneAlwaysNotified ==
  ASSUME "restart" \notin Faults
  PROVE  Spec => []GoneIsNotified
<1> DEFINE Inv == TrapInv /\ GoneIsNotified
<1>1. Init => Inv
  BY TypeInit, TableAssumption
  DEF Init, TrapInv, TrapsAgree, MuteIsSilent, GoneIsNotified
<1>2. Inv /\ [Next]_vars => Inv'
  BY TrapNext, GoneNext
<1>3. Inv => GoneIsNotified
  OBVIOUS
<1> QED
  BY <1>1, <1>2, <1>3, PTL DEF Spec

-----------------------------------------------------------------------------
(* The table implements SensorMib.                                         *)

View == [p \in Paths |-> IF p \in rows THEN getState(item[p]) ELSE "absent"]

\* Whatever happens to one sensor, a step that leaves the others alone and its
\* trap in agreement with its row is one of SensorMib.
LEMMA MibChange ==
  ASSUME View' \in [Paths -> States \union {"absent"}],
         told' = [p \in Paths |-> IF View'[p] = View[p] THEN told[p]
                                  ELSE Mib!Announced(p, View'[p])]
  PROVE  Mib!Next
  BY DEF Mib!Next, Mib!Change, View

LEMMA KeepIsMib ==
  ASSUME TrapInv, NEW p \in Paths, NEW row \in Row, Agrees(p, row), Keep(p, row)
  PROVE  Mib!Next
<1>1. /\ rows' = rows \union {p} /\ rows \subseteq Paths
      /\ \A q \in Paths : item'[q] = IF q = p THEN row.item ELSE item[q]
      /\ told' = [q \in Paths |-> IF q = p THEN row.told ELSE told[q]]
  BY DEF Keep, TrapInv, TypeOK
<1>2. View'[p] = getState(row.item) /\ \A q \in Paths \ {p} : View'[q] = View[q]
  BY <1>1 DEF View
<1>3. View' \in [Paths -> States \union {"absent"}]
  BY GetStateType DEF View
<1>4. getState(row.item) \in States /\ "absent" \notin States
  BY GetStateType DEF States
<1>5. row.told = IF View'[p] = View[p] THEN told[p] ELSE Mib!Announced(p, View'[p])
  <2>1. CASE p \in Mute
    BY <1>2, <2>1 DEF Agrees, TrapInv, MuteIsSilent, Mib!Announced
  <2>2. CASE p \notin Mute /\ View'[p] = View[p]
    <3>1. p \in rows /\ getState(item[p]) = getState(row.item)
      BY <1>2, <1>4, <2>2 DEF View
    <3> QED
      BY <2>2, <3>1 DEF Agrees, TrapInv, TrapsAgree
  <2>3. CASE p \notin Mute /\ View'[p] # View[p]
    BY <1>2, <1>4, <2>3 DEF Agrees, Mib!Announced
  <2> QED
    BY <2>1, <2>2, <2>3
<1>6. told' = [q \in Paths |-> IF View'[q] = View[q] THEN told[q]
                               ELSE Mib!Announced(q, View'[q])]
  BY <1>1, <1>2, <1>5
<1> QED
  BY <1>3, <1>6, MibChange

LEMMA DropItemIsMib ==
  ASSUME TrapInv, NEW gone \in SUBSET Paths, dropItem(gone)
  PROVE  Mib!Next
<1>1. /\ rows' = rows \ gone
      /\ \A q \in Paths \ gone : item'[q] = item[q]
      /\ told' = [q \in Paths |-> IF q \in gone \cap rows
                                   THEN send_notify(q, told[q], "disabled")
                                   ELSE told[q]]
  BY DEF dropItem
<1>2. \A q \in Paths \ (gone \cap rows) : View'[q] = View[q]
  BY <1>1 DEF View
<1>3. \A q \in gone \cap rows : View'[q] = "absent" /\ View[q] # "absent"
  BY <1>1, GetStateType DEF View, States
<1>4. View' \in [Paths -> States \union {"absent"}]
  BY GetStateType DEF View
<1>5. told' = [q \in Paths |-> IF View'[q] = View[q] THEN told[q]
                               ELSE Mib!Announced(q, View'[q])]
  BY <1>1, <1>2, <1>3 DEF send_notify, Mib!Announced
<1> QED
  BY <1>4, <1>5, MibChange

LEMMA MibNext == TrapInv /\ [Next]_vars => [Mib!Next]_<<View, told>>
<1> SUFFICES ASSUME TrapInv, [Next]_vars PROVE [Mib!Next]_<<View, told>>
  OBVIOUS
<1> DEFINE m == Head(inbox)
           Of(i) == Only(m.fields, IfaceFields(i))
           added == setFieldsOf(m.path, setFieldsOf(m.path, setFieldsOf(m.path,
                      getItem(m.path), Of("Critical")), Of("Warning")), Of("Value"))
           changed == setFieldsOf(m.path, getItem(m.path), m.fields)
<1>0. TypeOK
  BY DEF TrapInv
<1>1. CASE UNCHANGED <<rows, item, told>>
  BY <1>1 DEF View
<1>2. CASE Objects
  BY <1>1, <1>2 DEF Objects, AddInterfaces, ChangeProperty, RemoveInterfaces
<1>3. CASE GetSubTree
  <2>1. PICK found \in SUBSET Paths : dropItem(rows \ found)
    BY <1>3 DEF GetSubTree
  <2>2. rows \ found \in SUBSET Paths
    BY <1>0 DEF TypeOK
  <2> QED
    BY <2>1, <2>2, DropItemIsMib
<1>4. CASE Store
  <2>1. PICK r \in reply :
          Keep(r.path, setFieldsOf(r.path, getItem(r.path), r.fields))
    BY <1>4 DEF Store
  <2>2. r.path \in Paths
    BY <1>0 DEF TypeOK
  <2>3. /\ setFieldsOf(r.path, getItem(r.path), r.fields) \in Row
        /\ Agrees(r.path, setFieldsOf(r.path, getItem(r.path), r.fields))
    BY <1>0, <2>2, GetItemType, SetFieldsOfType, GetItemAgrees, SetFieldsOfAgrees
  <2> QED
    BY <2>1, <2>2, <2>3, KeepIsMib
<1>5. CASE (\E p \in Paths : GetAll(p)) \/ RunLoop
  BY <1>1, <1>5 DEF GetAll, RunLoop
<1>6. CASE Loop
  <2>0. m.path \in Paths
    BY <1>0, <1>6, DispatchType
    DEF Loop, onInterfacesAdded, onInterfacesRemoved, onPropertiesChanged,
        Discard, Message
  <2>1. /\ added \in Row /\ Agrees(m.path, added)
        /\ changed \in Row /\ Agrees(m.path, changed)
    BY <1>0, <2>0, GetItemType, SetFieldsOfType, GetItemAgrees, SetFieldsOfAgrees
  <2>2. \/ UNCHANGED <<rows, item, told>>
        \/ Keep(m.path, added) \/ Keep(m.path, changed)
        \/ dropItem({m.path})
    BY <1>6 DEF Loop, onInterfacesAdded, onInterfacesRemoved,
                onPropertiesChanged, Discard
  <2> HIDE DEF added, changed, m
  <2> QED
    BY <1>1, <2>0, <2>1, <2>2, KeepIsMib, DropItemIsMib
<1>7. CASE Restart
  BY <1>7 DEF Restart, View, Mib!Next, Mib!Restart
<1>8. CASE UNCHANGED vars
  BY <1>1, <1>8 DEF vars
<1> QED
  BY <1>2, <1>3, <1>4, <1>5, <1>6, <1>7, <1>8 DEF Next, Agent, Update

\* A sensors table, with all the faults of its surroundings, is what SensorMib
\* promises a manager: rows and traps change together and in no other way,
\* except that the agent may end.
THEOREM ImplementsMib == Spec => MibSpec
<1>1. Init => Mib!Init
  BY DEF Init, Mib!Init
<1>2. Init => TrapInv
  BY TypeInit, TableAssumption DEF Init, TrapInv, TrapsAgree, MuteIsSilent
<1>3. TrapInv /\ [Next]_vars => [Mib!Next]_<<View, told>>
  BY MibNext
<1> QED
  BY <1>1, <1>2, <1>3, TrapNext, PTL DEF Spec, MibSpec, Mib!Spec, View

=============================================================================
