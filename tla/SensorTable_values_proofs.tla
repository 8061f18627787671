---------------------- MODULE SensorTable_values_proofs ----------------------
(***************************************************************************)
(* What the rows hold: the proofs of Accurate and AlarmReaches, with all   *)
(* faults.  For each property of each object the invariant says where its  *)
(* value is on the way to the row: in the queue, in the reply, or there.   *)
(***************************************************************************)
EXTENDS SensorTable_rows_proofs

\* A message that will set the field f of p's row; one that will drop the row.
Carries(p, f, m) ==
    m.path = p /\ m.type \in {"Added", "Changed"} /\ f \in DOMAIN m.fields
Drops(p, m) == m.path = p /\ m.type = "Removed" /\ Owned(m)
Matters(p, f, m) == Carries(p, f, m) \/ Drops(p, m)

\* The queue says nothing of the field, or message n says the last word.
Silent(p, f) == \A n \in DOMAIN inbox : ~Matters(p, f, inbox[n])
LastWord(p, f, n) ==
    /\ Matters(p, f, inbox[n])
    /\ \A k \in DOMAIN inbox : k > n => ~Matters(p, f, inbox[k])

\* The value the object publishes is on its way.  A change reaches its row
\* only if nothing drops that row before.
InReply(p, f) ==
    \E r \in reply : r.path = p /\ f \in DOMAIN r.fields /\ r.fields[f] = val[p][f]
InRow(p, f) == p \in rows /\ (val[p][f] \in FieldType(f) => item[p][f] = val[p][f])
Undropped(p) == \A n \in DOMAIN inbox : ~Drops(p, inbox[n])
Brings(p, f, m) ==
    /\ Carries(p, f, m)
    /\ m.fields[f] = val[p][f]
    /\ m.type = "Changed" => p \in rows /\ Undropped(p)
Arrives(p, f) ==
    \/ Silent(p, f) /\ (InReply(p, f) \/ InRow(p, f))
    \/ \E n \in DOMAIN inbox : LastWord(p, f, n) /\ Brings(p, f, inbox[n])

\* What the object does not publish is not in its row, or goes with it.
Blank(p, f) ==
    item[p][f] = NewItem[f] /\ \A r \in reply : r.path = p => f \notin DOMAIN r.fields
Cleared(p, f) ==
    \/ Silent(p, f) /\ Blank(p, f)
    \/ \E n \in DOMAIN inbox : LastWord(p, f, n) /\ Drops(p, inbox[n])

\* The update visits each object once, and an object is new to it then.
Once ==
    /\ Done
    /\ phase = "start" => rows = {}
    /\ \A r \in reply : r.path \notin todo \union rows
    /\ rows \cap todo = {}

\* InterfacesAdded carries properties of the interfaces it names.
Named == \A n \in DOMAIN inbox :
    inbox[n].type = "Added" => DOMAIN inbox[n].fields \subseteq FieldsOf(inbox[n].ifaces)

Heard(p) ==
    /\ \A f \in FieldsOf(has[p]) \ unheard[p] : Arrives(p, f)
    /\ \A f \in ItemFields \ FieldsOf(has[p]) : Cleared(p, f)
ValuesInv == TypeOK /\ Once /\ Named /\ \A p \in Paths : Heard(p)

-----------------------------------------------------------------------------
(* Fields and rows.                                                        *)

\* Only interfaces the table owns have fields.
LEMMA FieldsAreOwned ==
  ASSUME NEW I, NEW f \in FieldsOf(I)
  PROVE  I \cap OwnedIfaces # {} /\ f \in ItemFields
<1>1. PICK i \in I : f \in IfaceFields(i)
  BY DEF FieldsOf
<1>2. i \in {"Value", "Warning", "Critical"}
  BY <1>1 DEF IfaceFields
<1> QED
  BY <1>1, <1>2, TableAssumption DEF OwnedIfaces, FieldsOf

LEMMA FieldsOfMinus ==
  ASSUME NEW I, NEW J
  PROVE  /\ FieldsOf(I \ J) \subseteq FieldsOf(I)
         /\ FieldsOf(I) \subseteq FieldsOf(I \ J) \union FieldsOf(J)
         /\ FieldsOf(I \union J) = FieldsOf(I) \union FieldsOf(J)
  BY DEF FieldsOf

\* A field that a message sets, and the same in the row of p.
Set(i, fields, f) ==
    IF f \in DOMAIN fields /\ fields[f] \in FieldType(f) THEN fields[f] ELSE i[f]

LEMMA SetOne ==
  ASSUME NEW p, NEW row, NEW fields, NEW f \in ItemFields
  PROVE  setFieldsOf(p, row, fields).item[f] = Set(row.item, fields, f)
  BY DEF setFieldsOf, setFields, Set

\* The calls for one interface after another set what one call would.
LEMMA SetChain ==
  ASSUME NEW p, NEW row, NEW fields, NEW f \in ItemFields
  PROVE  setFieldsOf(p, setFieldsOf(p, setFieldsOf(p, row,
            Only(fields, IfaceFields("Critical"))),
            Only(fields, IfaceFields("Warning"))),
            Only(fields, IfaceFields("Value"))).item[f] = Set(row.item, fields, f)
<1> DEFINE C == Only(fields, IfaceFields("Critical"))
           W == Only(fields, IfaceFields("Warning"))
           V == Only(fields, IfaceFields("Value"))
           row1 == setFieldsOf(p, row, C)
           row2 == setFieldsOf(p, row1, W)
<1>1. \A G : /\ f \in DOMAIN Only(fields, G) <=> f \in DOMAIN fields /\ f \in G
             /\ f \in DOMAIN Only(fields, G) => Only(fields, G)[f] = fields[f]
  BY DEF Only
<1>2. f \in IfaceFields("Critical") \/ f \in IfaceFields("Warning")
        \/ f \in IfaceFields("Value")
  BY DEF IfaceFields, ItemFields, Alarms
<1>3. /\ row1.item[f] = Set(row.item, C, f)
      /\ row2.item[f] = Set(row1.item, W, f)
      /\ setFieldsOf(p, row2, V).item[f] = Set(row2.item, V, f)
  BY SetOne
<1>4. /\ f \in DOMAIN C <=> f \in DOMAIN fields /\ f \in IfaceFields("Critical")
      /\ f \in DOMAIN W <=> f \in DOMAIN fields /\ f \in IfaceFields("Warning")
      /\ f \in DOMAIN V <=> f \in DOMAIN fields /\ f \in IfaceFields("Value")
      /\ f \in DOMAIN C => C[f] = fields[f]
      /\ f \in DOMAIN W => W[f] = fields[f]
      /\ f \in DOMAIN V => V[f] = fields[f]
  BY <1>1
<1> HIDE DEF C, W, V, row1, row2
<1>5. setFieldsOf(p, row2, V).item[f] = Set(row.item, fields, f)
  BY <1>2, <1>3, <1>4 DEF Set
<1> QED
  BY <1>5 DEF C, W, V, row1, row2

\* The row as getItem returns it.
LEMMA GetItemItem ==
  ASSUME TypeOK, NEW p \in Paths
  PROVE  getItem(p).item = item[p]
  BY DEF getItem, TypeOK

LEMMA KeepItem ==
  ASSUME TypeOK, NEW p \in Paths, NEW row, Keep(p, row)
  PROVE  /\ rows' = rows \union {p}
         /\ item'[p] = row.item
         /\ \A q \in Paths : q # p => item'[q] = item[q]
  BY DEF Keep, TypeOK

-----------------------------------------------------------------------------
(* The queue.                                                              *)

\* A message that does not matter joins the queue.
LEMMA WordStays ==
  ASSUME TypeOK, NEW p, NEW f, NEW m \in Message, inbox' = Append(inbox, m),
         ~Matters(p, f, m)
  PROVE  /\ Silent(p, f) => Silent(p, f)'
         /\ \A n \in DOMAIN inbox : LastWord(p, f, n) =>
                n \in DOMAIN inbox' /\ inbox'[n] = inbox[n] /\ LastWord(p, f, n)'
<1>0. PICK last \in Nat : last = Len(inbox) + 1
  BY Appended
<1>1. DOMAIN inbox' = DOMAIN inbox \union {last} /\ inbox'[last] = m
  BY <1>0, Appended
<1>2. \A n \in DOMAIN inbox : inbox'[n] = inbox[n]
  BY Appended
<1>3. \A n \in DOMAIN inbox : Matters(p, f, inbox'[n]) <=> Matters(p, f, inbox[n])
  BY <1>2
<1>4. ~Matters(p, f, inbox'[last])
  BY <1>1
<1> QED
  BY <1>1, <1>2, <1>3, <1>4 DEF Silent, LastWord, Matters, Carries, Drops, Owned

\* One that matters says the last word.
LEMMA WordSaid ==
  ASSUME TypeOK, NEW p, NEW f, NEW m \in Message, inbox' = Append(inbox, m),
         Matters(p, f, m)
  PROVE  \E n \in DOMAIN inbox' : inbox'[n] = m /\ LastWord(p, f, n)'
<1>0. PICK last \in Nat : last = Len(inbox) + 1
  BY Appended
<1>1. last \in DOMAIN inbox' /\ inbox'[last] = m
  BY <1>0, Appended
<1>2. \A n \in DOMAIN inbox' : ~(n > last)
  BY <1>0, Appended
<1>3. Matters(p, f, inbox'[last])
  BY <1>1
<1> QED
  BY <1>1, <1>2, <1>3 DEF LastWord, Matters, Carries, Drops, Owned

LEMMA UndroppedStays ==
  ASSUME TypeOK, NEW p, NEW m \in Message, inbox' = Append(inbox, m),
         ~Drops(p, m), Undropped(p)
  PROVE  Undropped(p)'
<1>0. PICK last \in Nat : last = Len(inbox) + 1
  BY Appended
<1>1. DOMAIN inbox' = DOMAIN inbox \union {last} /\ inbox'[last] = m
  BY <1>0, Appended
<1>2. \A n \in DOMAIN inbox : inbox'[n] = inbox[n]
  BY Appended
<1> QED
  BY <1>1, <1>2 DEF Undropped, Drops, Owned

\* The head of the queue is handled.  Only the changes for a row that it drops
\* may be orphaned.
Handled ==
    /\ DOMAIN inbox' = 1 .. Len(inbox) - 1
    /\ \A n \in 1 .. Len(inbox) - 1 :
          /\ inbox'[n].path = inbox[n + 1].path
          /\ inbox'[n].ifaces = inbox[n + 1].ifaces
          /\ inbox'[n].fields = inbox[n + 1].fields
          /\ \/ inbox'[n].type = inbox[n + 1].type
             \/ /\ Drops(inbox[n + 1].path, inbox[1])
                /\ inbox[n + 1].type = "Changed"
                /\ inbox'[n].type = "Unmatched"

LEMMA TailHandles ==
  ASSUME TypeOK, inbox # <<>>, inbox' = Tail(inbox)
  PROVE  Handled
<1>1. inbox \in Seq(Message)
  BY DEF TypeOK, Message
<1> QED
  BY <1>1, HeadTailProperties, LenProperties DEF Handled

\* A message says in its new place what it said before, or is orphaned.
LEMMA SameWord ==
  ASSUME Handled, NEW p, NEW f, NEW n \in 1 .. Len(inbox) - 1
  PROVE  /\ Matters(p, f, inbox[n])' => Matters(p, f, inbox[n + 1])
         /\ inbox'[n].type = inbox[n + 1].type
                => (Matters(p, f, inbox[n])' <=> Matters(p, f, inbox[n + 1]))
  BY DEF Handled, Matters, Carries, Drops, Owned

LEMMA WordGone ==
  ASSUME TypeOK, inbox # <<>>, Handled, NEW p, NEW f,
         Silent(p, f) \/ LastWord(p, f, 1)
  PROVE  Silent(p, f)'
<1>0. /\ Len(inbox) \in Nat /\ Len(inbox) >= 1
      /\ DOMAIN inbox = 1 .. Len(inbox)
      /\ DOMAIN inbox' = 1 .. Len(inbox) - 1
  BY QueueDomain DEF Handled
<1>1. \A k \in DOMAIN inbox : k > 1 => ~Matters(p, f, inbox[k])
  BY DEF Silent, LastWord
<1>2. ASSUME NEW n \in DOMAIN inbox' PROVE ~Matters(p, f, inbox[n])'
  <2>1. n + 1 \in DOMAIN inbox /\ n + 1 > 1 /\ n \in 1 .. Len(inbox) - 1
    BY <1>0, <1>2
  <2> QED
    BY <1>1, <2>1, SameWord
<1> QED
  BY <1>2 DEF Silent

LEMMA WordMoves ==
  ASSUME TypeOK, inbox # <<>>, Handled, NEW p, NEW f,
         NEW n \in DOMAIN inbox, n # 1, LastWord(p, f, n),
         inbox[n].type = "Changed" => ~Drops(inbox[n].path, inbox[1])
  PROVE  \E k \in DOMAIN inbox' :
            /\ LastWord(p, f, k)'
            /\ inbox'[k].path = inbox[n].path
            /\ inbox'[k].type = inbox[n].type
            /\ inbox'[k].ifaces = inbox[n].ifaces
            /\ inbox'[k].fields = inbox[n].fields
<1>0. /\ Len(inbox) \in Nat /\ Len(inbox) >= 1
      /\ DOMAIN inbox = 1 .. Len(inbox)
      /\ DOMAIN inbox' = 1 .. Len(inbox) - 1
  BY QueueDomain DEF Handled
<1>1. PICK k \in Nat : k = n - 1
  BY <1>0
<1>2. k \in DOMAIN inbox' /\ k \in 1 .. Len(inbox) - 1 /\ k + 1 = n
  BY <1>0, <1>1
<1>3. /\ inbox'[k].path = inbox[n].path
      /\ inbox'[k].type = inbox[n].type
      /\ inbox'[k].ifaces = inbox[n].ifaces
      /\ inbox'[k].fields = inbox[n].fields
  BY <1>2 DEF Handled
<1>4. Matters(p, f, inbox[k])'
  BY <1>2, <1>3, SameWord DEF LastWord
<1>5. ASSUME NEW j \in DOMAIN inbox', j > k PROVE ~Matters(p, f, inbox[j])'
  <2>1. j + 1 \in DOMAIN inbox /\ j + 1 > n /\ j \in 1 .. Len(inbox) - 1
    BY <1>0, <1>1, <1>2, <1>5
  <2> QED
    BY <2>1, SameWord DEF LastWord
<1>6. LastWord(p, f, k)'
  BY <1>4, <1>5 DEF LastWord
<1> QED
  BY <1>2, <1>3, <1>6

LEMMA UndroppedMoves ==
  ASSUME TypeOK, inbox # <<>>, Handled, NEW p, Undropped(p)
  PROVE  Undropped(p)'
<1>0. /\ Len(inbox) \in Nat /\ Len(inbox) >= 1
      /\ DOMAIN inbox = 1 .. Len(inbox)
      /\ DOMAIN inbox' = 1 .. Len(inbox) - 1
  BY QueueDomain DEF Handled
<1>1. ASSUME NEW n \in DOMAIN inbox' PROVE ~Drops(p, inbox[n])'
  <2>1. n + 1 \in DOMAIN inbox /\ n \in 1 .. Len(inbox) - 1
    BY <1>0, <1>1
  <2>2. ~Drops(p, inbox[n + 1])
    BY <2>1 DEF Undropped
  <2> QED
    BY <2>1, <2>2 DEF Handled, Drops, Owned
<1> QED
  BY <1>1 DEF Undropped

LEMMA NamedMoves ==
  ASSUME TypeOK, inbox # <<>>, Handled, Named
  PROVE  Named'
<1>0. /\ Len(inbox) \in Nat /\ Len(inbox) >= 1
      /\ DOMAIN inbox = 1 .. Len(inbox)
      /\ DOMAIN inbox' = 1 .. Len(inbox) - 1
  BY QueueDomain DEF Handled
<1>1. ASSUME NEW n \in DOMAIN inbox', inbox'[n].type = "Added"
      PROVE  DOMAIN inbox'[n].fields \subseteq FieldsOf(inbox'[n].ifaces)
  <2>1. n + 1 \in DOMAIN inbox /\ n \in 1 .. Len(inbox) - 1
    BY <1>0, <1>1
  <2>2. inbox[n + 1].type = "Added" /\ inbox'[n].fields = inbox[n + 1].fields
        /\ inbox'[n].ifaces = inbox[n + 1].ifaces
    BY <1>1, <2>1 DEF Handled
  <2>3. DOMAIN inbox[n + 1].fields \subseteq FieldsOf(inbox[n + 1].ifaces)
    BY <2>1, <2>2 DEF Named
  <2> QED
    BY <2>2, <2>3
<1> QED
  BY <1>1 DEF Named, FieldsOf

LEMMA NamedStays ==
  ASSUME TypeOK, NEW m \in Message, inbox' = Append(inbox, m), Named,
         m.type = "Added" => DOMAIN m.fields \subseteq FieldsOf(m.ifaces)
  PROVE  Named'
<1>0. PICK last \in Nat : last = Len(inbox) + 1
  BY Appended
<1>1. DOMAIN inbox' = DOMAIN inbox \union {last} /\ inbox'[last] = m
  BY <1>0, Appended
<1>2. \A n \in DOMAIN inbox : inbox'[n] = inbox[n]
  BY Appended
<1> QED
  BY <1>1, <1>2 DEF Named, FieldsOf

-----------------------------------------------------------------------------
(* The objects' steps.                                                     *)

\* The queue as it was, or one more message that does not matter.
Joined(p, f) ==
    \/ UNCHANGED inbox
    \/ \E m \in Message : inbox' = Append(inbox, m) /\ ~Matters(p, f, m)

LEMMA JoinedWord ==
  ASSUME TypeOK, NEW p, NEW f, Joined(p, f)
  PROVE  /\ Silent(p, f) => Silent(p, f)'
         /\ \A n \in DOMAIN inbox : LastWord(p, f, n) =>
                n \in DOMAIN inbox' /\ inbox'[n] = inbox[n] /\ LastWord(p, f, n)'
         /\ Undropped(p) => Undropped(p)'
<1>1. CASE UNCHANGED inbox
  BY <1>1 DEF Silent, LastWord, Matters, Carries, Drops, Owned, Undropped
<1>2. ASSUME NEW m \in Message, inbox' = Append(inbox, m), ~Matters(p, f, m)
      PROVE  /\ Silent(p, f) => Silent(p, f)'
             /\ \A n \in DOMAIN inbox : LastWord(p, f, n) =>
                    n \in DOMAIN inbox' /\ inbox'[n] = inbox[n] /\ LastWord(p, f, n)'
             /\ Undropped(p) => Undropped(p)'
  <2>1. ~Drops(p, m)
    BY <1>2 DEF Matters
  <2>2. Undropped(p) => Undropped(p)'
    BY <1>2, <2>1, UndroppedStays
  <2> QED
    BY <1>2, <2>2, WordStays
<1> QED
  BY <1>1, <1>2 DEF Joined

LEMMA ArrivesStays ==
  ASSUME TypeOK, NEW p, NEW f, Joined(p, f), Arrives(p, f),
         UNCHANGED <<reply, rows, item>>, val'[p][f] = val[p][f]
  PROVE  Arrives(p, f)'
<1>1. CASE Silent(p, f) /\ (InReply(p, f) \/ InRow(p, f))
  BY <1>1, JoinedWord DEF Arrives, InReply, InRow
<1>2. ASSUME NEW n \in DOMAIN inbox, LastWord(p, f, n), Brings(p, f, inbox[n])
      PROVE  Arrives(p, f)'
  <2>1. n \in DOMAIN inbox' /\ inbox'[n] = inbox[n] /\ LastWord(p, f, n)'
    BY <1>2, JoinedWord
  <2>2. Undropped(p) => Undropped(p)'
    BY JoinedWord
  <2>3. Brings(p, f, inbox[n])'
    BY <1>2, <2>1, <2>2 DEF Brings, Carries
  <2> QED
    BY <2>1, <2>3 DEF Arrives
<1> QED
  BY <1>1, <1>2 DEF Arrives

LEMMA ClearedStays ==
  ASSUME TypeOK, NEW p, NEW f, Joined(p, f), Cleared(p, f), UNCHANGED <<reply, item>>
  PROVE  Cleared(p, f)'
<1>1. CASE Silent(p, f) /\ Blank(p, f)
  BY <1>1, JoinedWord DEF Cleared, Blank, NewItem
<1>2. ASSUME NEW n \in DOMAIN inbox, LastWord(p, f, n), Drops(p, inbox[n])
      PROVE  Cleared(p, f)'
  <2>1. n \in DOMAIN inbox' /\ inbox'[n] = inbox[n] /\ LastWord(p, f, n)'
    BY <1>2, JoinedWord
  <2> QED
    BY <1>2, <2>1 DEF Cleared, Drops, Owned
<1> QED
  BY <1>1, <1>2 DEF Cleared

\* What a step of one object says of the others is nothing.
LEMMA OthersHeard ==
  ASSUME TypeOK, NEW p \in Paths, NEW q \in Paths, q # p, Heard(q),
         \/ UNCHANGED inbox
         \/ \E m \in Message : inbox' = Append(inbox, m) /\ m.path = p,
         UNCHANGED <<reply, rows, item>>,
         has'[q] = has[q], val'[q] = val[q], unheard'[q] = unheard[q]
  PROVE  Heard(q)'
<1>1. \A f : Joined(q, f)
  BY DEF Joined, Matters, Carries, Drops
<1>2. \A f \in FieldsOf(has[q]) \ unheard[q] : Arrives(q, f)'
  BY <1>1, ArrivesStays DEF Heard
<1>3. \A f \in ItemFields \ FieldsOf(has[q]) : Cleared(q, f)'
  BY <1>1, ClearedStays DEF Heard
<1>4. FieldsOf(has[q])' = FieldsOf(has[q])
  BY DEF FieldsOf
<1> QED
  BY <1>2, <1>3, <1>4 DEF Heard

LEMMA OnceObjects ==
  ASSUME Once, UNCHANGED <<phase, todo, reply, rows>>
  PROVE  Once'
  BY DEF Once, Done

LEMMA ValuesAddInterfaces ==
  ASSUME ValuesInv, NEW p \in Paths, AddInterfaces(p)
  PROVE  Once' /\ Named' /\ \A q \in Paths : Heard(q)'
<1>0. /\ UNCHANGED <<phase, todo, reply, rows, item>>
      /\ TypeOK /\ Once /\ Named /\ \A q \in Paths : Heard(q)
      /\ has \in [Paths -> SUBSET Ifaces]
      /\ val \in [Paths -> Published(Fields)]
      /\ unheard \in [Paths -> SUBSET Fields]
      /\ Fields \subseteq ItemFields
  BY TableAssumption DEF ValuesInv, AddInterfaces, TypeOK
<1>1. PICK I \in (SUBSET (Ifaces \ has[p])) \ {{}} :
        \E fields \in Published(FieldsOf(I)) :
          /\ has' = [has EXCEPT ![p] = @ \union I]
          /\ val' = [val EXCEPT ![p] = Overlay(@, fields)]
          /\ inbox' = Append(inbox, InterfacesAdded(p, I, fields))
          /\ unheard' = [unheard EXCEPT ![p] = @ \ FieldsOf(I)]
  BY DEF AddInterfaces
<1>2. PICK fields \in Published(FieldsOf(I)) :
          /\ has' = [has EXCEPT ![p] = @ \union I]
          /\ val' = [val EXCEPT ![p] = Overlay(@, fields)]
          /\ inbox' = Append(inbox, InterfacesAdded(p, I, fields))
          /\ unheard' = [unheard EXCEPT ![p] = @ \ FieldsOf(I)]
  BY <1>1
<1> DEFINE m == InterfacesAdded(p, I, fields)
<1>3. /\ m \in Message /\ m.path = p /\ m.type = "Added" /\ m.ifaces = I
      /\ m.fields = fields /\ DOMAIN fields = FieldsOf(I)
  <2>1. fields \in FieldsMap
    BY <1>0, FieldsOfType, PublishedIsFieldsMap
  <2>2. DOMAIN fields = FieldsOf(I)
    BY DEF Published
  <2> QED
    BY <2>1, <2>2 DEF InterfacesAdded, Message
<1>4. inbox' = Append(inbox, m)
  BY <1>2
<1>5. /\ has'[p] = has[p] \union I /\ val'[p] = Overlay(val[p], fields)
      /\ unheard'[p] = unheard[p] \ FieldsOf(I)
      /\ \A q \in Paths : q # p =>
            has'[q] = has[q] /\ val'[q] = val[q] /\ unheard'[q] = unheard[q]
  BY <1>0, <1>2
<1>6. \A f \in Fields : val'[p][f] = IF f \in FieldsOf(I) THEN fields[f] ELSE val[p][f]
  <2>1. DOMAIN val[p] = Fields
    BY <1>0 DEF Published
  <2> QED
    BY <1>3, <1>5, <2>1 DEF Overlay
<1> HIDE DEF m
<1>7. Once'
  BY <1>0, OnceObjects
<1>8. Named'
  BY <1>0, <1>3, <1>4, NamedStays
<1>9. ASSUME NEW q \in Paths, q # p PROVE Heard(q)'
  BY <1>0, <1>3, <1>4, <1>5, <1>9, OthersHeard
<1>10. FieldsOf(has[p])' = FieldsOf(has[p]) \union FieldsOf(I)
  <2>1. FieldsOf(has[p])' = FieldsOf(has'[p])
    BY DEF FieldsOf
  <2> QED
    BY <1>5, <2>1, FieldsOfMinus
<1>11. ASSUME NEW f \in FieldsOf(I) PROVE Arrives(p, f)'
  <2>1. Carries(p, f, m) /\ f \in Fields
    BY <1>3, FieldsOfType DEF Carries
  <2>2. PICK n \in DOMAIN inbox' : inbox'[n] = m /\ LastWord(p, f, n)'
    BY <1>0, <1>3, <1>4, <2>1, WordSaid DEF Matters
  <2>3. m.fields[f] = val'[p][f]
    BY <1>3, <1>6, <2>1
  <2>4. Brings(p, f, inbox[n])'
    BY <1>3, <2>1, <2>2, <2>3 DEF Brings, Carries
  <2> QED
    BY <2>2, <2>4 DEF Arrives
<1>12. ASSUME NEW f, f \notin FieldsOf(I) PROVE Joined(p, f)
  <2>1. ~Matters(p, f, m)
    BY <1>3, <1>12 DEF Matters, Carries, Drops
  <2> QED
    BY <1>3, <1>4, <2>1 DEF Joined
<1>13. ASSUME NEW f \in FieldsOf(has[p])' \ unheard'[p] PROVE Arrives(p, f)'
  <2>1. CASE f \in FieldsOf(I)
    BY <1>11, <2>1
  <2>2. CASE f \notin FieldsOf(I)
    <3>1. f \in FieldsOf(has[p]) \ unheard[p] /\ f \in Fields
      BY <1>5, <1>10, <1>13, <2>2, FieldsOfType
    <3>2. Arrives(p, f) /\ val'[p][f] = val[p][f]
      BY <1>0, <1>6, <2>2, <3>1 DEF Heard
    <3> QED
      BY <1>0, <1>12, <2>2, <3>2, ArrivesStays
  <2> QED
    BY <2>1, <2>2
<1>14. ASSUME NEW f \in ItemFields \ FieldsOf(has[p])' PROVE Cleared(p, f)'
  <2>1. f \notin FieldsOf(I) /\ f \in ItemFields \ FieldsOf(has[p])
    BY <1>10, <1>14
  <2> QED
    BY <1>0, <1>12, <2>1, ClearedStays DEF Heard
<1>15. Heard(p)'
  BY <1>13, <1>14 DEF Heard
<1> QED
  BY <1>7, <1>8, <1>9, <1>15

\* A change is on its way behind nothing that drops the row, or unheard.
LEMMA ValuesChangeProperty ==
  ASSUME ValuesInv, NEW p \in Paths, ChangeProperty(p)
  PROVE  Once' /\ Named' /\ \A q \in Paths : Heard(q)'
<1>0. /\ UNCHANGED <<has, phase, todo, reply, rows, item>>
      /\ TypeOK /\ Once /\ Named /\ \A q \in Paths : Heard(q)
      /\ val \in [Paths -> Published(Fields)]
      /\ unheard \in [Paths -> SUBSET Fields]
      /\ Fields \subseteq ItemFields
  BY TableAssumption DEF ValuesInv, ChangeProperty, TypeOK
<1>1. PICK f \in FieldsOf(has[p]) : \E x \in Payload(f) \ {val[p][f]} :
          /\ val' = [val EXCEPT ![p][f] = x]
          /\ inbox' = IF p \in rows
                      THEN Append(inbox, PropertiesChanged(p, [g \in {f} |-> x]))
                      ELSE inbox
          /\ unheard' = [unheard EXCEPT
                ![p] = IF Listens(p) THEN @ \ {f} ELSE @ \union {f}]
  BY DEF ChangeProperty
<1>2. PICK x \in Payload(f) \ {val[p][f]} :
          /\ val' = [val EXCEPT ![p][f] = x]
          /\ inbox' = IF p \in rows
                      THEN Append(inbox, PropertiesChanged(p, [g \in {f} |-> x]))
                      ELSE inbox
          /\ unheard' = [unheard EXCEPT
                ![p] = IF Listens(p) THEN @ \ {f} ELSE @ \union {f}]
  BY <1>1
<1> DEFINE m == PropertiesChanged(p, [g \in {f} |-> x])
<1>3. /\ m \in Message /\ m.path = p /\ m.type = "Changed"
      /\ DOMAIN m.fields = {f} /\ m.fields[f] = x
  <2>1. [g \in {f} |-> x] \in Published({f}) /\ f \in ItemFields
    BY <1>0, FieldsAreOwned DEF Published
  <2>2. [g \in {f} |-> x] \in FieldsMap
    BY <2>1, PublishedIsFieldsMap
  <2> QED
    BY <2>2 DEF PropertiesChanged, Message
<1>4. inbox' = IF p \in rows THEN Append(inbox, m) ELSE inbox
  BY <1>2
<1>5. /\ val'[p][f] = x
      /\ \A g : g # f => val'[p][g] = val[p][g]
      /\ unheard'[p] = IF Listens(p) THEN unheard[p] \ {f} ELSE unheard[p] \union {f}
      /\ \A q \in Paths : q # p => val'[q] = val[q] /\ unheard'[q] = unheard[q]
  <2>1. DOMAIN val[p] = Fields /\ f \in Fields
    BY <1>0, FieldsOfType DEF Published
  <2>2. val'[p] = [val[p] EXCEPT ![f] = x]
    BY <1>0, <1>2
  <2>3. \A g : g # f => val'[p][g] = val[p][g]
    BY <2>2
  <2>4. val'[p][f] = x
    BY <2>1, <2>2
  <2>5. \A q \in Paths : q # p => val'[q] = val[q] /\ unheard'[q] = unheard[q]
    BY <1>0, <1>2
  <2>6. unheard'[p] = IF Listens(p) THEN unheard[p] \ {f} ELSE unheard[p] \union {f}
    BY <1>0, <1>2
  <2> QED
    BY <2>3, <2>4, <2>5, <2>6
<1> HIDE DEF m
<1>6. Once'
  BY <1>0, OnceObjects
<1>7. Named'
  <2>1. CASE p \in rows
    BY <1>0, <1>3, <1>4, <2>1, NamedStays
  <2>2. CASE p \notin rows
    BY <1>0, <1>4, <2>2 DEF Named, FieldsOf
  <2> QED
    BY <2>1, <2>2
<1>8. ASSUME NEW q \in Paths, q # p PROVE Heard(q)'
  BY <1>0, <1>3, <1>4, <1>5, <1>8, OthersHeard
<1>9. FieldsOf(has[p])' = FieldsOf(has[p])
  BY <1>0 DEF FieldsOf
<1>10. ASSUME NEW g, g # f PROVE Joined(p, g)
  <2>1. ~Matters(p, g, m)
    BY <1>3, <1>10 DEF Matters, Carries, Drops
  <2> QED
    BY <1>3, <1>4, <2>1 DEF Joined
<1>11. ASSUME Listens(p) PROVE Arrives(p, f)'
  <2>1. p \in rows /\ Undropped(p)
    BY <1>11 DEF Listens, Undropped, Drops
  <2>2. Carries(p, f, m) /\ ~Drops(p, m)
    BY <1>3 DEF Carries, Drops
  <2>3. PICK n \in DOMAIN inbox' : inbox'[n] = m /\ LastWord(p, f, n)'
    BY <1>0, <1>3, <1>4, <2>1, <2>2, WordSaid DEF Matters
  <2>4. Undropped(p)'
    BY <1>0, <1>3, <1>4, <2>1, <2>2, UndroppedStays
  <2>5. Brings(p, f, inbox[n])'
    BY <1>0, <1>3, <1>5, <2>1, <2>2, <2>3, <2>4 DEF Brings, Carries
  <2> QED
    BY <2>3, <2>5 DEF Arrives
<1>12. ASSUME NEW g \in FieldsOf(has[p])' \ unheard'[p] PROVE Arrives(p, g)'
  <2>1. CASE g = f
    BY <1>5, <1>11, <1>12, <2>1
  <2>2. CASE g # f
    <3>1. g \in FieldsOf(has[p]) \ unheard[p]
      BY <1>5, <1>9, <1>12, <2>2
    <3>2. Arrives(p, g) /\ val'[p][g] = val[p][g]
      BY <1>0, <1>5, <2>2, <3>1 DEF Heard
    <3> QED
      BY <1>0, <1>10, <2>2, <3>2, ArrivesStays
  <2> QED
    BY <2>1, <2>2
<1>13. ASSUME NEW g \in ItemFields \ FieldsOf(has[p])' PROVE Cleared(p, g)'
  <2>1. g # f /\ g \in ItemFields \ FieldsOf(has[p])
    BY <1>9, <1>13
  <2> QED
    BY <1>0, <1>10, <2>1, ClearedStays DEF Heard
<1>14. Heard(p)'
  BY <1>12, <1>13 DEF Heard
<1> QED
  BY <1>6, <1>7, <1>8, <1>14

\* An interface that the table owns takes the whole row with it, one that it
\* does not own has no fields.
LEMMA ValuesRemoveInterfaces ==
  ASSUME ValuesInv, NEW p \in Paths, RemoveInterfaces(p)
  PROVE  Once' /\ Named' /\ \A q \in Paths : Heard(q)'
<1>0. /\ UNCHANGED <<phase, todo, reply, rows, item>>
      /\ TypeOK /\ Once /\ Named /\ \A q \in Paths : Heard(q)
      /\ has \in [Paths -> SUBSET Ifaces]
      /\ val \in [Paths -> Published(Fields)]
      /\ unheard \in [Paths -> SUBSET Fields]
  BY DEF ValuesInv, RemoveInterfaces, TypeOK
<1>1. PICK I \in (SUBSET has[p]) \ {{}} :
          /\ has' = [has EXCEPT ![p] = @ \ I]
          /\ val' = [val EXCEPT ![p] =
                        Overlay(@, [f \in FieldsOf(I) |-> NewItem[f]])]
          /\ inbox' = Append(inbox, InterfacesRemoved(p, I))
          /\ unheard' = [unheard EXCEPT
                ![p] = IF I \cap OwnedIfaces # {} THEN FieldsOf(has[p] \ I)
                                                  ELSE @ \ FieldsOf(I)]
  BY DEF RemoveInterfaces
<1> DEFINE m == InterfacesRemoved(p, I)
<1>2. m \in Message /\ m.path = p /\ m.type = "Removed" /\ m.ifaces = I
  BY <1>0, NoFieldsType DEF InterfacesRemoved, Message
<1>3. inbox' = Append(inbox, m)
  BY <1>1
<1>4. /\ has'[p] = has[p] \ I
      /\ val'[p] = Overlay(val[p], [f \in FieldsOf(I) |-> NewItem[f]])
      /\ unheard'[p] = IF I \cap OwnedIfaces # {} THEN FieldsOf(has[p] \ I)
                                                  ELSE unheard[p] \ FieldsOf(I)
      /\ \A q \in Paths : q # p =>
            has'[q] = has[q] /\ val'[q] = val[q] /\ unheard'[q] = unheard[q]
  BY <1>0, <1>1
<1> HIDE DEF m
<1>5. Once'
  BY <1>0, OnceObjects
<1>6. Named'
  BY <1>0, <1>2, <1>3, NamedStays
<1>7. ASSUME NEW q \in Paths, q # p PROVE Heard(q)'
  BY <1>0, <1>2, <1>3, <1>4, <1>7, OthersHeard
<1>8. FieldsOf(has[p])' = FieldsOf(has[p] \ I)
  BY <1>4 DEF FieldsOf
<1>9. Heard(p)'
  <2>1. CASE I \cap OwnedIfaces # {}
    <3>1. Drops(p, m)
      BY <1>2, <2>1 DEF Drops, Owned
    <3>2. FieldsOf(has[p])' \ unheard'[p] = {}
      BY <1>4, <1>8, <2>1
    <3>3. ASSUME NEW f PROVE Cleared(p, f)'
      <4>1. PICK n \in DOMAIN inbox' : inbox'[n] = m /\ LastWord(p, f, n)'
        BY <1>0, <1>2, <1>3, <3>1, WordSaid DEF Matters
      <4> QED
        BY <3>1, <4>1 DEF Cleared, Drops, Owned
    <3> QED
      BY <3>2, <3>3 DEF Heard
  <2>2. CASE I \cap OwnedIfaces = {}
    <3>1. FieldsOf(I) = {}
      <4>1. \A f \in FieldsOf(I) : FALSE
        BY <2>2, FieldsAreOwned
      <4> QED
        BY <4>1
    <3>2. FieldsOf(has[p])' = FieldsOf(has[p]) /\ unheard'[p] = unheard[p]
      <4>1. FieldsOf(has[p] \ I) = FieldsOf(has[p])
        <5>1. /\ FieldsOf(has[p] \ I) \subseteq FieldsOf(has[p])
              /\ FieldsOf(has[p]) \subseteq FieldsOf(has[p] \ I) \union FieldsOf(I)
          BY FieldsOfMinus
        <5> QED
          BY <3>1, <5>1
      <4>2. unheard'[p] = unheard[p] \ FieldsOf(I)
        BY <1>4, <2>2
      <4>3. unheard'[p] = unheard[p]
        BY <3>1, <4>2
      <4> QED
        BY <1>8, <4>1, <4>3
    <3>3. \A f \in Fields : val'[p][f] = val[p][f]
      <4>1. DOMAIN val[p] = Fields
        BY <1>0 DEF Published
      <4> QED
        BY <1>4, <3>1, <4>1 DEF Overlay
    <3>4. ASSUME NEW f PROVE Joined(p, f)
      <4>1. ~Matters(p, f, m)
        BY <1>2, <2>2 DEF Matters, Carries, Drops, Owned
      <4> QED
        BY <1>2, <1>3, <4>1 DEF Joined
    <3>5. ASSUME NEW f \in FieldsOf(has[p]) \ unheard[p] PROVE Arrives(p, f)'
      <4>1. Arrives(p, f) /\ val'[p][f] = val[p][f]
        BY <1>0, <3>3, <3>5, FieldsOfType DEF Heard
      <4> QED
        BY <1>0, <3>4, <4>1, ArrivesStays
    <3>6. ASSUME NEW f \in ItemFields \ FieldsOf(has[p]) PROVE Cleared(p, f)'
      BY <1>0, <3>4, <3>6, ClearedStays DEF Heard
    <3> QED
      BY <3>2, <3>5, <3>6 DEF Heard
  <2> QED
    BY <2>1, <2>2
<1> QED
  BY <1>5, <1>6, <1>7, <1>9

-----------------------------------------------------------------------------
(* The update.                                                             *)

LEMMA SameHeard ==
  ASSUME TypeOK, NEW q \in Paths, Heard(q),
         UNCHANGED <<has, val, unheard, inbox, reply, rows, item>>
  PROVE  Heard(q)'
<1>1. \A f : Joined(q, f)
  BY DEF Joined
<1>2. \A f \in FieldsOf(has[q]) \ unheard[q] : Arrives(q, f)'
  BY <1>1, ArrivesStays DEF Heard
<1>3. \A f \in ItemFields \ FieldsOf(has[q]) : Cleared(q, f)'
  BY <1>1, ClearedStays DEF Heard
<1>4. FieldsOf(has[q])' = FieldsOf(has[q])
  BY DEF FieldsOf
<1> QED
  BY <1>2, <1>3, <1>4 DEF Heard

\* There are no rows yet that GetSubTree could drop.
LEMMA ValuesGetSubTree ==
  ASSUME ValuesInv, GetSubTree
  PROVE  Once' /\ Named' /\ \A q \in Paths : Heard(q)'
<1>0. /\ TypeOK /\ Once /\ Named /\ \A q \in Paths : Heard(q)
      /\ UNCHANGED <<has, val, inbox, reply, unheard>>
      /\ phase' = "update" /\ rows = {} /\ reply = {}
      /\ item \in [Paths -> Item]
  BY DEF ValuesInv, GetSubTree, Once, Done, TypeOK
<1>1. PICK found \in SUBSET Paths : dropItem(rows \ found)
  BY DEF GetSubTree
<1>2. rows' = {} /\ item' = item
  BY <1>0, <1>1 DEF dropItem
<1>3. Once'
  BY <1>0, <1>2 DEF Once, Done
<1>4. Named'
  BY <1>0 DEF Named, FieldsOf
<1> QED
  BY <1>0, <1>2, <1>3, <1>4, SameHeard

\* The reply has what the object publishes now, and nothing else.  If signals
\* of the object are queued they say what the reply may lack.
LEMMA ValuesGetAll ==
  ASSUME ValuesInv, NEW p \in Paths, GetAll(p)
  PROVE  Once' /\ Named' /\ \A q \in Paths : Heard(q)'
<1>0. /\ TypeOK /\ Once /\ Named /\ \A q \in Paths : Heard(q)
      /\ UNCHANGED <<has, val, inbox, phase, rows, item>>
      /\ phase = "update" /\ reply = {} /\ p \in todo /\ p \notin rows
      /\ todo' = todo \ {p} /\ todo \subseteq Paths
      /\ val \in [Paths -> Published(Fields)]
      /\ unheard \in [Paths -> SUBSET Fields]
  BY DEF ValuesInv, GetAll, Once, TypeOK
<1>1. PICK fields :
        /\ reply' = {[path |-> p, fields |-> fields]}
        /\ \/ /\ fields = Only(val[p], FieldsOf(has[p]))
              /\ unheard' = [unheard EXCEPT ![p] = IF Queued(p) THEN @ ELSE {}]
           \/ /\ fields = NoFields
              /\ UNCHANGED unheard
  BY DEF GetAll
<1>2. /\ \A f : f \in DOMAIN fields => f \in FieldsOf(has[p])
      /\ \A q \in Paths : q # p => unheard'[q] = unheard[q]
      /\ \/ unheard'[p] = unheard[p]
         \/ ~Queued(p) /\ fields = Only(val[p], FieldsOf(has[p]))
  <2>1. CASE /\ fields = Only(val[p], FieldsOf(has[p]))
             /\ unheard' = [unheard EXCEPT ![p] = IF Queued(p) THEN @ ELSE {}]
    <3>1. \A f : f \in DOMAIN fields => f \in FieldsOf(has[p])
      BY <2>1 DEF Only
    <3>2. \A q \in Paths : q # p => unheard'[q] = unheard[q]
      BY <1>0, <2>1
    <3>3. unheard'[p] = unheard[p] \/ ~Queued(p)
      BY <1>0, <2>1
    <3> QED
      BY <2>1, <3>1, <3>2, <3>3
  <2>2. CASE fields = NoFields /\ UNCHANGED unheard
    <3>1. DOMAIN fields = {}
      BY <2>2 DEF NoFields
    <3>2. \A f : f \in DOMAIN fields => f \in FieldsOf(has[p])
      BY <3>1
    <3>3. unheard'[p] = unheard[p]
      BY <2>2
    <3>4. \A q \in Paths : q # p => unheard'[q] = unheard[q]
      BY <2>2
    <3> QED
      BY <3>2, <3>3, <3>4
  <2> QED
    BY <1>1, <2>1, <2>2
<1>3. Once'
  <2>1. \A r \in reply' : r.path = p
    BY <1>1
  <2> QED
    BY <1>0, <2>1 DEF Once, Done
<1>4. Named'
  BY <1>0 DEF Named, FieldsOf
<1>5. \A q : FieldsOf(has[q])' = FieldsOf(has[q])
  BY <1>0 DEF FieldsOf
<1>6. ASSUME NEW q, NEW f
      PROVE  /\ Silent(q, f)' <=> Silent(q, f)
             /\ \A n \in DOMAIN inbox : LastWord(q, f, n)' <=> LastWord(q, f, n)
             /\ Undropped(q)' <=> Undropped(q)
  BY <1>0 DEF Silent, LastWord, Undropped, Matters, Carries, Drops, Owned
<1>7. ASSUME NEW q \in Paths, NEW f, Arrives(q, f) PROVE Arrives(q, f)'
  <2>1. ~InReply(q, f)
    BY <1>0 DEF InReply
  <2>2. CASE Silent(q, f) /\ InRow(q, f)
    BY <1>0, <1>6, <2>2 DEF Arrives, InRow
  <2>3. ASSUME NEW n \in DOMAIN inbox, LastWord(q, f, n), Brings(q, f, inbox[n])
        PROVE  Arrives(q, f)'
    <3>1. Brings(q, f, inbox[n])'
      BY <1>0, <1>6, <2>3 DEF Brings, Carries
    <3> QED
      BY <1>0, <1>6, <2>3, <3>1 DEF Arrives
  <2> QED
    BY <1>7, <2>1, <2>2, <2>3 DEF Arrives
<1>8. ASSUME NEW q \in Paths, NEW f \in ItemFields \ FieldsOf(has[q])
      PROVE  Cleared(q, f)'
  <2>1. Cleared(q, f)
    BY <1>0, <1>8 DEF Heard
  <2>2. CASE Silent(q, f) /\ Blank(q, f)
    <3>1. \A r \in reply' : r.path = q => f \notin DOMAIN r.fields
      BY <1>1, <1>2, <1>8
    <3>2. Blank(q, f)'
      BY <1>0, <2>2, <3>1 DEF Blank, NewItem
    <3> QED
      BY <1>6, <2>2, <3>2 DEF Cleared
  <2>3. ASSUME NEW n \in DOMAIN inbox, LastWord(q, f, n), Drops(q, inbox[n])
        PROVE  Cleared(q, f)'
    <3>1. Drops(q, inbox[n])'
      BY <1>0, <2>3 DEF Drops, Owned
    <3> QED
      BY <1>0, <1>6, <2>3, <3>1 DEF Cleared
  <2> QED
    BY <2>1, <2>2, <2>3 DEF Cleared
<1>9. ASSUME NEW f \in FieldsOf(has[p]), ~Queued(p),
             fields = Only(val[p], FieldsOf(has[p]))
      PROVE  Arrives(p, f)'
  <2>1. Silent(p, f)
    BY <1>9 DEF Silent, Queued, Matters, Carries, Drops
  <2>2. DOMAIN val[p] = Fields /\ f \in Fields
    BY <1>0, <1>9, FieldsOfType DEF Published
  <2>3. f \in DOMAIN fields /\ fields[f] = val[p][f]
    BY <1>9, <2>2 DEF Only
  <2>4. InReply(p, f)'
    BY <1>0, <1>1, <2>3 DEF InReply
  <2> QED
    BY <1>6, <2>1, <2>4 DEF Arrives
<1>10. ASSUME NEW q \in Paths, NEW f \in FieldsOf(has[q]) \ unheard'[q]
       PROVE  Arrives(q, f)'
  <2>1. CASE unheard'[q] = unheard[q]
    BY <1>0, <1>7, <1>10, <2>1 DEF Heard
  <2>2. CASE unheard'[q] # unheard[q]
    BY <1>2, <1>9, <1>10, <2>2
  <2> QED
    BY <2>1, <2>2
<1>11. \A q \in Paths : Heard(q)'
  BY <1>5, <1>8, <1>10 DEF Heard
<1> QED
  BY <1>3, <1>4, <1>11

\* The reply makes a new row, which has what the reply has and defaults.
LEMMA ValuesStore ==
  ASSUME ValuesInv, Store
  PROVE  Once' /\ Named' /\ \A q \in Paths : Heard(q)'
<1>0. /\ TypeOK /\ Once /\ Named /\ \A q \in Paths : Heard(q)
      /\ UNCHANGED <<has, val, inbox, phase, todo, unheard>> /\ reply' = {}
  BY DEF ValuesInv, Store
<1>1. PICK r \in reply : Keep(r.path, setFieldsOf(r.path, getItem(r.path), r.fields))
  BY DEF Store
<1> DEFINE p == r.path
<1>2. /\ p \in Paths /\ reply = {r} /\ p \notin rows /\ p \notin todo
      /\ phase = "update"
  BY <1>0, <1>1 DEF TypeOK, Once, Done
<1>3. /\ rows' = rows \union {p}
      /\ \A q \in Paths : q # p => item'[q] = item[q]
      /\ item'[p] = setFieldsOf(p, getItem(p), r.fields).item
  BY <1>0, <1>1, <1>2, KeepItem
<1>4. \A f \in ItemFields : item'[p][f] = Set(item[p], r.fields, f)
  BY <1>0, <1>2, <1>3, SetOne, GetItemItem
<1> HIDE DEF p
<1>5. Once'
  BY <1>0, <1>2, <1>3 DEF Once, Done
<1>6. Named'
  BY <1>0 DEF Named, FieldsOf
<1>7. \A q : FieldsOf(has[q])' = FieldsOf(has[q])
  BY <1>0 DEF FieldsOf
<1>8. ASSUME NEW q, NEW f
      PROVE  /\ Silent(q, f)' <=> Silent(q, f)
             /\ \A n \in DOMAIN inbox : LastWord(q, f, n)' <=> LastWord(q, f, n)
             /\ Undropped(q)' <=> Undropped(q)
  BY <1>0 DEF Silent, LastWord, Undropped, Matters, Carries, Drops, Owned
<1>9. ASSUME NEW q \in Paths, NEW f \in FieldsOf(has[q]) \ unheard[q]
      PROVE  Arrives(q, f)'
  <2>0. Arrives(q, f) /\ f \in ItemFields
    BY <1>0, <1>9, FieldsAreOwned DEF Heard
  <2>1. CASE Silent(q, f) /\ InReply(q, f)
    <3>1. q = p /\ f \in DOMAIN r.fields /\ r.fields[f] = val[q][f]
      BY <1>2, <2>1 DEF InReply, p
    <3>2. InRow(q, f)'
      BY <1>0, <1>3, <1>4, <2>0, <3>1 DEF InRow, Set
    <3> QED
      BY <1>8, <2>1, <3>2 DEF Arrives
  <2>2. CASE Silent(q, f) /\ InRow(q, f)
    <3>1. q # p /\ q \in rows
      BY <1>2, <2>2 DEF InRow
    <3>2. InRow(q, f)'
      BY <1>0, <1>3, <2>2, <3>1 DEF InRow
    <3> QED
      BY <1>8, <2>2, <3>2 DEF Arrives
  <2>3. ASSUME NEW n \in DOMAIN inbox, LastWord(q, f, n), Brings(q, f, inbox[n])
        PROVE  Arrives(q, f)'
    <3>1. Brings(q, f, inbox[n])'
      BY <1>0, <1>3, <1>8, <2>3 DEF Brings, Carries
    <3> QED
      BY <1>0, <1>8, <2>3, <3>1 DEF Arrives
  <2> QED
    BY <2>0, <2>1, <2>2, <2>3 DEF Arrives
<1>10. ASSUME NEW q \in Paths, NEW f \in ItemFields \ FieldsOf(has[q])
       PROVE  Cleared(q, f)'
  <2>0. Cleared(q, f)
    BY <1>0, <1>10 DEF Heard
  <2>1. CASE Silent(q, f) /\ Blank(q, f)
    <3>1. item'[q][f] = item[q][f]
      <4>1. CASE q = p
        <5>1. f \notin DOMAIN r.fields
          BY <2>1, <4>1 DEF Blank, p
        <5> QED
          BY <1>4, <1>10, <4>1, <5>1 DEF Set
      <4>2. CASE q # p
        BY <1>3, <4>2
      <4> QED
        BY <4>1, <4>2
    <3>2. Blank(q, f)'
      BY <1>0, <2>1, <3>1 DEF Blank, NewItem
    <3> QED
      BY <1>8, <2>1, <3>2 DEF Cleared
  <2>2. ASSUME NEW n \in DOMAIN inbox, LastWord(q, f, n), Drops(q, inbox[n])
        PROVE  Cleared(q, f)'
    <3>1. Drops(q, inbox[n])'
      BY <1>0, <2>2 DEF Drops, Owned
    <3> QED
      BY <1>0, <1>8, <2>2, <3>1 DEF Cleared
  <2> QED
    BY <2>0, <2>1, <2>2 DEF Cleared
<1>11. \A q \in Paths : Heard(q)'
  BY <1>0, <1>7, <1>9, <1>10 DEF Heard
<1> QED
  BY <1>5, <1>6, <1>11

LEMMA ValuesRunLoop ==
  ASSUME ValuesInv, RunLoop \/ UNCHANGED vars
  PROVE  Once' /\ Named' /\ \A q \in Paths : Heard(q)'
<1>0. /\ TypeOK /\ Once /\ Named /\ \A q \in Paths : Heard(q)
      /\ UNCHANGED <<has, val, inbox, todo, reply, rows, item, unheard>>
  BY DEF ValuesInv, RunLoop, vars
<1>1. Once'
  BY <1>0 DEF Once, Done, RunLoop, vars
<1>2. Named'
  BY <1>0 DEF Named, FieldsOf
<1> QED
  BY <1>0, <1>1, <1>2, SameHeard

-----------------------------------------------------------------------------
(* The handlers.                                                           *)

\* What the message at the head does to the row of q.
Takes(q, m) ==
    /\ m.path = q
    /\ \/ m.type = "Added" /\ Owned(m)
       \/ m.type = "Changed" /\ q \in rows
Effect(q, m) ==
    /\ Drops(q, m) => q \notin rows' /\ item'[q] = NewItem
    /\ Takes(q, m) => /\ q \in rows'
                      /\ \A f \in ItemFields : item'[q][f] = Set(item[q], m.fields, f)
    /\ ~Drops(q, m) /\ ~Takes(q, m) =>
            (q \in rows' <=> q \in rows) /\ item'[q] = item[q]
AtHead ==
    /\ phase = "loop" /\ phase' = "loop" /\ inbox # <<>>
    /\ UNCHANGED <<has, val, todo, reply, unheard>>

LEMMA HandledHeard ==
  ASSUME ValuesInv, AtHead, Handled, NEW q \in Paths, Effect(q, inbox[1])
  PROVE  Heard(q)'
<1> DEFINE m == inbox[1]
<1>0. /\ TypeOK /\ Named /\ Heard(q) /\ inbox # <<>>
      /\ UNCHANGED <<has, val, todo, reply, unheard>> /\ reply = {}
      /\ 1 \in DOMAIN inbox
      /\ Undropped(q) => Undropped(q)'
  <2>1. /\ TypeOK /\ Named /\ Heard(q) /\ inbox # <<>> /\ Done /\ phase = "loop"
        /\ UNCHANGED <<has, val, todo, reply, unheard>>
    BY DEF ValuesInv, AtHead, Once
  <2>2. 1 \in DOMAIN inbox
    BY <2>1, QueueDomain
  <2>3. Undropped(q) => Undropped(q)'
    BY <2>1, UndroppedMoves
  <2> QED
    BY <2>1, <2>2, <2>3 DEF Done
<1>1. FieldsOf(has[q])' = FieldsOf(has[q])
  BY <1>0 DEF FieldsOf
<1>2. ASSUME NEW f \in ItemFields, Silent(q, f)
      PROVE  /\ Silent(q, f)' /\ ~Drops(q, m)
             /\ q \in rows => q \in rows'
             /\ item'[q][f] = item[q][f]
  <2>1. ~Matters(q, f, m)
    BY <1>0, <1>2 DEF Silent
  <2>2. Takes(q, m) => f \notin DOMAIN m.fields
    BY <2>1 DEF Matters, Carries, Takes
  <2>3. Silent(q, f)'
    BY <1>0, <1>2, WordGone
  <2> QED
    BY <1>2, <2>1, <2>2, <2>3 DEF Effect, Set, Matters
<1>3. ASSUME NEW f \in FieldsOf(has[q]) \ unheard[q] PROVE Arrives(q, f)'
  <2>0. Arrives(q, f) /\ f \in ItemFields
    BY <1>0, <1>3, FieldsAreOwned DEF Heard
  <2>1. CASE Silent(q, f) /\ (InReply(q, f) \/ InRow(q, f))
    <3>1. InRow(q, f)
      BY <1>0, <2>1 DEF InReply
    <3>2. InRow(q, f)' /\ Silent(q, f)'
      BY <1>0, <1>2, <2>0, <2>1, <3>1 DEF InRow
    <3> QED
      BY <3>2 DEF Arrives
  <2>2. CASE LastWord(q, f, 1) /\ Brings(q, f, m)
    <3>1. m.path = q /\ f \in DOMAIN m.fields /\ m.fields[f] = val[q][f]
      BY <2>2 DEF Brings, Carries
    <3>2. Takes(q, m)
      <4>1. CASE m.type = "Added"
        <5>1. f \in FieldsOf(m.ifaces)
          BY <1>0, <3>1, <4>1 DEF Named
        <5>2. m.ifaces \cap OwnedIfaces # {}
          BY <5>1, FieldsAreOwned
        <5>3. Owned(m)
          BY <5>2 DEF Owned
        <5> QED
          BY <3>1, <4>1, <5>3 DEF Takes
      <4>2. CASE m.type = "Changed"
        BY <2>2, <3>1, <4>2 DEF Brings, Takes
      <4> QED
        BY <2>2, <4>1, <4>2 DEF Brings, Carries
    <3>3. q \in rows' /\ item'[q][f] = Set(item[q], m.fields, f)
      BY <2>0, <3>2 DEF Effect
    <3>4. InRow(q, f)'
      BY <1>0, <3>1, <3>3 DEF InRow, Set
    <3>5. Silent(q, f)'
      BY <1>0, <2>2, WordGone
    <3> QED
      BY <3>4, <3>5 DEF Arrives
  <2>3. ASSUME NEW n \in DOMAIN inbox, n # 1, LastWord(q, f, n),
               Brings(q, f, inbox[n])
        PROVE  Arrives(q, f)'
    <3>1. /\ inbox[n].path = q
          /\ inbox[n].type = "Changed" => q \in rows /\ Undropped(q)
      BY <2>3 DEF Brings, Carries
    <3>2. inbox[n].type = "Changed" => ~Drops(q, inbox[1])
      BY <1>0, <3>1 DEF Undropped
    <3>3. PICK k \in DOMAIN inbox' :
            /\ LastWord(q, f, k)'
            /\ inbox'[k].path = inbox[n].path
            /\ inbox'[k].type = inbox[n].type
            /\ inbox'[k].ifaces = inbox[n].ifaces
            /\ inbox'[k].fields = inbox[n].fields
      BY <1>0, <2>3, <3>1, <3>2, WordMoves
    <3>4. inbox[n].type = "Changed" => q \in rows'
      <4>1. ~Drops(q, m) /\ q \in rows => q \in rows'
        BY DEF Effect, Takes, Drops
      <4> QED
        BY <3>1, <3>2, <4>1
    <3>5. Brings(q, f, inbox[k])'
      BY <1>0, <2>3, <3>1, <3>3, <3>4 DEF Brings, Carries
    <3> QED
      BY <3>3, <3>5 DEF Arrives
  <2> QED
    BY <2>0, <2>1, <2>2, <2>3 DEF Arrives
<1>4. ASSUME NEW f \in ItemFields \ FieldsOf(has[q]) PROVE Cleared(q, f)'
  <2>0. Cleared(q, f)
    BY <1>0, <1>4 DEF Heard
  <2>1. CASE Silent(q, f) /\ Blank(q, f)
    <3>1. Silent(q, f)' /\ item'[q][f] = NewItem[f]
      BY <1>2, <2>1 DEF Blank
    <3> QED
      BY <1>0, <3>1 DEF Cleared, Blank, NewItem
  <2>2. CASE LastWord(q, f, 1) /\ Drops(q, m)
    <3>1. Silent(q, f)'
      BY <1>0, <2>2, WordGone
    <3>2. item'[q][f] = NewItem[f]
      BY <2>2 DEF Effect
    <3> QED
      BY <1>0, <3>1, <3>2 DEF Cleared, Blank, NewItem
  <2>3. ASSUME NEW n \in DOMAIN inbox, n # 1, LastWord(q, f, n), Drops(q, inbox[n])
        PROVE  Cleared(q, f)'
    <3>1. inbox[n].path = q /\ inbox[n].type # "Changed"
      BY <2>3 DEF Drops
    <3>2. PICK k \in DOMAIN inbox' :
            /\ LastWord(q, f, k)'
            /\ inbox'[k].path = inbox[n].path
            /\ inbox'[k].type = inbox[n].type
            /\ inbox'[k].ifaces = inbox[n].ifaces
            /\ inbox'[k].fields = inbox[n].fields
      BY <1>0, <2>3, <3>1, WordMoves
    <3>3. Drops(q, inbox[k])'
      BY <2>3, <3>2 DEF Drops, Owned
    <3> QED
      BY <3>2, <3>3 DEF Cleared
  <2> QED
    BY <2>0, <2>1, <2>2, <2>3 DEF Cleared
<1> QED
  BY <1>1, <1>0, <1>3, <1>4 DEF Heard

LEMMA HandledValues ==
  ASSUME ValuesInv, AtHead, Handled, \A q \in Paths : Effect(q, inbox[1])
  PROVE  Once' /\ Named' /\ \A q \in Paths : Heard(q)'
<1>0. /\ TypeOK /\ Once /\ Named /\ inbox # <<>> /\ phase = "loop" /\ phase' = "loop"
      /\ UNCHANGED <<todo, reply>>
  BY DEF ValuesInv, AtHead
<1>1. Once'
  BY <1>0 DEF Once, Done
<1>2. Named'
  BY <1>0, NamedMoves
<1> QED
  BY <1>1, <1>2, HandledHeard

LEMMA EffectAdded ==
  ASSUME TypeOK, onInterfacesAdded, NEW q \in Paths, NEW m \in Message,
         m = Head(inbox)
  PROVE  Effect(q, m)
<1> DEFINE p == m.path
           Of(i) == Only(m.fields, IfaceFields(i))
           row == setFieldsOf(p, setFieldsOf(p, setFieldsOf(p, getItem(p),
                     Of("Critical")), Of("Warning")), Of("Value"))
<1>0. m.type = "Added" /\ ~Drops(q, m) /\ p \in Paths
  BY DEF onInterfacesAdded, Dispatch, Drops, Message
<1>1. CASE Owned(m)
  <2>1. Keep(p, row)
    BY <1>1 DEF onInterfacesAdded
  <2>2. \A f \in ItemFields : row.item[f] = Set(item[p], m.fields, f)
    BY <1>0, SetChain, GetItemItem
  <2> HIDE DEF row
  <2>3. /\ rows' = rows \union {p} /\ item'[p] = row.item
        /\ \A r \in Paths : r # p => item'[r] = item[r]
    BY <1>0, <2>1, KeepItem
  <2>4. CASE q = p
    BY <1>0, <1>1, <2>2, <2>3, <2>4 DEF Effect, Takes
  <2>5. CASE q # p
    BY <1>0, <2>3, <2>5 DEF Effect, Takes
  <2> QED
    BY <2>4, <2>5
<1>2. CASE ~Owned(m)
  <2>1. UNCHANGED <<rows, item>>
    BY <1>2 DEF onInterfacesAdded
  <2> QED
    BY <1>0, <1>2, <2>1 DEF Effect, Takes
<1> QED
  BY <1>1, <1>2

LEMMA EffectChanged ==
  ASSUME TypeOK, onPropertiesChanged, NEW q \in Paths, NEW m \in Message,
         m = Head(inbox)
  PROVE  Effect(q, m)
<1> DEFINE p == m.path
           row == setFieldsOf(p, getItem(p), m.fields)
<1>0. m.type = "Changed" /\ ~Drops(q, m) /\ p \in Paths
  BY DEF onPropertiesChanged, Dispatch, Drops, Message
<1>1. CASE p \in rows
  <2>1. Keep(p, row)
    BY <1>1 DEF onPropertiesChanged
  <2>2. \A f \in ItemFields : row.item[f] = Set(item[p], m.fields, f)
    BY <1>0, SetOne, GetItemItem
  <2> HIDE DEF row
  <2>3. /\ rows' = rows \union {p} /\ item'[p] = row.item
        /\ \A r \in Paths : r # p => item'[r] = item[r]
    BY <1>0, <2>1, KeepItem
  <2>4. CASE q = p
    BY <1>0, <1>1, <2>2, <2>3, <2>4 DEF Effect, Takes
  <2>5. CASE q # p
    BY <1>0, <2>3, <2>5 DEF Effect, Takes
  <2> QED
    BY <2>4, <2>5
<1>2. CASE p \notin rows
  <2>1. UNCHANGED <<rows, item>>
    BY <1>2 DEF onPropertiesChanged
  <2> QED
    BY <1>0, <1>2, <2>1 DEF Effect, Takes
<1> QED
  BY <1>1, <1>2

LEMMA EffectRemoved ==
  ASSUME TypeOK, onInterfacesRemoved, NEW q \in Paths, NEW m \in Message,
         m = Head(inbox)
  PROVE  Effect(q, m)
<1> DEFINE p == m.path
<1>0. m.type = "Removed" /\ ~Takes(q, m) /\ p \in Paths
  BY DEF onInterfacesRemoved, Dispatch, Takes, Message
<1>1. CASE Owned(m) /\ p \in rows
  <2>1. dropItem({p})
    BY <1>1 DEF onInterfacesRemoved
  <2>2. /\ rows' = rows \ {p} /\ item'[p] = NewItem
        /\ q # p => item'[q] = item[q]
    BY <1>0, <2>1 DEF dropItem
  <2> QED
    BY <1>0, <1>1, <2>2 DEF Effect, Drops
<1>2. CASE ~(Owned(m) /\ p \in rows)
  <2>1. UNCHANGED <<rows, item>>
    BY <1>2 DEF onInterfacesRemoved
  <2>2. Drops(q, m) => q \notin rows /\ item[q] = NewItem
    BY <1>2 DEF Drops, TypeOK
  <2> QED
    BY <1>0, <2>1, <2>2 DEF Effect
<1> QED
  BY <1>1, <1>2

LEMMA RemovedHandles ==
  ASSUME TypeOK, inbox # <<>>, onInterfacesRemoved
  PROVE  Handled
<1> DEFINE m == Head(inbox)
<1>0. m = inbox[1] /\ m.type = "Removed" /\ Len(inbox) \in Nat
  BY QueueDomain DEF onInterfacesRemoved, Dispatch
<1>1. CASE Owned(m) /\ m.path \in rows
  <2>1. PICK orphaned \in BOOLEAN :
          inbox' = [n \in 1 .. Len(inbox) - 1 |->
            IF /\ orphaned
               /\ inbox[n + 1].type = "Changed"
               /\ inbox[n + 1].path = m.path
            THEN [inbox[n + 1] EXCEPT !.type = "Unmatched"]
            ELSE inbox[n + 1]]
    BY <1>1 DEF onInterfacesRemoved
  <2>2. ASSUME NEW n \in 1 .. Len(inbox) - 1 PROVE inbox[n + 1] \in Message
    <3>1. inbox \in Seq(Message)
      BY DEF TypeOK, Message
    <3> QED
      BY <1>0, <3>1, ElementOfSeq
  <2>3. DOMAIN inbox' = 1 .. Len(inbox) - 1
    BY <2>1
  <2>4. Drops(m.path, inbox[1])
    BY <1>0, <1>1 DEF Drops
  <2>5. ASSUME NEW n \in 1 .. Len(inbox) - 1
        PROVE  /\ inbox'[n].path = inbox[n + 1].path
               /\ inbox'[n].ifaces = inbox[n + 1].ifaces
               /\ inbox'[n].fields = inbox[n + 1].fields
               /\ \/ inbox'[n].type = inbox[n + 1].type
                  \/ /\ inbox[n + 1].path = m.path
                     /\ inbox[n + 1].type = "Changed"
                     /\ inbox'[n].type = "Unmatched"
    BY <2>1, <2>2 DEF Message
  <2> QED
    BY <2>3, <2>4, <2>5 DEF Handled
<1>2. CASE ~(Owned(m) /\ m.path \in rows)
  BY <1>2, TailHandles DEF onInterfacesRemoved
<1> QED
  BY <1>1, <1>2

LEMMA ValuesLoop ==
  ASSUME ValuesInv, Loop
  PROVE  Once' /\ Named' /\ \A q \in Paths : Heard(q)'
<1> DEFINE m == Head(inbox)
<1>0. AtHead /\ TypeOK /\ inbox # <<>>
  BY DEF Loop, onInterfacesAdded, onInterfacesRemoved, onPropertiesChanged,
         Discard, Dispatch, AtHead, ValuesInv
<1>1. m \in Message
  BY <1>0, DispatchType
  DEF Loop, onInterfacesAdded, onInterfacesRemoved, onPropertiesChanged, Discard
<1>2. m = inbox[1]
  BY <1>0, QueueDomain
<1>3. CASE onInterfacesAdded
  <2>1. Handled
    BY <1>0, <1>3, TailHandles DEF onInterfacesAdded
  <2>2. \A q \in Paths : Effect(q, m)
    BY <1>0, <1>1, <1>3, EffectAdded
  <2> QED
    BY <1>0, <1>2, <2>1, <2>2, HandledValues
<1>4. CASE onInterfacesRemoved
  <2>1. \A q \in Paths : Effect(q, m)
    BY <1>0, <1>1, <1>4, EffectRemoved
  <2> QED
    BY <1>0, <1>2, <1>4, <2>1, RemovedHandles, HandledValues
<1>5. CASE onPropertiesChanged
  <2>1. Handled
    BY <1>0, <1>5, TailHandles DEF onPropertiesChanged
  <2>2. \A q \in Paths : Effect(q, m)
    BY <1>0, <1>1, <1>5, EffectChanged
  <2> QED
    BY <1>0, <1>2, <2>1, <2>2, HandledValues
<1>6. CASE Discard
  <2>1. Handled
    BY <1>0, <1>6, TailHandles DEF Discard
  <2>2. \A q \in Paths : Effect(q, m)
    BY <1>6 DEF Effect, Takes, Drops, Discard, Dispatch
  <2> QED
    BY <1>0, <1>2, <2>1, <2>2, HandledValues
<1> QED
  BY <1>3, <1>4, <1>5, <1>6 DEF Loop

-----------------------------------------------------------------------------
(* Init, Restart, and the theorems.                                        *)

\* Nothing is heard, and nothing is anywhere.
LEMMA EmptyHeard ==
  ASSUME inbox = <<>>, reply = {}, NEW p \in Paths,
         item[p] = NewItem, unheard[p] = FieldsOf(has[p])
  PROVE  Heard(p)
<1>1. \A f : Silent(p, f)
  BY DEF Silent
<1>2. \A f \in ItemFields : Blank(p, f)
  BY DEF Blank
<1> QED
  BY <1>1, <1>2 DEF Heard, Cleared

LEMMA ValuesInit == Init => ValuesInv
<1> SUFFICES ASSUME Init PROVE ValuesInv
  OBVIOUS
<1>1. \A p \in Paths : item[p] = NewItem /\ unheard[p] = FieldsOf(has[p])
  BY DEF Init
<1>2. inbox = <<>> /\ reply = {} /\ todo = {} /\ rows = {} /\ phase = "start"
  BY DEF Init
<1>3. Once /\ Named
  BY <1>2 DEF Once, Done, Named
<1> QED
  BY <1>1, <1>2, <1>3, TypeInit, EmptyHeard DEF ValuesInv

LEMMA ValuesRestart ==
  ASSUME ValuesInv, Restart
  PROVE  Once' /\ Named' /\ \A q \in Paths : Heard(q)'
<1>1. \A p \in Paths : item'[p] = NewItem /\ unheard'[p] = FieldsOf(has[p])
  BY DEF Restart
<1>2. inbox' = <<>> /\ reply' = {} /\ todo' = {} /\ rows' = {} /\ phase' = "start"
      /\ has' = has
  BY DEF Restart
<1>3. Once' /\ Named'
  BY <1>2 DEF Once, Done, Named
<1>4. ASSUME NEW p \in Paths PROVE Heard(p)'
  <2>1. FieldsOf(has[p])' = FieldsOf(has[p])
    BY <1>2 DEF FieldsOf
  <2>2. \A f : Silent(p, f)'
    BY <1>2 DEF Silent
  <2>3. \A f \in ItemFields : Blank(p, f)'
    BY <1>1, <1>2 DEF Blank, NewItem
  <2> QED
    BY <1>1, <2>1, <2>2, <2>3 DEF Heard, Cleared
<1> QED
  BY <1>3, <1>4

LEMMA ValuesNext == ValuesInv /\ [Next]_vars => ValuesInv'
<1> SUFFICES ASSUME ValuesInv, [Next]_vars PROVE ValuesInv'
  OBVIOUS
<1>1. TypeOK'
  BY TypeNext DEF ValuesInv
<1>2. Once' /\ Named' /\ \A q \in Paths : Heard(q)'
  <2>1. CASE Objects
    BY <2>1, ValuesAddInterfaces, ValuesChangeProperty, ValuesRemoveInterfaces
    DEF Objects
  <2>2. CASE Update
    BY <2>2, ValuesGetSubTree, ValuesGetAll, ValuesStore, ValuesRunLoop DEF Update
  <2>3. CASE Loop
    BY <2>3, ValuesLoop
  <2>4. CASE Restart
    BY <2>4, ValuesRestart
  <2>5. CASE UNCHANGED vars
    BY <2>5, ValuesRunLoop
  <2> QED
    BY <2>1, <2>2, <2>3, <2>4, <2>5 DEF Next, Agent
<1> QED
  BY <1>1, <1>2 DEF ValuesInv

\* At rest the queue is empty and no reply waits: a value can only be in its
\* row, and what is not published nowhere.
LEMMA AtRest ==
  ASSUME ValuesInv, Quiet, NEW p \in Paths
  PROVE  /\ \A f \in Shown(p) \ unheard[p] : p \in rows /\ item[p][f] = val[p][f]
         /\ \A f \in ItemFields \ FieldsOf(has[p]) : item[p][f] = NewItem[f]
<1>1. DOMAIN inbox = {} /\ reply = {} /\ Heard(p)
  BY DEF Quiet, ValuesInv, Once, Done
<1>2. ASSUME NEW f \in Shown(p) \ unheard[p]
      PROVE  p \in rows /\ item[p][f] = val[p][f]
  <2>1. Arrives(p, f) /\ val[p][f] \in FieldType(f)
    BY <1>1, <1>2 DEF Heard, Shown
  <2> QED
    BY <1>1, <2>1 DEF Arrives, InReply, InRow
<1>3. ASSUME NEW f \in ItemFields \ FieldsOf(has[p])
      PROVE  item[p][f] = NewItem[f]
  BY <1>1, <1>3 DEF Heard, Cleared, Blank
<1> QED
  BY <1>2, <1>3

LEMMA AccurateAtRest == ValuesInv => Accurate
  BY AtRest DEF Accurate

LEMMA AlarmsAtRest == ValuesInv /\ TrapsAgree => AlarmReaches
<1> SUFFICES ASSUME ValuesInv, TrapsAgree, Quiet, NEW p \in Paths \ Mute,
                    FieldsOf(has[p]) # {}, Shown(p) = FieldsOf(has[p]),
                    unheard[p] = {}
             PROVE  told[p] = getState(SourceItem(p))
  BY DEF AlarmReaches
<1>1. \A f \in FieldsOf(has[p]) : p \in rows /\ item[p][f] = val[p][f]
  BY AtRest
<1>2. p \in rows
  BY <1>1
<1>3. \A f \in ItemFields : item[p][f] = SourceItem(p)[f]
  BY <1>1, AtRest DEF SourceItem
<1>4. item[p] = SourceItem(p)
  <2>1. item[p] = [f \in ItemFields |-> item[p][f]]
    BY DEF ValuesInv, TypeOK, Item
  <2>2. SourceItem(p) = [f \in ItemFields |-> SourceItem(p)[f]]
    BY DEF SourceItem
  <2> QED
    BY <1>3, <2>1, <2>2
<1> QED
  BY <1>2, <1>4 DEF TrapsAgree

\* For any sensors, interfaces and payloads, any queue and every fault: at rest
\* a row lacks no value that was announced to it or read by GetAll since it
\* was set.
THEOREM AlwaysAccurate == Spec => []Accurate
<1> QED
  BY ValuesInit, ValuesNext, AccurateAtRest, PTL DEF Spec

\* And the last trap about a sensor whose values were all heard is its state.
THEOREM AlarmAlwaysReaches == Spec => []AlarmReaches
<1>1. Spec => []ValuesInv
  BY ValuesInit, ValuesNext, PTL DEF Spec
<1> QED
  BY <1>1, TrapsAlwaysAgree, AlarmsAtRest, PTL

=============================================================================
