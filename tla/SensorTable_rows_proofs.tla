----------------------- MODULE SensorTable_rows_proofs -----------------------
(***************************************************************************)
(* Which objects have a row: the proofs of NoPhantomRow and NoMissingRow   *)
(* from the inductive invariant Believed.  The mapper is assumed to answer *)
(* with what there is.                                                     *)
(***************************************************************************)
EXTENDS SensorTable_proofs

\* Believed, for one object.
Bel(p) ==
    /\ \A n \in DOMAIN inbox : LastLife(p, n) =>
          /\ inbox[n].type = "Added" => Present(p)
          /\ inbox[n].type = "Removed" /\ Whole => ~Present(p)
    /\ phase # "start" /\ (\A n \in DOMAIN inbox : ~Life(p, n)) =>
          /\ Expected(p) => Present(p)
          /\ Present(p) /\ Whole => Expected(p)

\* The update is over in the event loop, and has not begun before it.
Done == phase # "update" => todo = {} /\ reply = {}

LEMMA BelievedIsBel == Believed <=> Done /\ \A p \in Paths : Bel(p)
  BY DEF Believed, Done, Bel

LEMMA BelievedIsBelPrime == Believed' <=> Done' /\ \A p \in Paths : Bel(p)'
  BY DEF Believed, Done, Bel

-----------------------------------------------------------------------------
(* A signal joins the queue.                                               *)

LEMMA Appended ==
  ASSUME TypeOK, NEW m \in Message, inbox' = Append(inbox, m)
  PROVE  /\ Len(inbox) \in Nat
         /\ DOMAIN inbox = 1 .. Len(inbox)
         /\ DOMAIN inbox' = 1 .. Len(inbox) + 1
         /\ \A n \in DOMAIN inbox : inbox'[n] = inbox[n]
         /\ inbox'[Len(inbox) + 1] = m
<1>1. inbox \in Seq(Message)
  BY DEF TypeOK, Message
<1> QED
  BY <1>1, AppendProperties, LenProperties

IsLife(p, m) == m.path = p /\ m.type \in {"Added", "Removed"} /\ Owned(m)

\* One that does not tell of the object's life changes no belief about it.
LEMMA OtherAppended ==
  ASSUME TypeOK, NEW p \in Paths, Bel(p), NEW m \in Message,
         inbox' = Append(inbox, m), ~IsLife(p, m),
         Present(p)' = Present(p), Expected(p)' = Expected(p), phase' = phase
  PROVE  Bel(p)'
<1>0. PICK last \in Nat : last = Len(inbox) + 1
  BY Appended
<1>1. ~Life(p, last)'
  BY <1>0, Appended DEF Life, IsLife, Owned
<1>2. \A n \in DOMAIN inbox : Life(p, n)' <=> Life(p, n)
  BY Appended DEF Life, Owned
<1>3. DOMAIN inbox' = DOMAIN inbox \union {last}
  BY <1>0, Appended
<1>4. \A n \in DOMAIN inbox' :
        LastLife(p, n)' => n \in DOMAIN inbox /\ LastLife(p, n)
  BY <1>1, <1>2, <1>3 DEF LastLife
<1>5. (\A n \in DOMAIN inbox' : ~Life(p, n)')
        => \A n \in DOMAIN inbox : ~Life(p, n)
  BY <1>2, <1>3
<1>6. \A n \in DOMAIN inbox : inbox'[n] = inbox[n]
  BY Appended
<1> QED
  BY <1>4, <1>5, <1>6 DEF Bel, Whole

\* One that does decides it.
LEMMA LifeAppended ==
  ASSUME TypeOK, NEW p \in Paths, NEW m \in Message,
         inbox' = Append(inbox, m), IsLife(p, m),
         m.type = "Added" => Present(p)',
         m.type = "Removed" /\ Whole => ~Present(p)'
  PROVE  Bel(p)'
<1>0. PICK last \in Nat : last = Len(inbox) + 1
  BY Appended
<1>1. last \in DOMAIN inbox' /\ inbox'[last] = m /\ Life(p, last)'
  BY <1>0, Appended DEF Life, IsLife, Owned
<1>2. \A n \in DOMAIN inbox' : n \in Nat /\ (n = last \/ last > n)
  BY <1>0, Appended
<1>3. \A n \in DOMAIN inbox' : LastLife(p, n)' => n = last
  BY <1>1, <1>2 DEF LastLife
<1> QED
  BY <1>1, <1>3 DEF Bel, Whole

-----------------------------------------------------------------------------
(* The signal at the head is handled.                                      *)

\* The rest of the queue moves up.  Changes may be orphaned, the signals of
\* an object's life are not.
Shifted ==
    /\ DOMAIN inbox' = 1 .. Len(inbox) - 1
    /\ \A n \in 1 .. Len(inbox) - 1 :
          /\ inbox'[n].path = inbox[n + 1].path
          /\ inbox'[n].ifaces = inbox[n + 1].ifaces
          /\ \/ inbox'[n].type = inbox[n + 1].type
             \/ /\ inbox[n + 1].type = "Changed"
                /\ inbox'[n].type = "Unmatched"

LEMMA TailShifts ==
  ASSUME TypeOK, inbox # <<>>, inbox' = Tail(inbox)
  PROVE  Shifted
<1>1. inbox \in Seq(Message)
  BY DEF TypeOK, Message
<1> QED
  BY <1>1, HeadTailProperties, LenProperties DEF Shifted

LEMMA QueueDomain ==
  ASSUME TypeOK, inbox # <<>>
  PROVE  /\ Len(inbox) \in Nat /\ Len(inbox) >= 1
         /\ DOMAIN inbox = 1 .. Len(inbox)
         /\ Head(inbox) = inbox[1]
<1>1. inbox \in Seq(Message)
  BY DEF TypeOK, Message
<1> QED
  BY <1>1, HeadTailProperties, LenProperties, EmptySeq

LEMMA HandledLife ==
  ASSUME TypeOK, inbox # <<>>, Shifted, NEW p \in Paths, Bel(p),
         Present(p)' = Present(p), phase = "loop", phase' = "loop",
         IF IsLife(p, Head(inbox))
         THEN IF Head(inbox).type = "Added" THEN Expected(p)' ELSE ~Expected(p)'
         ELSE Expected(p)' = Expected(p)
  PROVE  Bel(p)'
<1>0. /\ Len(inbox) \in Nat /\ Len(inbox) >= 1
      /\ DOMAIN inbox = 1 .. Len(inbox)
      /\ DOMAIN inbox' = 1 .. Len(inbox) - 1
      /\ Life(p, 1) <=> IsLife(p, Head(inbox))
  BY QueueDomain DEF Shifted, Life, IsLife
<1>1. \A n \in 1 .. Len(inbox) - 1 : Life(p, n)' <=> Life(p, n + 1)
  BY DEF Shifted, Life, Owned
<1>2. ASSUME NEW n \in DOMAIN inbox', LastLife(p, n)'
      PROVE  /\ n + 1 \in DOMAIN inbox /\ LastLife(p, n + 1)
             /\ inbox'[n].type = inbox[n + 1].type
  <2>1. n + 1 \in DOMAIN inbox /\ Life(p, n + 1)
    BY <1>0, <1>1, <1>2 DEF LastLife
  <2>2. ASSUME NEW k \in DOMAIN inbox, k > n + 1 PROVE ~Life(p, k)
    <3>1. k - 1 \in DOMAIN inbox' /\ k - 1 > n /\ (k - 1) + 1 = k
      BY <1>0, <2>2
    <3>2. ~Life(p, k - 1)'
      BY <1>2, <3>1 DEF LastLife
    <3> QED
      BY <1>0, <1>1, <3>1, <3>2
  <2>3. inbox'[n].type = inbox[n + 1].type
    BY <1>0, <2>1 DEF Shifted, Life
  <2> QED
    BY <2>1, <2>2, <2>3 DEF LastLife
<1>3. ASSUME \A n \in DOMAIN inbox' : ~Life(p, n)'
      PROVE  \A k \in DOMAIN inbox : k > 1 => ~Life(p, k)
  <2> SUFFICES ASSUME NEW k \in DOMAIN inbox, k > 1 PROVE ~Life(p, k)
    OBVIOUS
  <2>1. k - 1 \in DOMAIN inbox' /\ (k - 1) + 1 = k
    BY <1>0
  <2> QED
    BY <1>0, <1>1, <1>3, <2>1
<1>4. ASSUME \A n \in DOMAIN inbox' : ~Life(p, n)'
      PROVE  /\ Expected(p)' => Present(p)
             /\ Present(p) /\ Whole => Expected(p)'
  <2>1. CASE IsLife(p, Head(inbox))
    <3>1. 1 \in DOMAIN inbox /\ LastLife(p, 1)
      BY <1>0, <1>3, <1>4, <2>1 DEF LastLife
    <3>2. inbox[1].type = Head(inbox).type /\ inbox[1].type \in {"Added", "Removed"}
      BY <2>1, QueueDomain DEF IsLife
    <3> QED
      BY <2>1, <3>1, <3>2 DEF Bel
  <2>2. CASE ~IsLife(p, Head(inbox))
    <3>1. \A n \in DOMAIN inbox : ~Life(p, n)
      BY <1>0, <1>3, <1>4, <2>2
    <3> QED
      BY <2>2, <3>1 DEF Bel
  <2> QED
    BY <2>1, <2>2
<1> QED
  BY <1>2, <1>4 DEF Bel, Whole

-----------------------------------------------------------------------------
(* The steps.                                                              *)

\* A step of one object leaves the others' beliefs alone.
LEMMA BelievedObjects ==
  ASSUME TypeOK, Believed, NEW p \in Paths,
         AddInterfaces(p) \/ ChangeProperty(p) \/ RemoveInterfaces(p)
  PROVE  Believed'
<1>0. /\ UNCHANGED <<phase, todo, reply, rows>>
      /\ Done /\ Done'
      /\ \A q \in Paths : Bel(q) /\ Expected(q)' = Expected(q)
  BY BelievedIsBel
  DEF AddInterfaces, ChangeProperty, RemoveInterfaces, Done, Expected
<1>1. has \in [Paths -> SUBSET Ifaces] /\ Fields \subseteq ItemFields
  BY TableAssumption DEF TypeOK
<1>2. CASE AddInterfaces(p)
  <2>1. PICK I \in (SUBSET (Ifaces \ has[p])) \ {{}} :
          \E fields \in Published(FieldsOf(I)) :
            /\ has' = [has EXCEPT ![p] = @ \union I]
            /\ inbox' = Append(inbox, InterfacesAdded(p, I, fields))
    BY <1>2 DEF AddInterfaces
  <2>2. PICK fields \in Published(FieldsOf(I)) :
            /\ has' = [has EXCEPT ![p] = @ \union I]
            /\ inbox' = Append(inbox, InterfacesAdded(p, I, fields))
    BY <2>1
  <2> DEFINE m == InterfacesAdded(p, I, fields)
  <2>3. m \in Message /\ m.path = p /\ m.type = "Added" /\ m.ifaces = I
    <3>1. fields \in FieldsMap
      BY <1>1, FieldsOfType, PublishedIsFieldsMap
    <3> QED
      BY <3>1 DEF InterfacesAdded, Message
  <2>4. inbox' = Append(inbox, m)
    BY <2>2
  <2>5. has'[p] = has[p] \union I /\ \A q \in Paths \ {p} : has'[q] = has[q]
    BY <1>1, <2>2
  <2> HIDE DEF m
  <2>6. ASSUME NEW q \in Paths, q # p PROVE Bel(q)'
    BY <1>0, <2>3, <2>4, <2>5, <2>6, OtherAppended DEF IsLife, Present
  <2>7. Bel(p)'
    <3>1. CASE I \cap OwnedIfaces # {}
      BY <2>3, <2>4, <2>5, <3>1, LifeAppended DEF IsLife, Present, Owned
    <3>2. CASE I \cap OwnedIfaces = {}
      <4>1. Present(p)' = Present(p)
        BY <2>5, <3>2 DEF Present
      <4>2. ~IsLife(p, m)
        BY <2>3, <3>2 DEF IsLife, Owned
      <4> QED
        BY <1>0, <2>3, <2>4, <4>1, <4>2, OtherAppended
    <3> QED
      BY <3>1, <3>2
  <2> QED
    BY <1>0, <2>6, <2>7, BelievedIsBelPrime
<1>3. CASE ChangeProperty(p)
  <2>1. /\ UNCHANGED has
        /\ \/ UNCHANGED inbox
           \/ \E f \in FieldsOf(has[p]) : \E x \in Payload(f) :
                inbox' = Append(inbox, PropertiesChanged(p, [g \in {f} |-> x]))
    BY <1>3 DEF ChangeProperty
  <2>2. CASE UNCHANGED inbox
    BY <1>0, <2>1, <2>2, BelievedIsBelPrime
    DEF Bel, LastLife, Life, Owned, Present, Expected, Whole
  <2>3. CASE ~ UNCHANGED inbox
    <3>1. PICK f \in FieldsOf(has[p]) : \E x \in Payload(f) :
                inbox' = Append(inbox, PropertiesChanged(p, [g \in {f} |-> x]))
      BY <2>1, <2>3
    <3>2. PICK x \in Payload(f) :
                inbox' = Append(inbox, PropertiesChanged(p, [g \in {f} |-> x]))
      BY <3>1
    <3>3. f \in Fields
      BY FieldsOfType
    <3>4. [g \in {f} |-> x] \in FieldsMap
      <4>1. [g \in {f} |-> x] \in Published({f})
        BY DEF Published
      <4> QED
        BY <1>1, <3>3, <4>1, PublishedIsFieldsMap
    <3>5. PICK m \in Message : m.type = "Changed" /\ inbox' = Append(inbox, m)
      BY <3>2, <3>4 DEF PropertiesChanged, Message
    <3>6. \A q \in Paths : Present(q)' = Present(q) /\ ~IsLife(q, m)
      BY <2>1, <3>5 DEF Present, IsLife
    <3> QED
      BY <1>0, <3>5, <3>6, OtherAppended, BelievedIsBelPrime
  <2> QED
    BY <2>2, <2>3
<1>4. CASE RemoveInterfaces(p)
  <2>1. PICK I \in (SUBSET has[p]) \ {{}} :
          /\ I = has[p] \/ "partial" \in Faults
          /\ has' = [has EXCEPT ![p] = @ \ I]
          /\ inbox' = Append(inbox, InterfacesRemoved(p, I))
    BY <1>4 DEF RemoveInterfaces
  <2> DEFINE m == InterfacesRemoved(p, I)
  <2>2. m \in Message /\ m.path = p /\ m.type = "Removed" /\ m.ifaces = I
    BY <1>1, NoFieldsType DEF InterfacesRemoved, Message
  <2>3. inbox' = Append(inbox, m)
    BY <2>1
  <2>4. has'[p] = has[p] \ I /\ \A q \in Paths \ {p} : has'[q] = has[q]
    BY <1>1, <2>1
  <2>5. Whole => ~Present(p)'
    BY <2>1, <2>4 DEF Whole, Present
  <2> HIDE DEF m
  <2>6. ASSUME NEW q \in Paths, q # p PROVE Bel(q)'
    BY <1>0, <2>2, <2>3, <2>4, <2>6, OtherAppended DEF IsLife, Present
  <2>7. Bel(p)'
    <3>1. CASE I \cap OwnedIfaces # {}
      BY <2>2, <2>3, <2>5, <3>1, LifeAppended DEF IsLife, Owned
    <3>2. CASE I \cap OwnedIfaces = {}
      <4>1. Present(p)' = Present(p)
        BY <2>4, <3>2 DEF Present
      <4>2. ~IsLife(p, m)
        BY <2>2, <3>2 DEF IsLife, Owned
      <4> QED
        BY <1>0, <2>2, <2>3, <4>1, <4>2, OtherAppended
    <3> QED
      BY <3>1, <3>2
  <2> QED
    BY <1>0, <2>6, <2>7, BelievedIsBelPrime
<1> QED
  BY <1>2, <1>3, <1>4

LEMMA BelievedUpdate ==
  ASSUME "mapper" \notin Faults, TypeOK, Believed, Update
  PROVE  Believed'
<1>0. UNCHANGED <<has, inbox>> /\ Done /\ \A q \in Paths : Bel(q)
  BY BelievedIsBel DEF Update, GetSubTree, GetAll, Store, RunLoop
<1>1. ASSUME Done',
             \A q \in Paths : \/ phase # "start" /\ Expected(q)' = Expected(q)
                             \/ Expected(q)' = Present(q)
      PROVE  Believed'
  <2>1. \A q \in Paths : Present(q)' = Present(q)
    BY <1>0 DEF Present
  <2>2. \A q \in Paths : \A n \in DOMAIN inbox :
            (LastLife(q, n)' <=> LastLife(q, n)) /\ (Life(q, n)' <=> Life(q, n))
    BY <1>0 DEF LastLife, Life, Owned
  <2>3. ASSUME NEW q \in Paths PROVE Bel(q)'
    BY <1>0, <1>1, <2>1, <2>2 DEF Bel, Whole
  <2> QED
    BY <1>1, <2>3, BelievedIsBelPrime
<1>2. CASE GetSubTree
  <2>1. /\ todo' = {p \in Paths : Present(p)} /\ dropItem(rows \ todo')
        /\ phase' = "update" /\ UNCHANGED reply
    BY <1>2 DEF GetSubTree
  <2>2. rows' = rows \cap todo'
    BY <2>1 DEF dropItem
  <2>3. reply = {}
    BY <1>0, <1>2 DEF GetSubTree, Done
  <2>4. \A q \in Paths : Expected(q)' = Present(q)
    <3>1. reply' = {}
      BY <2>1, <2>3
    <3>2. \A q \in Paths : Expected(q)' <=> q \in rows' \union todo'
      BY <3>1 DEF Expected
    <3> QED
      BY <2>1, <2>2, <3>2 DEF Expected, Present
  <2> QED
    BY <1>1, <2>1, <2>4 DEF Done
<1>3. ASSUME NEW p \in Paths, GetAll(p) PROVE Believed'
  <2>1. /\ phase = "update" /\ phase' = "update" /\ p \in todo /\ reply = {}
        /\ todo' = todo \ {p} /\ UNCHANGED rows
        /\ \E fields : reply' = {[path |-> p, fields |-> fields]}
    BY <1>3 DEF GetAll
  <2>2. \A q \in Paths : Expected(q)' = Expected(q)
    <3>1. {r.path : r \in reply'} = {p}
      BY <2>1
    <3>2. {r.path : r \in reply} = {}
      BY <2>1
    <3> QED
      BY <2>1, <3>1, <3>2 DEF Expected
  <2> QED
    BY <1>1, <2>1, <2>2 DEF Done
<1>4. CASE Store
  <2>1. PICK r \in reply : rows' = rows \union {r.path}
    BY <1>4 DEF Store, Keep
  <2>2. reply = {r} /\ reply' = {} /\ UNCHANGED <<todo, phase>>
    BY <1>4, <2>1 DEF TypeOK, Store
  <2>3. \A q \in Paths : Expected(q)' = Expected(q)
    BY <2>1, <2>2 DEF Expected
  <2>4. phase # "start"
    BY <1>0, <2>2 DEF Done
  <2> QED
    BY <1>0, <1>1, <2>2, <2>3, <2>4 DEF Done
<1>5. CASE RunLoop
  BY <1>1, <1>5 DEF RunLoop, Expected, Done
<1> QED
  BY <1>2, <1>3, <1>4, <1>5 DEF Update

\* Any handler: the head of the queue goes, and only a signal of its
\* object's life makes or drops a row without the other.
LEMMA BelievedLoop == ASSUME TypeOK, Believed, Loop PROVE Believed'
<1> DEFINE m == Head(inbox)
<1>0. /\ phase = "loop" /\ phase' = "loop" /\ inbox # <<>>
      /\ UNCHANGED <<has, todo, reply>>
      /\ Done /\ \A q \in Paths : Bel(q)
  BY BelievedIsBel
  DEF Loop, onInterfacesAdded, onInterfacesRemoved, onPropertiesChanged,
      Discard, Dispatch
<1>1. m \in Message
  BY DispatchType
  DEF Loop, onInterfacesAdded, onInterfacesRemoved, onPropertiesChanged, Discard
<1>2. todo = {} /\ reply = {} /\ todo' = {} /\ reply' = {}
  BY <1>0 DEF Done
<1>3. \A q \in Paths : /\ Expected(q) <=> q \in rows
                       /\ Expected(q)' <=> q \in rows'
                       /\ Present(q)' = Present(q)
  BY <1>0, <1>2 DEF Expected, Present
<1>4. ASSUME Shifted,
             rows' = IF m.type = "Added" /\ Owned(m) THEN rows \union {m.path}
                     ELSE IF m.type = "Removed" /\ Owned(m) THEN rows \ {m.path}
                     ELSE rows
      PROVE  Believed'
  <2>1. ASSUME NEW q \in Paths
        PROVE  IF IsLife(q, m)
               THEN IF m.type = "Added" THEN Expected(q)' ELSE ~Expected(q)'
               ELSE Expected(q)' = Expected(q)
    <3>1. CASE IsLife(q, m) /\ m.type = "Added"
      BY <1>3, <1>4, <3>1 DEF IsLife
    <3>2. CASE IsLife(q, m) /\ m.type = "Removed"
      BY <1>3, <1>4, <3>2 DEF IsLife
    <3>3. CASE ~IsLife(q, m)
      <4>1. q \in rows' <=> q \in rows
        BY <1>4, <3>3 DEF IsLife
      <4> QED
        BY <1>3, <3>3, <4>1 DEF Expected
    <3> QED
      BY <3>1, <3>2, <3>3 DEF IsLife
  <2>2. \A q \in Paths : Bel(q)'
    BY <1>0, <1>3, <1>4, <2>1, HandledLife
  <2> QED
    BY <1>0, <2>2, BelievedIsBelPrime DEF Done
<1>5. CASE onInterfacesAdded
  <2>1. Shifted /\ m.type = "Added"
    BY <1>0, <1>5, TailShifts DEF onInterfacesAdded, Dispatch
  <2>2. rows' = IF Owned(m) THEN rows \union {m.path} ELSE rows
    BY <1>5 DEF onInterfacesAdded, Keep
  <2> QED
    BY <1>4, <2>1, <2>2
<1>6. CASE onInterfacesRemoved
  <2>1. m.type = "Removed"
    BY <1>6 DEF onInterfacesRemoved, Dispatch
  <2>2. CASE Owned(m) /\ m.path \in rows
    <3>1. rows' = rows \ {m.path}
      BY <1>6, <2>2 DEF onInterfacesRemoved, dropItem
    <3>2. Shifted
      <4>1. PICK orphaned \in BOOLEAN :
              inbox' = [n \in 1 .. Len(inbox) - 1 |->
                IF /\ orphaned
                   /\ inbox[n + 1].type = "Changed"
                   /\ inbox[n + 1].path = m.path
                THEN [inbox[n + 1] EXCEPT !.type = "Unmatched"]
                ELSE inbox[n + 1]]
        BY <1>6, <2>2 DEF onInterfacesRemoved
      <4>2. ASSUME NEW n \in 1 .. Len(inbox) - 1 PROVE inbox[n + 1] \in Message
        <5>1. inbox \in Seq(Message)
          BY DEF TypeOK, Message
        <5> QED
          BY <5>1, <1>0, QueueDomain, ElementOfSeq
      <4>3. DOMAIN inbox' = 1 .. Len(inbox) - 1
        BY <4>1
      <4>4. ASSUME NEW n \in 1 .. Len(inbox) - 1
            PROVE  /\ inbox'[n].path = inbox[n + 1].path
                   /\ inbox'[n].ifaces = inbox[n + 1].ifaces
                   /\ \/ inbox'[n].type = inbox[n + 1].type
                      \/ /\ inbox[n + 1].type = "Changed"
                         /\ inbox'[n].type = "Unmatched"
        BY <4>1, <4>2 DEF Message
      <4> QED
        BY <4>3, <4>4 DEF Shifted
    <3> QED
      BY <1>4, <2>1, <2>2, <3>1, <3>2
  <2>3. CASE ~(Owned(m) /\ m.path \in rows)
    <3>1. Shifted /\ rows' = rows
      BY <1>0, <1>6, <2>3, TailShifts DEF onInterfacesRemoved
    <3>2. Owned(m) => rows = rows \ {m.path}
      BY <2>3
    <3> QED
      BY <1>4, <2>1, <3>1, <3>2
  <2> QED
    BY <2>2, <2>3
<1>7. CASE onPropertiesChanged
  <2>1. Shifted /\ m.type = "Changed"
    BY <1>0, <1>7, TailShifts DEF onPropertiesChanged, Dispatch
  <2>2. rows' = rows
    BY <1>7 DEF onPropertiesChanged, Keep
  <2> QED
    BY <1>4, <2>1, <2>2
<1>8. CASE Discard
  <2>1. Shifted /\ m.type = "Unmatched" /\ rows' = rows
    BY <1>0, <1>8, TailShifts DEF Discard, Dispatch
  <2> QED
    BY <1>4, <2>1
<1> QED
  BY <1>5, <1>6, <1>7, <1>8 DEF Loop

LEMMA BelievedRestart == ASSUME Restart PROVE Believed'
<1>1. inbox' = <<>> /\ DOMAIN inbox' = {} /\ phase' = "start"
      /\ todo' = {} /\ reply' = {}
  BY DEF Restart
<1> QED
  BY <1>1 DEF Believed

LEMMA BelievedInit == Init => Believed
<1> SUFFICES ASSUME Init PROVE Believed
  OBVIOUS
<1>1. inbox = <<>> /\ DOMAIN inbox = {} /\ phase = "start"
      /\ todo = {} /\ reply = {}
  BY DEF Init
<1> QED
  BY <1>1 DEF Believed

LEMMA BelievedNext ==
  ASSUME "mapper" \notin Faults, TypeOK, Believed, [Next]_vars
  PROVE  Believed'
<1>1. CASE UNCHANGED vars
  BY <1>1, BelievedIsBel, BelievedIsBelPrime
  DEF vars, Bel, Done, LastLife, Life, Owned, Present, Expected, Whole
<1> QED
  BY <1>1, BelievedObjects, BelievedUpdate, BelievedLoop, BelievedRestart
  DEF Next, Objects, Agent

\* At rest nothing is queued: what the agent believes is what there is.
LEMMA BelievedAtRest ==
  ASSUME Believed, TypeOK
  PROVE  NoPhantomRow /\ (Whole => NoMissingRow)
<1> SUFFICES ASSUME Quiet, NEW p \in Paths
             PROVE  (p \in rows => Present(p)) /\ (Whole /\ Present(p) => p \in rows)
  BY DEF NoPhantomRow, NoMissingRow, TypeOK
<1>1. DOMAIN inbox = {} /\ phase = "loop" /\ todo = {} /\ reply = {}
  BY DEF Quiet, Believed
<1>2. Expected(p) <=> p \in rows
  BY <1>1 DEF Expected
<1> QED
  BY <1>1, <1>2 DEF Believed

\* Unless the mapper errs, a table at rest has no row of an object that is
\* gone, for any number of objects, any queue, and although calls fail,
\* interfaces go one by one and the agent is restarted.
THEOREM NeverPhantom ==
  ASSUME "mapper" \notin Faults
  PROVE  Spec => []NoPhantomRow
<1> DEFINE Inv == TypeOK /\ Believed
<1>1. Init => Inv
  BY TypeInit, BelievedInit
<1>2. Inv /\ [Next]_vars => Inv'
  BY TypeNext, BelievedNext
<1>3. Inv => NoPhantomRow
  BY BelievedAtRest
<1> QED
  BY <1>1, <1>2, <1>3, PTL DEF Spec

\* If moreover objects go as a whole, a table at rest misses no object.
THEOREM NeverMissing ==
  ASSUME "mapper" \notin Faults, "partial" \notin Faults
  PROVE  Spec => []NoMissingRow
<1> DEFINE Inv == TypeOK /\ Believed
<1>1. Init => Inv
  BY TypeInit, BelievedInit
<1>2. Inv /\ [Next]_vars => Inv'
  BY TypeNext, BelievedNext
<1>3. Inv => NoMissingRow
  BY BelievedAtRest DEF Whole
<1> QED
  BY <1>1, <1>2, <1>3, PTL DEF Spec

=============================================================================
