-------------------------- MODULE HostPower_proofs --------------------------
(***************************************************************************)
(* Proofs about HostPower, for any set of host states, any faults and any  *)
(* bounds.                                                                 *)
(***************************************************************************)
EXTENDS HostPower, SequenceTheorems, TLAPS

-----------------------------------------------------------------------------
(* Types.                                                                  *)

LEMMA StatesApart ==
  ASSUME NEW s \in HostStates PROVE s # Other /\ s # Unset
  BY PowerAssumption DEF HostStates, Other, Unset

LEMMA toSNMPType == ASSUME NEW v PROVE toSNMPValue(v) \in {UNKNOWN, OFF, ON}
  BY DEF toSNMPValue

\* The signals a service may emit, and the queue when one joins it.
LEMMA Appended ==
  ASSUME queue \in Seq(Signals), NEW m \in Signals, queue' = Append(queue, m)
  PROVE  /\ queue' \in Seq(Signals)
         /\ Len(queue) \in Nat
         /\ DOMAIN queue = 1 .. Len(queue)
         /\ DOMAIN queue' = 1 .. Len(queue) + 1
         /\ \A n \in DOMAIN queue : queue'[n] = queue[n]
         /\ queue'[Len(queue) + 1] = m
  BY AppendProperties, LenProperties

\* The queue when its head is taken.
LEMMA Taken ==
  ASSUME queue \in Seq(Signals), queue # <<>>, queue' = Tail(queue)
  PROVE  /\ queue' \in Seq(Signals)
         /\ Head(queue) = queue[1] /\ Head(queue) \in Signals
         /\ Len(queue) \in Nat /\ Len(queue) >= 1
         /\ DOMAIN queue = 1 .. Len(queue)
         /\ DOMAIN queue' = 1 .. Len(queue) - 1
         /\ \A n \in DOMAIN queue' : queue'[n] = queue[n + 1]
  BY HeadTailProperties, LenProperties, EmptySeq

LEMMA QueueTypes ==
  ASSUME TypeOK
  PROVE  \A n \in DOMAIN queue : queue[n] \in Signals /\ queue[n].ver \in Nat
<1>1. queue \in Seq(Signals) /\ DOMAIN queue = 1 .. Len(queue)
  BY DEF TypeOK
<1>2. \A n \in DOMAIN queue : queue[n] \in Signals
  BY <1>1, ElementOfSeq
<1> QED
  BY <1>2 DEF Signals

LEMMA TypeInit == Init => TypeOK
<1> SUFFICES ASSUME Init PROVE TypeOK
  OBVIOUS
<1>1. queue \in Seq(Signals)
  BY DEF Init
<1>2. reply \in [val : HostStates \union {Unset}, ver : Nat]
  BY DEF Init, Signal
<1>3. up \in BOOLEAN /\ found \in BOOLEAN /\ heard \in BOOLEAN
  BY DEF Init
<1>4. version \in Nat \ {0} /\ valver \in Nat /\ backlog \in Nat
  BY DEF Init
<1>5. /\ phase \in {"start", "asked", "replied", "loop"} /\ phase # "replied"
      /\ told \in {NoTrap, UNKNOWN, OFF, ON}
      /\ host \in HostStates /\ value \in HostStates \union {Unset}
  BY DEF Init
<1> QED
  BY <1>1, <1>2, <1>3, <1>4, <1>5 DEF TypeOK

LEMMA TypeNext == TypeOK /\ [Next]_vars => TypeOK'
<1> SUFFICES ASSUME TypeOK, [Next]_vars PROVE TypeOK'
  OBVIOUS
<1> USE DEF TypeOK
<1>1. CASE HostChange
  <2>1. host' \in HostStates /\ version' = version + 1
    BY <1>1 DEF HostChange, Publish
  <2>2. Signal(host', version') \in Signals
    BY <2>1 DEF Signal, Signals
  <2>3. queue' \in Seq(Signals)
    BY <1>1, <2>2, Appended DEF HostChange
  <2> QED
    BY <1>1, <2>1, <2>3 DEF HostChange
<1>2. CASE OtherChange
  <2>1. Signal(Other, version) \in Signals
    BY DEF Signal, Signals
  <2>2. queue' \in Seq(Signals)
    BY <1>2, <2>1, Appended DEF OtherChange
  <2> QED
    BY <1>2, <2>2 DEF OtherChange, service
<1>3. CASE ServiceStop
  BY <1>3 DEF ServiceStop
<1>4. CASE ServiceStart
  <2>1. host' \in HostStates /\ version' = version + 1
    BY <1>4 DEF ServiceStart, Publish
  <2>2. Signal(host', version') \in Signals
    BY <2>1 DEF Signal, Signals
  <2>3. queue' \in Seq(Signals) /\ heard' \in BOOLEAN
    BY <1>4, <2>2, Appended DEF ServiceStart
  <2> QED
    BY <1>4, <2>1, <2>3 DEF ServiceStart
<1>5. CASE GetObject
  BY <1>5 DEF GetObject, service
<1>6. CASE Get
  <2>1. CASE phase' = "replied"
    <3>1. /\ phase' = "replied" /\ reply' = Signal(host, version)
          /\ heard' \in BOOLEAN /\ backlog' = Len(queue)
      BY <1>6, <2>1 DEF Get
    <3>2. Len(queue) \in Nat
      OBVIOUS
    <3>3. host # Unset
      BY StatesApart
    <3> QED
      BY <1>6, <3>1, <3>2, <3>3 DEF Get, service, Signal
  <2>2. CASE phase' = "loop"
    BY <1>6, <2>2 DEF Get, service
  <2> QED
    BY <1>6, <2>1, <2>2 DEF Get
<1>7. CASE Store
  BY <1>7, toSNMPType DEF Store, setValue, service
<1>8. CASE onPropertyChanged
  <2>1. Head(queue) \in Signals /\ queue' \in Seq(Signals)
    BY <1>8, Taken DEF onPropertyChanged
  <2>2. backlog' \in Nat
    BY <1>8 DEF onPropertyChanged
  <2> QED
    BY <1>8, <2>1, <2>2, toSNMPType
    DEF onPropertyChanged, setValue, service, Signals
<1>9. CASE Restart
  <2>1. <<>> \in Seq(Signals)
    OBVIOUS
  <2> QED
    BY <1>9, <2>1 DEF Restart, service, Signal
<1>10. CASE UNCHANGED vars
  BY <1>10 DEF vars
<1> QED
  BY <1>1, <1>2, <1>3, <1>4, <1>5, <1>6, <1>7, <1>8, <1>9, <1>10
  DEF Next, Service, Agent

-----------------------------------------------------------------------------
(* Traps.                                                                  *)

LEMMA TrapNext ==
  ASSUME TypeOK, TrapIsValue, [Next]_vars PROVE TrapIsValue'
<1>1. CASE UNCHANGED <<value, told>>
  BY <1>1 DEF TrapIsValue, State_snmp_handler, toSNMPValue
<1>2. ASSUME NEW m, setValue(m), m.val # Unset PROVE TrapIsValue'
  BY <1>2 DEF TrapIsValue, State_snmp_handler, setValue, toSNMPValue
<1>3. CASE Store
  BY <1>2, <1>3 DEF Store, TypeOK
<1>4. CASE onPropertyChanged
  <2>1. Head(queue) \in Signals
    BY <1>4, Taken DEF onPropertyChanged, TypeOK
  <2>2. Head(queue).val # Unset
    BY <2>1, StatesApart DEF Signals, Other, Unset
  <2> QED
    BY <1>1, <1>2, <1>4, <2>2 DEF onPropertyChanged
<1>5. CASE Restart
  BY <1>5 DEF Restart, TrapIsValue
<1>6. CASE Service \/ GetObject \/ Get \/ UNCHANGED vars
  BY <1>1, <1>6 DEF Service, HostChange, OtherChange, ServiceStop,
                    ServiceStart, GetObject, Get, vars
<1> QED
  BY <1>3, <1>4, <1>5, <1>6 DEF Next, Agent

\* The signals in the queue, the initial reply and the value are host states
\* (or the constructor's empty one), and a trap carries a value of the MIB.
THEOREM TypeCorrect == Spec => []TypeOK
  BY TypeInit, TypeNext, PTL DEF Spec

\* No host state is shown without its trap, nor announced but not shown.
THEOREM TrapsMatch == Spec => []TrapIsValue
<1> DEFINE Inv == TypeOK /\ TrapIsValue
<1>1. Init => Inv
  BY TypeInit DEF Init, TrapIsValue
<1>2. Inv /\ [Next]_vars => Inv'
  BY TypeNext, TrapNext
<1> QED
  BY <1>1, <1>2, PTL DEF Spec

-----------------------------------------------------------------------------
(* The order of the states in the queue, and the last of them.             *)

\* The service emits a signal with its latest version.
LEMMA OrderedEmit ==
  ASSUME TypeOK, Ordered, NEW m \in Signals, queue' = Append(queue, m),
         version' \in Nat, version' >= version, m.ver = version',
         m.val # Other => version' > version,
         UNCHANGED <<phase, reply, valver, backlog>>
  PROVE  Ordered'
<1>0. PICK last \in Nat : last = Len(queue) + 1
  BY Appended DEF TypeOK
<1>1. /\ DOMAIN queue = 1 .. last - 1 /\ DOMAIN queue' = 1 .. last
      /\ \A n \in 1 .. last - 1 : queue'[n] = queue[n]
      /\ queue'[last] = m
  BY <1>0, Appended DEF TypeOK
<1>2. /\ version \in Nat /\ version > 0 /\ valver \in Nat /\ reply.ver \in Nat
      /\ backlog \in Nat
      /\ \A n \in 1 .. last - 1 : queue[n].ver \in Nat
  BY <1>1, QueueTypes DEF TypeOK
<1>3. \A n \in 1 .. last - 1 : Carries(n)' <=> Carries(n)
  BY <1>1 DEF Carries
<1>4. Carries(last)' => m.ver > version
  BY <1>1 DEF Carries
<1>5. \A n \in 1 .. last : n \in 1 .. last - 1 \/ n = last
  OBVIOUS
<1>6. valver <= version' /\ reply'.ver <= version'
  BY <1>2 DEF Ordered
<1>7. ASSUME NEW n \in 1 .. last PROVE queue'[n].ver <= version'
  <2>1. CASE n = last
    BY <1>1, <2>1
  <2>2. CASE n \in 1 .. last - 1
    <3>1. queue[n].ver <= version /\ queue'[n] = queue[n]
      BY <1>1, <2>2 DEF Ordered
    <3> QED
      BY <1>2, <2>2, <3>1
  <2> QED
    BY <1>5, <2>1, <2>2
<1>8. \A n \in 1 .. last : Carries(n)' => queue'[n].ver > 0
  BY <1>1, <1>2, <1>3, <1>4, <1>5 DEF Ordered
<1>9. \A k, n \in 1 .. last :
        k < n /\ Carries(k)' /\ Carries(n)' => queue'[k].ver < queue'[n].ver
  <2> SUFFICES ASSUME NEW k \in 1 .. last, NEW n \in 1 .. last, k < n,
                      Carries(k)', Carries(n)'
               PROVE  queue'[k].ver < queue'[n].ver
    OBVIOUS
  <2>1. k \in 1 .. last - 1 /\ Carries(k) /\ queue'[k] = queue[k]
    BY <1>1, <1>3
  <2>2. CASE n = last
    BY <1>1, <1>2, <1>4, <2>1, <2>2 DEF Ordered
  <2>3. CASE n \in 1 .. last - 1
    BY <1>1, <1>3, <2>1, <2>3 DEF Ordered
  <2> QED
    BY <1>5, <2>2, <2>3
<1>10. phase = "replied" => \A n \in 1 .. last :
          n > backlog /\ Carries(n)' => queue'[n].ver > reply.ver
  BY <1>1, <1>2, <1>3, <1>4, <1>5 DEF Ordered
<1>11. phase = "loop" => \A n \in 1 .. last :
          n > backlog /\ Carries(n)' => queue'[n].ver > valver
  BY <1>1, <1>2, <1>3, <1>4, <1>5 DEF Ordered
<1> QED
  BY <1>1, <1>6, <1>7, <1>8, <1>9, <1>10, <1>11 DEF Ordered

\* The agent handles the signal at the head.
LEMMA OrderedTake ==
  ASSUME TypeOK, Ordered, onPropertyChanged
  PROVE  Ordered'
<1>1. /\ phase = "loop" /\ queue # <<>> /\ queue' = Tail(queue)
      /\ backlog' = IF backlog > 0 THEN backlog - 1 ELSE 0
      /\ UNCHANGED <<version, phase, reply>>
      /\ valver' = IF queue[1].val # Other THEN queue[1].ver ELSE valver
  BY Taken DEF onPropertyChanged, setValue, service, TypeOK
<1>2. /\ Len(queue) \in Nat /\ Len(queue) >= 1
      /\ DOMAIN queue = 1 .. Len(queue)
      /\ DOMAIN queue' = 1 .. Len(queue) - 1
      /\ \A n \in DOMAIN queue' : queue'[n] = queue[n + 1]
  BY <1>1, Taken DEF TypeOK
<1>3. \A n \in DOMAIN queue' : /\ n + 1 \in DOMAIN queue /\ n + 1 > 1
                              /\ Carries(n)' <=> Carries(n + 1)
  BY <1>2 DEF Carries
<1>4. 1 \in DOMAIN queue /\ (Carries(1) <=> queue[1].val # Other)
  BY <1>2 DEF Carries
<1>5. \A n \in DOMAIN queue : queue[n].ver \in Nat
  BY QueueTypes
<1>6. valver' <= version
  BY <1>1, <1>4 DEF Ordered
<1>7. ASSUME NEW n \in DOMAIN queue', n > backlog', Carries(n)'
      PROVE  queue'[n].ver > valver'
  <2>1. CASE Carries(1)
    BY <1>1, <1>2, <1>3, <1>4, <1>5, <1>7, <2>1 DEF Ordered
  <2>2. CASE ~Carries(1)
    <3>1. n + 1 > backlog
      BY <1>1, <1>2, <1>7 DEF TypeOK
    <3> QED
      BY <1>1, <1>2, <1>3, <1>4, <1>7, <2>2, <3>1 DEF Ordered
  <2> QED
    BY <2>1, <2>2
<1>8. \A k, n \in DOMAIN queue' : k < n => k + 1 < n + 1
  BY <1>2
<1>9. /\ \A n \in DOMAIN queue' : queue'[n].ver <= version
      /\ \A n \in DOMAIN queue' : Carries(n)' => queue'[n].ver > 0
      /\ \A k, n \in DOMAIN queue' :
          k < n /\ Carries(k)' /\ Carries(n)' => queue'[k].ver < queue'[n].ver
  BY <1>2, <1>3, <1>8 DEF Ordered
<1> QED
  BY <1>1, <1>6, <1>7, <1>9 DEF Ordered

LEMMA OrderedNext == ASSUME TypeOK, Ordered, [Next]_vars PROVE Ordered'
<1>0. version \in Nat /\ version > 0
  BY DEF TypeOK
<1>1. CASE UNCHANGED <<queue, phase, reply, valver, backlog>>
           /\ version' \in Nat /\ version' >= version
  <2>1. \A n \in DOMAIN queue : queue[n].ver \in Nat /\ (Carries(n)' <=> Carries(n))
    BY <1>1, QueueTypes DEF Carries
  <2>2. valver \in Nat /\ reply.ver \in Nat
    BY DEF TypeOK
  <2>3. /\ valver <= version' /\ reply.ver <= version'
        /\ \A n \in DOMAIN queue : queue[n].ver <= version'
    BY <1>0, <1>1, <2>1, <2>2 DEF Ordered
  <2> QED
    BY <1>1, <2>1, <2>3 DEF Ordered
<1>2. CASE HostChange \/ ServiceStart
  <2>1. /\ host' \in HostStates /\ version' = version + 1
        /\ UNCHANGED <<phase, reply, valver, backlog>>
        /\ queue' = Append(queue, Signal(host', version')) \/ UNCHANGED queue
    BY <1>2 DEF HostChange, ServiceStart, Publish
  <2>2. PICK m \in Signals : m = Signal(host', version')
    BY <1>0, <2>1 DEF Signal, Signals
  <2>3. m.ver = version'
    BY <2>2 DEF Signal
  <2> QED
    BY <1>0, <1>1, <2>1, <2>2, <2>3, OrderedEmit
<1>3. CASE OtherChange
  <2>1. PICK m \in Signals : m = Signal(Other, version)
    BY <1>0 DEF Signal, Signals
  <2>2. m.ver = version /\ m.val = Other
    BY <2>1 DEF Signal
  <2> QED
    BY <1>0, <1>3, <2>1, <2>2, OrderedEmit DEF OtherChange, service
<1>4. CASE ServiceStop \/ UNCHANGED vars
  BY <1>0, <1>1, <1>4 DEF ServiceStop, vars
<1>5. CASE GetObject
  BY <1>5 DEF GetObject, service, Ordered, Carries
<1>6. CASE Get
  <2>1. CASE phase' = "replied"
    <3>1. /\ reply' = Signal(host, version) /\ backlog' = Len(queue)
          /\ phase = "asked" /\ phase' = "replied"
          /\ UNCHANGED <<version, queue, valver>>
      BY <1>6, <2>1 DEF Get, service
    <3>2. reply'.ver = version
      BY <3>1 DEF Signal
    <3>3. \A n \in DOMAIN queue : ~(n > Len(queue))
      BY DEF TypeOK
    <3>4. \A n \in DOMAIN queue : Carries(n)' <=> Carries(n)
      BY <3>1 DEF Carries
    <3> QED
      BY <1>0, <3>1, <3>2, <3>3, <3>4 DEF Ordered
  <2>2. CASE phase' = "loop"
    <3>1. /\ phase = "asked" /\ phase' = "loop"
          /\ UNCHANGED <<version, queue, reply, valver, backlog>>
      BY <1>6, <2>2 DEF Get, service
    <3>2. \A n \in DOMAIN queue : Carries(n)' <=> Carries(n)
      BY <3>1 DEF Carries
    <3> QED
      BY <3>1, <3>2 DEF Ordered
  <2> QED
    BY <1>6, <2>1, <2>2 DEF Get
<1>7. CASE Store
  <2>1. /\ phase = "replied" /\ phase' = "loop" /\ valver' = reply.ver
        /\ UNCHANGED <<version, queue, reply, backlog>>
    BY <1>7 DEF Store, setValue, service
  <2>2. \A n \in DOMAIN queue : Carries(n)' <=> Carries(n)
    BY <2>1 DEF Carries
  <2> QED
    BY <2>1, <2>2 DEF Ordered
<1>8. CASE onPropertyChanged
  BY <1>8, OrderedTake
<1>9. CASE Restart
  <2>1. /\ DOMAIN queue' = {} /\ phase' = "start" /\ valver' = 0
        /\ reply'.ver = 0 /\ backlog' = 0 /\ version' = version
    BY <1>9 DEF Restart, service, Signal
  <2> QED
    BY <1>0, <2>1 DEF Ordered
<1> QED
  BY <1>2, <1>3, <1>4, <1>5, <1>6, <1>7, <1>8, <1>9 DEF Next, Service, Agent

LEMMA OrderedInit == Init => Ordered
<1> SUFFICES ASSUME Init PROVE Ordered
  OBVIOUS
<1>1. DOMAIN queue = {} /\ reply.ver = 0 /\ version = 1 /\ valver = 0
      /\ phase = "start" /\ backlog = 0
  BY DEF Init, Signal
<1> QED
  BY <1>1 DEF Ordered

\* Once the signals that the initial reply overtook are handled, the agent
\* never takes an older host state for a newer one.
THEOREM OnlyForward == Spec => MovesForward
<1> DEFINE Inv == TypeOK /\ Ordered
<1>1. Init => Inv
  BY TypeInit, OrderedInit
<1>2. Inv /\ [Next]_vars => Inv'
  BY TypeNext, OrderedNext
<1>3. Inv /\ [Next]_vars =>
        [(backlog = 0 /\ value' # value /\ value' # Unset)
            => valver' > valver]_vars
  <2> SUFFICES ASSUME TypeOK, Ordered, [Next]_vars, backlog = 0,
                      value' # value, value' # Unset
               PROVE  valver' > valver
    OBVIOUS
  <2>1. onPropertyChanged \/ Store
    BY DEF Next, Service, Agent, HostChange, OtherChange, ServiceStop,
           ServiceStart, GetObject, Get, Restart, vars
  <2>2. CASE onPropertyChanged
    <3>1. queue # <<>> /\ setValue(Head(queue)) /\ Head(queue).val # Other
      BY <2>2 DEF onPropertyChanged
    <3>2. 1 \in DOMAIN queue /\ Head(queue) = queue[1] /\ queue' = Tail(queue)
      BY <2>2, <3>1, Taken DEF TypeOK, onPropertyChanged
    <3>3. Carries(1) /\ phase = "loop"
      BY <2>2, <3>1, <3>2 DEF Carries, onPropertyChanged
    <3> QED
      BY <3>1, <3>2, <3>3 DEF Ordered, setValue
  <2>3. CASE Store
    BY <2>3 DEF Store, setValue, Ordered
  <2> QED
    BY <2>1, <2>2, <2>3
<1> QED
  BY <1>1, <1>2, <1>3, PTL DEF Spec, MovesForward

-----------------------------------------------------------------------------
(* The agent ends with the state of the host.                              *)

\* A new state that is announced is the last one of the queue.
LEMMA LatestAnnounce ==
  ASSUME TypeOK, NEW m \in Signals, queue' = Append(queue, m),
         m.val # Other, m.val = host'
  PROVE  Latest'
<1>0. PICK last \in Nat : last = Len(queue) + 1
  BY Appended DEF TypeOK
<1>1. DOMAIN queue' = 1 .. last /\ queue'[last] = m
  BY <1>0, Appended DEF TypeOK
<1>2. last \in DOMAIN queue' /\ Carries(last)'
  BY <1>0, <1>1, Appended DEF Carries, TypeOK
<1>3. \A n \in DOMAIN queue' : n = last \/ last > n
  BY <1>1
<1>4. \A n \in DOMAIN queue' : LastCarrier(n)' => n = last
  BY <1>2, <1>3 DEF LastCarrier
<1> QED
  BY <1>1, <1>2, <1>4 DEF Latest

\* A signal that carries no state changes nothing.
LEMMA LatestOther ==
  ASSUME TypeOK, Latest, NEW m \in Signals, queue' = Append(queue, m),
         m.val = Other, UNCHANGED <<up, heard, host, phase, value, reply>>
  PROVE  Latest'
<1>0. PICK last \in Nat : last = Len(queue) + 1
  BY Appended DEF TypeOK
<1>1. /\ DOMAIN queue = 1 .. last - 1 /\ DOMAIN queue' = 1 .. last
      /\ \A n \in DOMAIN queue : queue'[n] = queue[n]
      /\ queue'[last] = m
  BY <1>0, Appended DEF TypeOK
<1>2. /\ ~Carries(last)'
      /\ \A n \in DOMAIN queue : Carries(n)' <=> Carries(n)
      /\ DOMAIN queue' = DOMAIN queue \union {last}
  BY <1>1 DEF Carries
<1>3. \A n \in DOMAIN queue' :
        LastCarrier(n)' => n \in DOMAIN queue /\ LastCarrier(n)
  BY <1>2 DEF LastCarrier
<1>4. (\A n \in DOMAIN queue' : ~Carries(n)') => \A n \in DOMAIN queue : ~Carries(n)
  BY <1>2
<1> QED
  BY <1>1, <1>3, <1>4 DEF Latest

LEMMA LatestTake ==
  ASSUME TypeOK, Latest, onPropertyChanged
  PROVE  Latest'
<1>1. /\ phase = "loop" /\ queue # <<>> /\ queue' = Tail(queue)
      /\ UNCHANGED <<up, heard, host, phase, reply>>
      /\ value' = IF queue[1].val # Other THEN queue[1].val ELSE value
  BY Taken DEF onPropertyChanged, setValue, service, TypeOK
<1>2. /\ Len(queue) \in Nat /\ Len(queue) >= 1
      /\ DOMAIN queue = 1 .. Len(queue)
      /\ DOMAIN queue' = 1 .. Len(queue) - 1
      /\ \A n \in DOMAIN queue' : queue'[n] = queue[n + 1]
  BY <1>1, Taken DEF TypeOK
<1>3. \A n \in DOMAIN queue' : /\ n + 1 \in DOMAIN queue
                              /\ Carries(n)' <=> Carries(n + 1)
  BY <1>2 DEF Carries
<1>4. 1 \in DOMAIN queue /\ (Carries(1) <=> queue[1].val # Other)
  BY <1>2 DEF Carries
<1>5. \A k \in DOMAIN queue : k = 1 \/ (k - 1 \in DOMAIN queue' /\ (k - 1) + 1 = k)
  BY <1>2
<1>6. ASSUME NEW n \in DOMAIN queue', LastCarrier(n)' PROVE LastCarrier(n + 1)
  <2>0. Carries(n)'
    BY <1>6 DEF LastCarrier
  <2>1. Carries(n + 1)
    BY <1>2, <2>0 DEF Carries
  <2>2. ASSUME NEW k \in DOMAIN queue, k > n + 1 PROVE ~Carries(k)
    <3>1. k - 1 \in DOMAIN queue' /\ k - 1 > n /\ (k - 1) + 1 = k
      BY <1>2, <2>2
    <3>2. ~Carries(k - 1)'
      BY <1>6, <3>1 DEF LastCarrier
    <3> QED
      BY <1>3, <3>1, <3>2
  <2> QED
    BY <2>1, <2>2 DEF LastCarrier
<1>7. ASSUME \A n \in DOMAIN queue' : ~Carries(n)', up, heard
      PROVE  value' = host
  <2>1. \A k \in DOMAIN queue : k # 1 => ~Carries(k)
    BY <1>3, <1>5, <1>7
  <2>2. CASE Carries(1)
    <3>1. LastCarrier(1)
      BY <1>2, <2>1, <2>2 DEF LastCarrier
    <3> QED
      BY <1>1, <1>4, <1>7, <2>2, <3>1 DEF Latest
  <2>3. CASE ~Carries(1)
    BY <1>1, <1>4, <1>7, <2>1, <2>3 DEF Latest
  <2> QED
    BY <2>2, <2>3
<1> QED
  BY <1>1, <1>2, <1>3, <1>6, <1>7 DEF Latest

LEMMA LatestNext == ASSUME TypeOK, Latest, [Next]_vars PROVE Latest'
<1>1. CASE UNCHANGED vars
  BY <1>1 DEF vars, Latest, LastCarrier, Carries
<1>2. CASE HostChange \/ ServiceStart
  <2>1. /\ host' \in HostStates /\ version' = version + 1
        /\ \/ queue' = Append(queue, Signal(host', version'))
           \/ heard' = FALSE
    BY <1>2 DEF HostChange, ServiceStart, Publish
  <2>2. CASE heard' = FALSE
    BY <2>2 DEF Latest
  <2>3. CASE queue' = Append(queue, Signal(host', version'))
    <3>1. PICK m \in Signals : m = Signal(host', version')
      BY <2>1 DEF Signal, Signals, TypeOK
    <3>2. m.val = host' /\ m.val # Other
      BY <2>1, <3>1, StatesApart DEF Signal
    <3> QED
      BY <2>3, <3>1, <3>2, LatestAnnounce
  <2> QED
    BY <2>1, <2>2, <2>3
<1>3. CASE OtherChange
  <2>1. PICK m \in Signals : m = Signal(Other, version)
    BY DEF Signal, Signals, TypeOK
  <2>2. m.val = Other
    BY <2>1 DEF Signal
  <2> QED
    BY <1>3, <2>1, <2>2, LatestOther DEF OtherChange, service
<1>4. CASE ServiceStop
  BY <1>4 DEF ServiceStop, Latest
<1>5. CASE GetObject
  BY <1>5 DEF GetObject, service, Latest, LastCarrier, Carries
<1>6. CASE Get
  <2>1. CASE phase' = "replied"
    <3>1. /\ reply'.val = host /\ phase' = "replied" /\ phase = "asked"
          /\ UNCHANGED <<up, host, queue>>
          /\ heard' = (heard \/ \A n \in DOMAIN queue : queue[n].val = Other)
      BY <1>6, <2>1 DEF Get, service, Signal
    <3>2. \A n : /\ Carries(n)' = Carries(n)
                 /\ LastCarrier(n)' = LastCarrier(n)
      BY <3>1 DEF Carries, LastCarrier
    <3>3. CASE heard
      BY <3>1, <3>2, <3>3 DEF Latest
    <3>4. CASE \A n \in DOMAIN queue : queue[n].val = Other
      <4>1. \A n : ~Carries(n) /\ ~LastCarrier(n)
        BY <3>4 DEF Carries, LastCarrier
      <4> QED
        BY <3>1, <3>2, <4>1 DEF Latest
    <3>5. CASE ~heard'
      BY <3>5 DEF Latest
    <3> QED
      BY <3>1, <3>3, <3>4, <3>5
  <2>2. CASE phase' = "loop"
    BY <1>6, <2>2 DEF Get, service, Latest, LastCarrier, Carries
  <2> QED
    BY <1>6, <2>1, <2>2 DEF Get
<1>7. CASE Store
  BY <1>7 DEF Store, setValue, service, Latest, LastCarrier, Carries
<1>8. CASE onPropertyChanged
  BY <1>8, LatestTake
<1>9. CASE Restart
  BY <1>9 DEF Restart, Latest
<1> QED
  BY <1>1, <1>2, <1>3, <1>4, <1>5, <1>6, <1>7, <1>8, <1>9 DEF Next, Service, Agent

\* At rest the agent shows the state of the host unless nothing told it: the
\* service that has it came up without a word, or was there before the agent,
\* whose initial Get failed or found signals still waiting.
THEOREM HostIsShown == Spec => []ShowsHost
<1> DEFINE Inv == TypeOK /\ Latest
<1>1. Init => Inv
  BY TypeInit DEF Init, Latest
<1>2. Inv /\ [Next]_vars => Inv'
  BY TypeNext, LatestNext
<1>3. Inv => ShowsHost
  <2> SUFFICES ASSUME Latest, Quiet, up, heard PROVE value = host
    BY DEF ShowsHost
  <2>1. DOMAIN queue = {} /\ phase = "loop"
    BY DEF Quiet
  <2> QED
    BY <2>1 DEF Latest
<1> QED
  BY <1>1, <1>2, <1>3, PTL DEF Spec

-----------------------------------------------------------------------------
(* The agent implements HostMib.                                           *)

\* Whatever has the number of the host's state is that state, and before the
\* loop nothing is known.
Genuine ==
    /\ phase # "loop" => value = Unset
    /\ \A n \in DOMAIN queue :
          Carries(n) /\ queue[n].ver = version => queue[n].val = host
    /\ reply.ver = version => reply.val = host
    /\ valver = version => value = host

LEMMA GenuineInit == Init => Genuine
  BY DEF Init, Genuine, Signal

\* A signal with a state carries the new one, and older numbers are smaller.
LEMMA GenuineEmit ==
  ASSUME TypeOK, Ordered, Genuine, NEW m \in Signals, queue' = Append(queue, m),
         m.val # Other => m.val = host',
         (version' = version /\ host' = host) \/ version' = version + 1,
         UNCHANGED <<phase, reply, value, valver>>
  PROVE  Genuine'
<1>0. PICK last \in Nat : last = Len(queue) + 1
  BY Appended DEF TypeOK
<1>1. /\ DOMAIN queue = 1 .. last - 1 /\ DOMAIN queue' = 1 .. last
      /\ \A n \in 1 .. last - 1 : queue'[n] = queue[n]
      /\ queue'[last] = m
  BY <1>0, Appended DEF TypeOK
<1>2. /\ version \in Nat /\ valver \in Nat /\ reply.ver \in Nat
      /\ \A n \in 1 .. last - 1 : queue[n].ver \in Nat
  BY <1>1, QueueTypes DEF TypeOK
<1>3. /\ valver <= version /\ reply.ver <= version
      /\ \A n \in 1 .. last - 1 : queue[n].ver <= version
  BY <1>1 DEF Ordered
<1>4. ASSUME NEW n \in 1 .. last, Carries(n)', queue'[n].ver = version'
      PROVE  queue'[n].val = host'
  <2>1. CASE n = last
    <3>1. queue'[n] = m
      BY <1>1, <2>1
    <3>2. m.val # Other
      BY <1>4, <3>1 DEF Carries
    <3> QED
      BY <3>1, <3>2
  <2>2. CASE n \in 1 .. last - 1
    <3>1. Carries(n) /\ queue'[n] = queue[n]
      BY <1>1, <1>4, <2>2 DEF Carries
    <3>2. version' = version /\ host' = host
      BY <1>2, <1>3, <1>4, <2>2, <3>1
    <3> QED
      BY <1>1, <1>4, <2>2, <3>1, <3>2 DEF Genuine
  <2>3. n = last \/ n \in 1 .. last - 1
    BY <1>0, <1>4
  <2> QED
    BY <2>1, <2>2, <2>3
<1>5. /\ reply.ver = version' => reply.val = host'
      /\ valver = version' => value = host'
  BY <1>2, <1>3 DEF Genuine
<1> QED
  BY <1>1, <1>4, <1>5 DEF Genuine

LEMMA GenuineNext ==
  ASSUME TypeOK, Ordered, Genuine, [Next]_vars PROVE Genuine'
<1>0. version \in Nat /\ version > 0
  BY DEF TypeOK
<1>1. CASE UNCHANGED <<host, version, queue, phase, reply, value, valver>>
  BY <1>1 DEF Genuine, Carries
<1>2. CASE HostChange \/ ServiceStart
  <2>1. /\ host' \in HostStates /\ version' = version + 1
        /\ UNCHANGED <<phase, reply, value, valver>>
        /\ queue' = Append(queue, Signal(host', version')) \/ UNCHANGED queue
    BY <1>2 DEF HostChange, ServiceStart, Publish
  <2>2. CASE UNCHANGED queue
    <3>1. /\ valver \in Nat /\ reply.ver \in Nat
          /\ \A n \in DOMAIN queue : queue[n].ver \in Nat
      BY QueueTypes DEF TypeOK
    <3>2. /\ valver # version' /\ reply.ver # version'
          /\ \A n \in DOMAIN queue : queue[n].ver # version'
      BY <1>0, <2>1, <3>1 DEF Ordered
    <3> QED
      BY <2>1, <2>2, <3>2 DEF Genuine
  <2>3. CASE queue' = Append(queue, Signal(host', version'))
    <3>1. PICK m \in Signals : m = Signal(host', version')
      BY <1>0, <2>1 DEF Signal, Signals
    <3>2. m.val = host'
      BY <3>1 DEF Signal
    <3> QED
      BY <2>1, <2>3, <3>1, <3>2, GenuineEmit
  <2> QED
    BY <2>1, <2>2, <2>3
<1>3. CASE OtherChange
  <2>1. PICK m \in Signals : m = Signal(Other, version)
    BY <1>0 DEF Signal, Signals
  <2>2. m.val = Other
    BY <2>1 DEF Signal
  <2> QED
    BY <1>3, <2>1, <2>2, GenuineEmit DEF OtherChange, service
<1>4. CASE ServiceStop \/ UNCHANGED vars
  BY <1>1, <1>4 DEF ServiceStop, vars
<1>5. CASE GetObject \/ Get
  <2>1. /\ UNCHANGED <<host, version, queue, value, valver>>
        /\ phase # "loop"
        /\ UNCHANGED reply \/ reply' = Signal(host, version)
    BY <1>5 DEF GetObject, Get, service
  <2> QED
    BY <2>1 DEF Genuine, Carries, Signal
<1>6. CASE Store
  BY <1>6 DEF Store, setValue, service, Genuine, Carries
<1>7. CASE onPropertyChanged
  <2>1. /\ queue # <<>> /\ queue' = Tail(queue) /\ phase = "loop"
        /\ UNCHANGED <<host, version, phase, reply>>
    BY <1>7 DEF onPropertyChanged, service
  <2>2. /\ 1 \in DOMAIN queue /\ Head(queue) = queue[1]
        /\ \A n \in DOMAIN queue' : n + 1 \in DOMAIN queue /\ queue'[n] = queue[n + 1]
    BY <2>1, Taken DEF TypeOK
  <2>3. \A n \in DOMAIN queue' :
          Carries(n)' /\ queue'[n].ver = version => queue'[n].val = host
    BY <2>2 DEF Carries, Genuine
  <2>4. CASE Head(queue).val # Other
    <3>1. Carries(1) /\ value' = queue[1].val /\ valver' = queue[1].ver
      BY <1>7, <2>2, <2>4 DEF onPropertyChanged, setValue, Carries
    <3> QED
      BY <2>1, <2>2, <2>3, <3>1 DEF Genuine
  <2>5. CASE Head(queue).val = Other
    BY <1>7, <2>1, <2>3, <2>5 DEF onPropertyChanged, Genuine
  <2> QED
    BY <2>4, <2>5
<1>8. CASE Restart
  BY <1>0, <1>8 DEF Restart, service, Signal, Genuine
<1> QED
  BY <1>2, <1>3, <1>4, <1>5, <1>6, <1>7, <1>8 DEF Next, Service, Agent

MibInv == TypeOK /\ TrapIsValue /\ Ordered /\ Genuine

LEMMA MibInductive == Spec => []MibInv
<1>1. Init => MibInv
  BY TypeInit, OrderedInit, GenuineInit DEF Init, TrapIsValue, MibInv
<1>2. MibInv /\ [Next]_vars => MibInv'
  BY TypeNext, TrapNext, OrderedNext, GenuineNext DEF MibInv
<1> QED
  BY <1>1, <1>2, PTL DEF Spec

Late == IF phase = "loop" THEN backlog ELSE 0
mib == <<host, version, value, valver, told, Late>>

\* The initial reply is the first state the agent knows.
LEMMA StoreIsMib == ASSUME MibInv, MibInv', Store PROVE Mib!Next
<1>1. /\ phase = "replied" /\ phase' = "loop" /\ setValue(reply)
      /\ UNCHANGED <<host, version, backlog>>
  BY DEF Store, service
<1>2. /\ value = Unset /\ reply.val # Unset /\ reply.val \in HostStates
      /\ reply.ver \in 1 .. version
      /\ reply.ver = version => reply.val = host
  BY <1>1 DEF MibInv, Genuine, TypeOK, Ordered
<1>3. value' = reply.val /\ valver' = reply.ver /\ told' = toSNMPValue(value')
  BY <1>1, <1>2 DEF setValue
<1>4. Late' \in Nat
  BY <1>1 DEF MibInv, TypeOK, Late
<1>5. Mib!First
  BY <1>1, <1>2, <1>3, <1>4 DEF Mib!First, Mib!Know, Late
<1> QED
  BY <1>5 DEF Mib!Next

\* A signal is the first one, or the next one; a late one may be any.
LEMMA SignalIsMib ==
  ASSUME MibInv, MibInv', onPropertyChanged
  PROVE  [Mib!Next]_mib
<1>1. /\ phase = "loop" /\ phase' = "loop" /\ queue # <<>> /\ queue' = Tail(queue)
      /\ backlog' = IF backlog > 0 THEN backlog - 1 ELSE 0
      /\ UNCHANGED <<host, version>>
  BY DEF onPropertyChanged, service
<1>2. 1 \in DOMAIN queue /\ Head(queue) = queue[1] /\ Head(queue) \in Signals
  BY <1>1, Taken DEF MibInv, TypeOK
<1>3. backlog \in Nat /\ Late = backlog /\ Late' = backlog' /\ Late' \in Nat
  BY <1>1 DEF MibInv, TypeOK, Late
<1>4. CASE Head(queue).val = Other
  <2>1. UNCHANGED <<value, valver, told>>
    BY <1>4 DEF onPropertyChanged
  <2>2. CASE backlog > 0
    <3>1. Mib!Skip
      BY <1>1, <1>3, <2>1, <2>2 DEF Mib!Skip, Late
    <3> QED
      BY <3>1 DEF Mib!Next
  <2>3. CASE backlog = 0
    BY <1>1, <1>3, <2>1, <2>3 DEF mib
  <2> QED
    BY <1>3, <2>2, <2>3
<1>5. CASE Head(queue).val # Other
  <2>1. Carries(1) /\ setValue(queue[1])
    BY <1>2, <1>5 DEF onPropertyChanged, Carries
  <2>2. /\ queue[1].val \in HostStates /\ queue[1].val # Unset
        /\ queue[1].ver \in Nat
    BY <1>2, <1>5, StatesApart DEF Signals
  <2>3. /\ queue[1].ver \in 1 .. version
        /\ queue[1].ver = version => queue[1].val = host
        /\ backlog = 0 => queue[1].ver > valver
    BY <1>1, <1>2, <2>1, <2>2 DEF MibInv, TypeOK, Genuine, Ordered
  <2>4. value' = queue[1].val /\ valver' = queue[1].ver /\ told' = toSNMPValue(value')
    <3>1. value' = queue[1].val /\ valver' = queue[1].ver
      BY <2>1 DEF setValue
    <3>2. told' = toSNMPValue(value')
      BY <2>2, <3>1 DEF MibInv, TrapIsValue, State_snmp_handler
    <3> QED
      BY <3>1, <3>2
  <2>5. Mib!Know(queue[1].ver)
    BY <1>1, <2>2, <2>3, <2>4 DEF Mib!Know
  <2>6. CASE value = Unset
    <3>1. Mib!First
      BY <1>3, <2>3, <2>5, <2>6 DEF Mib!First, Late
    <3> QED
      BY <3>1 DEF Mib!Next
  <2>7. CASE value # Unset
    <3>1. Mib!Signal
      BY <1>1, <1>3, <2>3, <2>5, <2>7 DEF Mib!Signal, Late
    <3> QED
      BY <3>1 DEF Mib!Next
  <2> QED
    BY <2>6, <2>7
<1> QED
  BY <1>4, <1>5

LEMMA MibNext == MibInv /\ MibInv' /\ [Next]_vars => [Mib!Next]_mib
<1> SUFFICES ASSUME MibInv, MibInv', [Next]_vars PROVE [Mib!Next]_mib
  OBVIOUS
<1>1. CASE HostChange \/ ServiceStart
  <2>1. Mib!Publish
    BY <1>1 DEF HostChange, ServiceStart, Publish, Mib!Publish
  <2> QED
    BY <2>1 DEF Mib!Next
<1>2. CASE OtherChange \/ ServiceStop \/ GetObject \/ UNCHANGED vars
  BY <1>2 DEF OtherChange, ServiceStop, GetObject, service, vars, mib, Late
<1>3. CASE Get
  <2>1. /\ UNCHANGED <<host, version, value, valver, told>>
        /\ phase = "asked" /\ phase' \in {"replied", "loop"}
        /\ phase' = "loop" => backlog' = backlog
    BY <1>3 DEF Get, service
  <2> QED
    BY <2>1 DEF MibInv, Ordered, mib, Late
<1>4. CASE Store
  BY <1>4, StoreIsMib
<1>5. CASE onPropertyChanged
  BY <1>5, SignalIsMib
<1>6. CASE Restart
  <2>1. Mib!Forget
    BY <1>6 DEF Restart, service, Mib!Forget
  <2> QED
    BY <2>1 DEF Mib!Next
<1> QED
  BY <1>1, <1>2, <1>3, <1>4, <1>5, <1>6 DEF Next, Service, Agent

\* For any states of the host and any faults: a GET and the last trap tell the
\* same state the host has had, they move forward but for the signals that the
\* initial reply overtook, and only a new agent knows nothing (Scalar::update,
\* onPropertyChanged; State::setValue).
THEOREM ImplementsMib == Spec => MibSpec
<1>1. Init => Mib!Init
  BY DEF Init, Mib!Init
<1>2. MibInv /\ MibInv' /\ [Next]_vars => [Mib!Next]_mib
  BY MibNext
<1> QED
  BY <1>1, <1>2, MibInductive, PTL DEF Spec, MibSpec, Mib!Spec, Mib!vars, mib, Late

=============================================================================
