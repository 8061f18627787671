--------------------------- MODULE SnmpCfg_proofs ---------------------------
(***************************************************************************)
(* Theorems about the configuration manager, for any names, whatever is    *)
(* read where one was written or broken off, any file and any number of    *)
(* requests, crashes and failures.                                         *)
(***************************************************************************)
EXTENDS SnmpCfg, SequenceTheorems, TLAPS

\* What is written for a line are lines.
LEMMA RewriteType ==
    ASSUME NEW line \in Lines, value \in Names
    PROVE  /\ rewrite(line) \in Seq(Lines)
           /\ rewrite(line) = LinesFor(line, value)
           /\ rewritePart(line) = TornFor(line, value)
           /\ \A piece \in rewritePart(line) : piece \in Seq(Lines)
<1>1. line = Other \/ line = value <=> line \in {Other, value}
  OBVIOUS
<1>2. rewrite(line) = LinesFor(line, value)
  BY <1>1 DEF rewrite, LinesFor, Keeps
<1>3. rewrite(line) \in Seq(Lines)
  <2>1. CASE line = Other \/ line = value
    <3>1. <<line>> \in Seq(Lines)
      OBVIOUS
    <3> QED
      BY <2>1, <3>1 DEF rewrite
  <2>2. CASE ~(line = Other \/ line = value)
    <3>1. Written[value] \in Seq(Lines)
      BY ConfAssumption
    <3> QED
      BY <2>2, <3>1 DEF rewrite
  <2> QED
    BY <2>1, <2>2
<1>4. rewritePart(line) = TornFor(line, value)
  BY <1>1 DEF rewritePart, TornFor, Keeps
<1>5. rewritePart(line) \in SUBSET Seq(Lines)
  <2>1. \A l \in Names \union Lines : Torn[l] \in SUBSET Seq(Lines)
    BY ConfAssumption
  <2> QED
    BY <2>1 DEF rewritePart
<1> QED
  BY <1>2, <1>3, <1>4, <1>5

\* The names of a file are the names in its lines.
LEMMA NamesOfType ==
    ASSUME NEW file \in Seq(Lines)
    PROVE  NamesOf(file) \subseteq FileNames \union {NoName}
  BY DEF NamesOf, Lines

LEMMA TypeInit == Init => TypeOK
<1> SUFFICES ASSUME Init PROVE TypeOK
  OBVIOUS
<1>1. conf \in Seq(Lines) /\ tmp \in Seq(Lines)
  BY CfgAssumption DEF Init
<1>2. daemon \subseteq FileNames \union {NoName}
  BY <1>1, NamesOfType DEF Init
<1> QED
  BY <1>1, <1>2, CfgAssumption DEF Init, TypeOK

LEMMA WriteType ==
    ASSUME TypeOK, value \in Names, NEW line \in Lines, write(line)
    PROVE  tmp' \in Seq(Lines) /\ failed' \in BOOLEAN
<1>1. tmp \in Seq(Lines) /\ failed \in BOOLEAN
  BY DEF TypeOK
<1>2. CASE UNCHANGED tmp
  BY <1>1, <1>2 DEF write
<1>3. CASE \E piece \in Seq(Lines) : tmp' = tmp \o piece
  BY <1>1, <1>3, ConcatProperties DEF write
<1> QED
  BY <1>2, <1>3, RewriteType DEF write

LEMMA TypeNext == TypeOK /\ [Next]_vars => TypeOK'
<1> SUFFICES ASSUME TypeOK, [Next]_vars PROVE TypeOK'
  OBVIOUS
<1> USE DEF TypeOK
<1>1. CASE Request
  BY <1>1, CfgAssumption DEF Request, community, Reply
<1>2. CASE readConfig
  <2>1. ASSUME NEW n \in DOMAIN conf, isCommunity(n)
        PROVE  conf[n] \in FileNames \union {NoName}
    BY <2>1 DEF isCommunity, Lines
  <2> QED
    BY <1>2, <2>1 DEF readConfig
<1>3. CASE openFiles
  <2>1. value \in Names
    BY <1>3 DEF openFiles
  <2>2. tmp' = <<>> \/ tmp' = tmp
    BY <1>3 DEF openFiles
  <2>3. tmp' \in Seq(Lines)
    BY <2>2, EmptySeq
  <2>4. phase' \in {"copy", "idle"}
    BY <1>3 DEF openFiles, Reply
  <2>5. pos' \in Nat /\ result' \in {"none", "ok", "invalid", "failed"}
    BY <1>3 DEF openFiles, Reply, NoCopy
  <2>6. updated' \in BOOLEAN /\ failed' \in BOOLEAN
    BY <1>3 DEF openFiles, NoCopy
  <2>7. behind' \in BOOLEAN
    BY <1>3 DEF openFiles
  <2>8. UNCHANGED <<conf, value, daemon, job, missed>>
    BY <1>3 DEF openFiles
  <2> QED
    BY <2>1, <2>3, <2>4, <2>5, <2>6, <2>7, <2>8
<1>4. CASE copyLine
  <2>1. pos' \in 1 .. Len(conf)
    BY <1>4 DEF copyLine
  <2>2. conf[pos'] \in Lines
    BY <2>1, ElementOfSeq
  <2>3. tmp' \in Seq(Lines) /\ failed' \in BOOLEAN
    BY <1>4, <2>2, WriteType DEF copyLine
  <2>4. updated' \in BOOLEAN
    BY <1>4 DEF copyLine
  <2> QED
    BY <1>4, <2>1, <2>3, <2>4 DEF copyLine
<1>5. CASE closeFiles
  BY <1>5 DEF closeFiles
<1>6. CASE replace
  <2>1. (tmp' = <<>> \/ tmp' = tmp) /\ (conf' = tmp \/ conf' = conf)
    BY <1>6 DEF replace
  <2>2. tmp' \in Seq(Lines) /\ conf' \in Seq(Lines)
    BY <2>1, EmptySeq
  <2>3. behind' \in BOOLEAN /\ value \in Names
    <3>1. \/ behind' = failed \/ behind' = TRUE \/ behind' = (pos < Len(conf))
      BY <1>6 DEF replace
    <3>2. (pos < Len(conf)) \in BOOLEAN
      OBVIOUS
    <3>3. value \in Names
      BY <1>6 DEF replace
    <3> QED
      BY <3>1, <3>2, <3>3
  <2>4. /\ phase' \in {"idle", "reload"}
        /\ result' \in {"none", "ok", "invalid", "failed"}
    BY <1>6 DEF replace, Reply
  <2>5. pos' \in Nat /\ updated' \in BOOLEAN /\ failed' \in BOOLEAN
    BY <1>6 DEF replace, NoCopy
  <2>6. UNCHANGED <<value, daemon, job, missed>>
    BY <1>6 DEF replace
  <2> QED
    BY <2>2, <2>3, <2>4, <2>5, <2>6
<1>7. CASE reloadSnmpDaemon
  BY <1>7 DEF reloadSnmpDaemon, Reply
<1>8. CASE Crash
  BY <1>8 DEF Crash, NoCopy
<1>9. CASE Reload
  <2>1. daemon' \subseteq FileNames \union {NoName}
    BY <1>9, NamesOfType DEF Reload
  <2> QED
    BY <1>9, <2>1 DEF Reload
<1>10. CASE UNCHANGED vars
  BY <1>10 DEF vars
<1> QED
  BY <1>1, <1>2, <1>3, <1>4, <1>5, <1>6, <1>7, <1>8, <1>9, <1>10
     DEF Next, Server, writeConfig

\* Every variable keeps its type: what readConfig takes for a name is one, and
\* so is every line that writeConfig writes.
THEOREM TypeCorrect == Spec => []TypeOK
  BY TypeInit, TypeNext, PTL DEF Spec

-----------------------------------------------------------------------------
(* The lines that a file becomes.                                          *)

LEMMA NoneRewritten ==
    ASSUME NEW old, NEW v
    PROVE  Rewritten(old, 0, <<>>, Len(<<>>), v)
<1> DEFINE ends == [n \in 0 .. 0 |-> 0]
<1>1. ends \in [0 .. 0 -> 0 .. Len(<<>>)] /\ ends[0] = 0 /\ Len(<<>>) = 0
  OBVIOUS
<1>2. 1 .. 0 = {}
  OBVIOUS
<1> QED
  BY <1>1, <1>2 DEF Rewritten

\* What a concatenation has at its places.
LEMMA Joined ==
    ASSUME NEW a \in Seq(Lines), NEW b \in Seq(Lines)
    PROVE  /\ Len(a) \in Nat /\ Len(b) \in Nat
           /\ DOMAIN a = 1 .. Len(a) /\ DOMAIN b = 1 .. Len(b)
           /\ a \o b \in Seq(Lines)
           /\ Len(a \o b) = Len(a) + Len(b)
           /\ DOMAIN (a \o b) = 1 .. Len(a) + Len(b)
           /\ \A k \in 1 .. Len(a) : (a \o b)[k] = a[k]
           /\ \A k \in 1 .. Len(b) : (a \o b)[Len(a) + k] = b[k]
  BY ConcatProperties, LenProperties

\* Lines that follow do not matter to those before them.
LEMMA HoldsFurther ==
    ASSUME NEW a \in Seq(Lines), NEW b \in Seq(Lines), NEW start \in Nat,
           NEW lines \in Seq(Lines), Holds(a, start, lines)
    PROVE  Holds(a \o b, start, lines)
<1>1. Len(lines) \in Nat /\ DOMAIN lines = 1 .. Len(lines)
  BY LenProperties
<1>2. start + Len(lines) <= Len(a) + Len(b)
  BY <1>1, Joined DEF Holds
<1>3. ASSUME NEW k \in DOMAIN lines PROVE (a \o b)[start + k] = lines[k]
  <2>1. start + k \in 1 .. Len(a)
    BY <1>1, Joined DEF Holds
  <2> QED
    BY <2>1, Joined DEF Holds
<1> QED
  BY <1>2, <1>3, Joined DEF Holds

LEMMA HoldsNext ==
    ASSUME NEW a \in Seq(Lines), NEW b \in Seq(Lines)
    PROVE  Holds(a \o b, Len(a), b)
  BY Joined DEF Holds

LEMMA LinesForType ==
    ASSUME NEW line \in Lines, NEW v \in Names
    PROVE  LinesFor(line, v) \in Seq(Lines)
<1>1. <<line>> \in Seq(Lines) /\ Written[v] \in Seq(Lines)
  BY ConfAssumption
<1> QED
  BY <1>1 DEF LinesFor

LEMMA RewrittenKept ==
    ASSUME NEW old \in Seq(Lines), NEW count \in 0 .. Len(old),
           NEW a \in Seq(Lines), NEW b \in Seq(Lines), NEW v \in Names,
           Rewritten(old, count, a, Len(a), v)
    PROVE  Rewritten(old, count, a \o b, Len(a), v)
<1>0. Len(old) \in Nat /\ count \in Nat /\ \A n \in 1 .. count : old[n] \in Lines
  BY LenProperties, ElementOfSeq
<1>1. PICK ends \in [0 .. count -> 0 .. Len(a)] :
        /\ ends[0] = 0 /\ ends[count] = Len(a)
        /\ \A n \in 1 .. count :
              /\ ends[n] = ends[n - 1] + Len(LinesFor(old[n], v))
              /\ Holds(a, ends[n - 1], LinesFor(old[n], v))
  BY DEF Rewritten
<1>2. ASSUME NEW n \in 1 .. count
      PROVE  Holds(a \o b, ends[n - 1], LinesFor(old[n], v))
  <2>1. n - 1 \in 0 .. count
    BY <1>0
  <2>2. ends[n - 1] \in Nat
    BY <1>1, <2>1, Joined
  <2>3. LinesFor(old[n], v) \in Seq(Lines)
    BY <1>0, LinesForType
  <2> QED
    BY <1>1, <2>2, <2>3, HoldsFurther
<1> QED
  BY <1>1, <1>2 DEF Rewritten

\* The next line of the file, after the ones that are done.
LEMMA RewrittenNext ==
    ASSUME NEW old \in Seq(Lines), NEW count \in Nat, count < Len(old),
           NEW a \in Seq(Lines), NEW v \in Names, NEW b,
           b = LinesFor(old[count + 1], v), Rewritten(old, count, a, Len(a), v)
    PROVE  Rewritten(old, count + 1, a \o b, Len(a \o b), v)
<1>0. /\ Len(old) \in Nat /\ count \in 0 .. Len(old)
      /\ old[count + 1] \in Lines
  BY LenProperties, ElementOfSeq
<1>1. b \in Seq(Lines)
  BY <1>0, LinesForType
<1>2. Rewritten(old, count, a \o b, Len(a), v)
  BY <1>0, <1>1, RewrittenKept
<1>3. PICK ends \in [0 .. count -> 0 .. Len(a)] :
        /\ ends[0] = 0 /\ ends[count] = Len(a)
        /\ \A n \in 1 .. count :
              /\ ends[n] = ends[n - 1] + Len(LinesFor(old[n], v))
              /\ Holds(a \o b, ends[n - 1], LinesFor(old[n], v))
  BY <1>2 DEF Rewritten
<1>4. /\ Len(a) \in Nat /\ Len(b) \in Nat /\ Len(a \o b) = Len(a) + Len(b)
      /\ Holds(a \o b, Len(a), b)
  BY <1>1, Joined, HoldsNext
<1> DEFINE further == [n \in 0 .. count + 1 |->
                        IF n \in 0 .. count THEN ends[n] ELSE Len(a) + Len(b)]
<1>5. \A n \in 0 .. count : ends[n] \in 0 .. Len(a) + Len(b)
  BY <1>3, <1>4
<1>6. further \in [0 .. count + 1 -> 0 .. Len(a \o b)]
  BY <1>4, <1>5
<1>7. /\ \A n \in 0 .. count : further[n] = ends[n]
      /\ further[count + 1] = Len(a \o b)
      /\ further[0] = 0
  BY <1>3, <1>4
<1>8. ASSUME NEW n \in 1 .. count + 1
      PROVE  /\ further[n] = further[n - 1] + Len(LinesFor(old[n], v))
             /\ Holds(a \o b, further[n - 1], LinesFor(old[n], v))
  <2>1. CASE n \in 1 .. count
    <3>1. n - 1 \in 0 .. count /\ n \in 0 .. count
      BY <2>1
    <3> HIDE DEF further
    <3> QED
      BY <1>3, <1>7, <2>1, <3>1
  <2>2. CASE n = count + 1
    <3>1. n - 1 = count /\ count \in 0 .. count
      BY <2>2
    <3> HIDE DEF further
    <3> QED
      BY <1>3, <1>4, <1>7, <2>2, <3>1
  <2> QED
    BY <2>1, <2>2
<1> HIDE DEF further
<1> QED
  BY <1>6, <1>7, <1>8 DEF Rewritten

\* The next line, broken off.
LEMMA BreaksOff ==
    ASSUME NEW old \in Seq(Lines), NEW count \in Nat, count < Len(old),
           NEW a \in Seq(Lines), NEW v \in Names, NEW b \in Seq(Lines),
           b \in TornFor(old[count + 1], v), Rewritten(old, count, a, Len(a), v)
    PROVE  BrokenOff(old, count + 1, a \o b, v)
<1>1. /\ Len(old) \in Nat /\ count \in 0 .. Len(old)
      /\ count + 1 \in 1 .. count + 1 /\ (count + 1) - 1 = count
  BY LenProperties
<1>2. Rewritten(old, (count + 1) - 1, a \o b, Len(a), v)
  BY <1>1, RewrittenKept
<1>3. /\ Len(a) \in 0 .. Len(a \o b)
      /\ Len(a \o b) = Len(a) + Len(b)
      /\ Holds(a \o b, Len(a), b)
  BY Joined, HoldsNext
<1> QED
  BY <1>1, <1>2, <1>3 DEF BrokenOff

LEMMA StaysBroken ==
    ASSUME NEW old, NEW count \in Nat, NEW new, NEW v, BrokenOff(old, count, new, v)
    PROVE  BrokenOff(old, count + 1, new, v)
<1>1. \A n \in 1 .. count : n \in 1 .. count + 1
  OBVIOUS
<1> QED
  BY <1>1 DEF BrokenOff

\* The first name of two parts is the first name of one of them.
LEMMA FirstOfJoined ==
    ASSUME NEW a \in Seq(Lines), NEW b \in Seq(Lines)
    PROVE  FirstName(a \o b) \subseteq FirstName(a) \union FirstName(b)
<1> SUFFICES ASSUME NEW m \in DOMAIN (a \o b), (a \o b)[m] # Other,
                    \A k \in DOMAIN (a \o b) : k < m => (a \o b)[k] = Other
             PROVE  (a \o b)[m] \in FirstName(a) \union FirstName(b)
  BY DEF FirstName
<1>1. CASE m \in 1 .. Len(a)
  <2>1. \A k \in DOMAIN a : k \in DOMAIN (a \o b) /\ (a \o b)[k] = a[k]
    BY Joined
  <2>2. m \in DOMAIN a /\ a[m] # Other /\ \A k \in DOMAIN a : k < m => a[k] = Other
    BY <1>1, <2>1, Joined
  <2> QED
    BY <2>1, <2>2 DEF FirstName
<1>2. CASE m \notin 1 .. Len(a)
  <2>1. PICK n \in 1 .. Len(b) : m = Len(a) + n
    <3>1. m - Len(a) \in 1 .. Len(b) /\ m = Len(a) + (m - Len(a))
      BY <1>2, Joined
    <3> QED
      BY <3>1
  <2>2. \A k \in 1 .. Len(b) : /\ Len(a) + k \in DOMAIN (a \o b)
                               /\ (a \o b)[Len(a) + k] = b[k]
                               /\ k < n => Len(a) + k < m
    BY <2>1, Joined
  <2>3. n \in DOMAIN b /\ b[n] # Other /\ \A k \in DOMAIN b : k < n => b[k] = Other
    BY <2>1, <2>2, Joined
  <2> QED
    BY <2>1, <2>2, <2>3 DEF FirstName
<1> QED
  BY <1>1, <1>2

LEMMA FirstOfRewritten ==
    ASSUME NEW line \in Lines, NEW v \in Names
    PROVE  FirstName(LinesFor(line, v)) \subseteq {v} \union Stored(v)
<1>1. CASE Keeps(line, v)
  <2>1. LinesFor(line, v) = <<line>> /\ line \in {Other, v}
    BY <1>1 DEF LinesFor, Keeps
  <2>2. FirstName(<<line>>) \subseteq {line} \ {Other}
    BY DEF FirstName
  <2> QED
    BY <2>1, <2>2
<1>2. CASE ~Keeps(line, v)
  BY <1>2 DEF LinesFor, Stored
<1> QED
  BY <1>1, <1>2

-----------------------------------------------------------------------------
(* The copy that a request makes.                                          *)

CopyInv == TypeOK /\ Copied

LEMMA CopyLineNext == ASSUME CopyInv, copyLine PROVE Copied'
<1>1. /\ phase = "copy" /\ pos \in Nat /\ pos < Len(conf) /\ pos' = pos + 1
      /\ updated' = (updated \/ (conf[pos'] # Other /\ conf[pos'] # value))
      /\ write(conf[pos'])
      /\ phase' = phase /\ conf' = conf /\ value' = value
      /\ conf \in Seq(Lines) /\ tmp \in Seq(Lines) /\ value \in Names
  BY DEF copyLine, CopyInv, TypeOK
<1>2. /\ pos' <= Len(conf) /\ Len(conf) \in Nat
      /\ conf[pos'] \in Lines /\ pos' = pos + 1
  BY <1>1, LenProperties, ElementOfSeq
<1>3. /\ IF failed THEN BrokenOff(conf, pos, tmp, value)
                   ELSE /\ Rewritten(conf, pos, tmp, Len(tmp), value)
                        /\ FirstName(tmp) \subseteq {value} \union Stored(value)
      /\ ~updated => \A n \in 1 .. pos : conf[n] \in {Other, value}
  BY <1>1 DEF CopyInv, Copied
<1>4. ~updated' => \A n \in 1 .. pos' : conf'[n] \in {Other, value}
  <2>1. ~updated' => ~updated /\ conf[pos'] \in {Other, value}
    BY <1>1
  <2>2. \A n \in 1 .. pos' : n \in 1 .. pos \/ n = pos'
    BY <1>1
  <2> QED
    BY <1>1, <1>3, <2>1, <2>2
<1>5. CASE ~failed /\ tmp' = tmp \o rewrite(conf[pos']) /\ UNCHANGED failed
  <2>1. Rewritten(conf, pos', tmp', Len(tmp'), value)
    BY <1>1, <1>2, <1>3, <1>5, RewriteType, RewrittenNext
  <2>2. FirstName(tmp') \subseteq FirstName(tmp) \union FirstName(LinesFor(conf[pos'], value))
    BY <1>1, <1>2, <1>5, RewriteType, FirstOfJoined
  <2>3. FirstName(tmp') \subseteq {value} \union Stored(value)
    BY <1>1, <1>2, <1>3, <1>5, <2>2, FirstOfRewritten
  <2> QED
    BY <1>1, <1>2, <1>4, <1>5, <2>1, <2>3 DEF Copied
<1>6. CASE /\ ~failed /\ \E piece \in rewritePart(conf[pos']) : tmp' = tmp \o piece
           /\ failed' = TRUE
  <2>1. PICK piece \in Seq(Lines) : /\ piece \in TornFor(conf[pos'], value)
                                    /\ tmp' = tmp \o piece
    BY <1>1, <1>2, <1>6, RewriteType
  <2>2. BrokenOff(conf, pos', tmp', value)
    BY <1>1, <1>2, <1>3, <1>6, <2>1, BreaksOff
  <2> QED
    BY <1>1, <1>2, <1>4, <1>6, <2>2 DEF Copied
<1>7. CASE failed /\ UNCHANGED <<tmp, failed>>
  <2>1. BrokenOff(conf, pos', tmp', value)
    BY <1>1, <1>3, <1>7, StaysBroken
  <2> QED
    BY <1>1, <1>2, <1>4, <1>7, <2>1 DEF Copied
<1> QED
  BY <1>1, <1>5, <1>6, <1>7 DEF write

LEMMA CopyNext == CopyInv /\ [Next]_vars => Copied'
<1> SUFFICES ASSUME CopyInv, [Next]_vars PROVE Copied'
  OBVIOUS
<1>1. CASE Request
  BY <1>1 DEF Request, community, Reply, Copied
<1>2. CASE readConfig
  BY <1>2 DEF readConfig, Copied
<1>3. CASE openFiles
  <2>1. CASE phase' = "copy"
    <3>1. /\ tmp' = <<>> /\ pos' = 0 /\ ~failed' /\ ~updated'
          /\ conf \in Seq(Lines) /\ UNCHANGED <<conf, value>>
      BY <1>3, <2>1 DEF openFiles, Reply, NoCopy, CopyInv, TypeOK
    <3>2. Rewritten(conf', pos', tmp', Len(tmp'), value')
      BY <3>1, NoneRewritten
    <3>3. FirstName(tmp') = {}
      BY <3>1 DEF FirstName
    <3>4. 0 <= Len(conf) /\ 1 .. 0 = {}
      BY <3>1, LenProperties
    <3> QED
      BY <3>1, <3>2, <3>3, <3>4 DEF Copied
  <2>2. CASE phase' = "idle"
    BY <2>2 DEF Copied
  <2> QED
    BY <1>3, <2>1, <2>2 DEF openFiles, Reply
<1>4. CASE copyLine
  BY <1>4, CopyLineNext
<1>5. CASE closeFiles
  BY <1>5 DEF closeFiles, CopyInv, Copied
<1>6. CASE replace
  BY <1>6 DEF replace, Reply, Copied
<1>7. CASE reloadSnmpDaemon
  BY <1>7 DEF reloadSnmpDaemon, Reply, Copied
<1>8. CASE Crash
  BY <1>8 DEF Crash, Copied
<1>9. CASE Reload
  BY <1>9 DEF Reload, CopyInv, Copied
<1>10. CASE UNCHANGED vars
  BY <1>10 DEF vars, CopyInv, Copied
<1> QED
  BY <1>1, <1>2, <1>3, <1>4, <1>5, <1>6, <1>7, <1>8, <1>9, <1>10
     DEF Next, Server, writeConfig

LEMMA CopyInductive == Spec => []CopyInv
<1>1. Init => CopyInv
  BY TypeInit DEF Init, CopyInv, Copied
<1>2. CopyInv /\ [Next]_vars => CopyInv'
  BY TypeNext, CopyNext DEF CopyInv
<1> QED
  BY <1>1, <1>2, PTL DEF Spec

\* What the rename puts in place of the file is the copy.
LEMMA ReplaceStep ==
    ASSUME [Next]_vars, conf' # conf
    PROVE  phase = "close" /\ updated /\ conf' = tmp
<1>1. CASE Request
  BY <1>1 DEF Request, community
<1>2. CASE Server
  BY <1>2 DEF Server, writeConfig, readConfig, openFiles, copyLine, closeFiles,
              replace, reloadSnmpDaemon
<1>3. CASE Crash \/ Reload \/ UNCHANGED vars
  BY <1>3 DEF Crash, Reload, vars
<1> QED
  BY <1>1, <1>2, <1>3 DEF Next

\* snmpd.conf changes from one whole version to the next, whatever name is
\* written, whatever fails and whenever the server ends: what a former request
\* left in the temporary file never reaches it, and what a full disk breaks off
\* is the end.
THEOREM AlwaysReplacedWhole == Spec => ReplacedWhole
<1>1. CopyInv /\ [Next]_vars =>
        (conf' # conf =>
          IF failed THEN BrokenOff(conf, pos, conf', value)
                    ELSE Rewritten(conf, pos, conf', Len(conf'), value))
  BY ReplaceStep DEF CopyInv, Copied
<1> QED
  BY <1>1, CopyInductive, PTL DEF ReplacedWhole, Spec

-----------------------------------------------------------------------------
(* The property and the file.                                              *)

SettledInv == CopyInv /\ Settled /\ PropertyIsFile

LEMMA CommunityIsFirst == \A n \in DOMAIN conf : isCommunity(n) => conf[n] \in FirstName(conf)
  BY DEF isCommunity, FirstName

LEMMA SettledNext ==
    ASSUME SettledInv, [Next]_vars
    PROVE  Settled' /\ PropertyIsFile'
<1> USE DEF SettledInv, Settled, PropertyIsFile
<1>1. CASE Request
  BY <1>1 DEF Request, community, Reply, isCommunity
<1>2. CASE readConfig
  <2>1. phase' = "idle" /\ conf' = conf
    BY <1>2 DEF readConfig
  <2>2. CASE behind'
    BY <2>1, <2>2
  <2>3. CASE ~behind'
    <3>1. PICK n \in DOMAIN conf : isCommunity(n) /\ value' = conf[n]
      BY <1>2, <2>3 DEF readConfig
    <3>2. ASSUME NEW k \in DOMAIN conf, isCommunity(k) PROVE k = n
      <4>1. n \in Int /\ k \in Int
        BY LenProperties DEF CopyInv, TypeOK
      <4>2. ~(k < n) /\ ~(n < k)
        BY <3>1, <3>2 DEF isCommunity
      <4> QED
        BY <4>1, <4>2
    <3> QED
      BY <2>1, <3>1, <3>2 DEF isCommunity
  <2> QED
    BY <2>2, <2>3
<1>3. CASE openFiles
  BY <1>3 DEF openFiles, Reply, isCommunity
<1>4. CASE copyLine \/ closeFiles
  BY <1>4 DEF copyLine, closeFiles, isCommunity
<1>5. CASE replace
  <2>1. CASE phase' = "reload"
    <3>1. conf' = tmp /\ value' = value /\ behind' = failed
      BY <1>5, <2>1 DEF replace, Reply
    <3>2. ~failed => FirstName(tmp) \subseteq {value} \union Stored(value)
      BY <1>5 DEF replace, CopyInv, Copied
    <3> QED
      BY <2>1, <3>1, <3>2 DEF Stored
  <2>2. CASE phase' # "reload"
    <3>1. CASE behind'
      BY <2>2, <3>1
    <3>2. CASE ~behind'
      <4>0. behind' = (pos < Len(conf)) /\ ~updated /\ conf' = conf
        BY <1>5, <2>2, <3>2 DEF replace, Reply
      <4>1. ~updated /\ conf' = conf /\ value' = value /\ ~(pos < Len(conf))
        BY <1>5, <3>2, <4>0 DEF replace
      <4>2. /\ pos \in Nat /\ pos <= Len(conf) /\ phase = "close"
            /\ Len(conf) \in Nat /\ DOMAIN conf = 1 .. Len(conf)
        BY <1>5, LenProperties DEF replace, CopyInv, Copied, TypeOK
      <4>3. pos = Len(conf)
        <5>1. \A a, b \in Nat : a <= b /\ ~(a < b) => a = b
          OBVIOUS
        <5> QED
          BY <4>1, <4>2, <5>1
      <4>4. \A n \in DOMAIN conf : conf[n] \in {Other, value}
        <5>1. \A n \in 1 .. pos : conf[n] \in {Other, value}
          BY <4>1, <4>2 DEF CopyInv, Copied
        <5> QED
          BY <4>2, <4>3, <5>1
      <4> QED
        BY <2>2, <4>1, <4>4 DEF isCommunity
    <3> QED
      BY <3>1, <3>2
  <2> QED
    BY <2>1, <2>2
<1>6. CASE reloadSnmpDaemon
  <2>1. phase' = "idle" /\ conf' = conf /\ value' = value /\ behind' = behind
    BY <1>6 DEF reloadSnmpDaemon, Reply
  <2>2. ~behind => FirstName(conf) \subseteq {value} \union Stored(value)
    BY <1>6 DEF reloadSnmpDaemon
  <2>3. \A n \in DOMAIN conf' : isCommunity(n)' => conf'[n] \in FirstName(conf)
    BY <2>1, CommunityIsFirst DEF isCommunity
  <2> QED
    BY <2>1, <2>2, <2>3 DEF Stored
<1>7. CASE Crash
  BY <1>7 DEF Crash
<1>8. CASE Reload
  BY <1>8 DEF Reload, isCommunity
<1>9. CASE UNCHANGED vars
  BY <1>9 DEF vars, isCommunity
<1> QED
  BY <1>1, <1>2, <1>3, <1>4, <1>5, <1>6, <1>7, <1>8, <1>9
     DEF Next, Server, writeConfig

\* A restart never takes the property back, unless a file could not be opened,
\* read or written to its end, or replaced: with the file written and the
\* property set, both say the same, or the file what is read where that name
\* was written.
THEOREM PropertyStaysFile == Spec => []PropertyIsFile
<1>1. Init => SettledInv
  BY TypeInit DEF Init, SettledInv, CopyInv, Copied, Settled, PropertyIsFile
<1>2. SettledInv /\ [Next]_vars => SettledInv'
  BY TypeNext, CopyNext, SettledNext DEF SettledInv, CopyInv
<1>3. SettledInv => PropertyIsFile
  BY DEF SettledInv
<1> QED
  BY <1>1, <1>2, <1>3, PTL DEF Spec

-----------------------------------------------------------------------------
(* The daemon and the file.                                                *)

Owed == phase = "reload" \/ job \/ missed \/ daemon = NamesOf(conf)

\* Every replacement of the file is followed by a reload, in any order of
\* requests, failures and restarts, unless the server ended just before it
\* could ask for one or the call was not sent: otherwise the daemon accepts the
\* names of the file and no other.
THEOREM DaemonStaysFile == Spec => []DaemonIsFile
<1>1. Init => Owed
  BY DEF Init, Owed
<1>2. Owed /\ [Next]_vars => Owed'
  <2> SUFFICES ASSUME Owed, [Next]_vars PROVE Owed'
    OBVIOUS
  <2>1. CASE replace
    BY <2>1 DEF replace, Reply, Owed, NamesOf
  <2>2. CASE reloadSnmpDaemon
    BY <2>2 DEF reloadSnmpDaemon, Owed
  <2>3. CASE Reload
    BY <2>3 DEF Reload, Owed, NamesOf
  <2>4. CASE Request \/ readConfig \/ openFiles
    <3>1. phase # "reload" /\ UNCHANGED <<conf, daemon, job, missed>>
      BY <2>4 DEF Request, community, readConfig, openFiles
    <3> QED
      BY <3>1 DEF Owed, NamesOf
  <2>5. CASE copyLine \/ closeFiles \/ UNCHANGED vars
    <3>1. /\ phase # "reload" \/ phase' = phase
          /\ UNCHANGED <<conf, daemon, job, missed>>
      BY <2>5 DEF copyLine, closeFiles, vars
    <3> QED
      BY <3>1 DEF Owed, NamesOf
  <2>6. CASE Crash
    <3>1. /\ phase = "reload" \/ missed => missed'
          /\ UNCHANGED <<conf, daemon, job>>
      BY <2>6 DEF Crash
    <3> QED
      BY <3>1 DEF Owed, NamesOf
  <2> QED
    BY <2>1, <2>2, <2>3, <2>4, <2>5, <2>6 DEF Next, Server, writeConfig
<1>3. Owed => DaemonIsFile
  BY DEF Owed, DaemonIsFile
<1> QED
  BY <1>1, <1>2, <1>3, PTL DEF Spec

-----------------------------------------------------------------------------
(* The manager implements Configuration.                                   *)

\* What the refinement needs besides the copy: a server that is down has no
\* name, a stream fails on a full disk only, an update has its line and the
\* lines that were not copied could not be read.
Reasons ==
    /\ phase = "down" => value = NoName
    /\ failed => "full" \in Faults
    /\ phase = "close" => pos = Len(conf) \/ "read" \in Faults
    /\ phase \in {"copy", "close"} /\ updated =>
          \E n \in DOMAIN conf : conf[n] \notin {Other, value}
ConfigInv == CopyInv /\ Reasons

LEMMA ReasonsNext == ConfigInv /\ [Next]_vars => Reasons'
<1> SUFFICES ASSUME ConfigInv, [Next]_vars PROVE Reasons'
  OBVIOUS
<1> USE DEF ConfigInv, Reasons
<1>1. CASE Request
  BY <1>1 DEF Request, community, Reply
<1>2. CASE readConfig
  BY <1>2 DEF readConfig
<1>3. CASE openFiles
  BY <1>3 DEF openFiles, Reply, NoCopy
<1>4. CASE copyLine
  <2>1. /\ phase = "copy" /\ phase' = "copy" /\ conf' = conf /\ value' = value
        /\ pos' = pos + 1 /\ pos < Len(conf)
        /\ updated' = (updated \/ (conf[pos'] # Other /\ conf[pos'] # value))
        /\ failed' => failed \/ "full" \in Faults
    BY <1>4 DEF copyLine, write
  <2>2. pos' \in DOMAIN conf
    <3>1. pos \in Nat /\ conf \in Seq(Lines)
      BY DEF CopyInv, TypeOK
    <3>2. DOMAIN conf = 1 .. Len(conf) /\ Len(conf) \in Nat
      BY <3>1, LenProperties
    <3> QED
      BY <2>1, <3>1, <3>2
  <2>3. updated' => \E n \in DOMAIN conf : conf[n] \notin {Other, value}
    BY <2>1, <2>2
  <2>4. failed' => "full" \in Faults
    BY <2>1
  <2> QED
    BY <2>1, <2>3, <2>4
<1>5. CASE closeFiles
  BY <1>5 DEF closeFiles
<1>6. CASE replace
  BY <1>6 DEF replace, Reply, NoCopy
<1>7. CASE reloadSnmpDaemon
  BY <1>7 DEF reloadSnmpDaemon, Reply
<1>8. CASE Crash
  BY <1>8 DEF Crash, NoCopy
<1>9. CASE Reload
  BY <1>9 DEF Reload
<1>10. CASE UNCHANGED vars
  BY <1>10 DEF vars
<1> QED
  BY <1>1, <1>2, <1>3, <1>4, <1>5, <1>6, <1>7, <1>8, <1>9, <1>10
     DEF Next, Server, writeConfig

LEMMA ConfigInductive == Spec => []ConfigInv
<1>1. Init => ConfigInv
  BY TypeInit DEF Init, CopyInv, Copied, ConfigInv, Reasons
<1>2. ConfigInv /\ [Next]_vars => ConfigInv'
  BY TypeNext, CopyNext, ReasonsNext DEF ConfigInv, CopyInv
<1> QED
  BY <1>1, <1>2, PTL DEF Spec

\* The mapped state, which most steps of a request leave alone.
mapped == <<conf, value, daemon, job, phase = "reload", missed>>

\* The rename is the one step in which a request shows.
LEMMA SameRewritten ==
    \A old, count, new, len, v :
        /\ Rewritten(old, count, new, len, v) <=> Config!Rewritten(old, count, new, len, v)
        /\ BrokenOff(old, count, new, v) <=> Config!BrokenOff(old, count, new, v)
  BY DEF Rewritten, BrokenOff, Holds, LinesFor, TornFor, Keeps, Other,
         Config!Rewritten, Config!BrokenOff, Config!Holds, Config!LinesFor,
         Config!TornFor, Config!Keeps, Config!Other

LEMMA ReplaceIsConfig == ASSUME ConfigInv, replace PROVE [Config!Next]_mapped
<1>1. /\ phase = "close" /\ UNCHANGED <<value, daemon, job, missed>>
  BY DEF replace
<1>2. CASE phase' = "idle"
  <2>1. conf' = conf
    BY <1>2 DEF replace
  <2> QED
    BY <1>1, <1>2, <2>1 DEF mapped
<1>3. CASE phase' = "reload"
  <2>1. updated /\ conf' = tmp
    BY <1>3 DEF replace, Reply
  <2>2. \E n \in DOMAIN conf : ~Config!Keeps(conf[n], value)
    BY <1>1, <2>1 DEF ConfigInv, Reasons, Config!Keeps, Config!Other, Other
  <2>3. conf' \in Seq(Config!Lines)
    BY <2>1 DEF ConfigInv, CopyInv, TypeOK, Lines, Config!Lines, NoName, Other,
                Config!NoName, Config!Other
  <2>4. pos \in 0 .. Len(conf)
    <3>1. pos \in Nat /\ Len(conf) \in Nat
      BY LenProperties DEF ConfigInv, CopyInv, TypeOK
    <3>2. pos <= Len(conf)
      BY <1>1 DEF ConfigInv, CopyInv, Copied
    <3> QED
      BY <3>1, <3>2
  <2>5. \/ Config!Rewritten(conf, pos, conf', Len(conf'), value)
        \/ "full" \in Faults /\ Config!BrokenOff(conf, pos, conf', value)
    BY <1>1, <2>1, SameRewritten DEF ConfigInv, CopyInv, Copied, Reasons
  <2>6. pos = Len(conf) \/ "read" \in Faults
    BY <1>1 DEF ConfigInv, Reasons
  <2>7. Config!Replace
    BY <1>1, <1>3, <2>2, <2>3, <2>4, <2>5, <2>6 DEF Config!Replace
  <2> QED
    BY <2>7 DEF Config!Next
<1> QED
  BY <1>2, <1>3 DEF replace, Reply

LEMMA ConfigNext == ConfigInv /\ [Next]_vars => [Config!Next]_mapped
<1> SUFFICES ASSUME ConfigInv, [Next]_vars PROVE [Config!Next]_mapped
  OBVIOUS
<1>1. ASSUME NEW name \in Names \union BadNames, community(name)
      PROVE  [Config!Next]_mapped
  <2>1. /\ phase = "idle" /\ phase' # "reload"
        /\ UNCHANGED <<conf, daemon, job, missed>>
    BY <1>1 DEF community, Reply
  <2>2. CASE name \in BadNames
    BY <1>1, <2>1, <2>2 DEF community, mapped
  <2>3. CASE name \notin BadNames
    <3>1. name \in Names /\ Config!Set(name)
      BY <1>1, <2>1, <2>3 DEF community, Config!Set
    <3> QED
      BY <3>1 DEF Config!Next
  <2> QED
    BY <2>2, <2>3
<1>2. CASE readConfig
  <2>1. /\ phase = "down" /\ phase' = "idle" /\ value = NoName
        /\ UNCHANGED <<conf, daemon, job, missed>>
    BY <1>2 DEF readConfig, ConfigInv, Reasons
  <2>2. CASE \E n \in DOMAIN conf : isCommunity(n) /\ value' = conf[n]
    <3>1. Config!Start
      BY <2>1, <2>2
       DEF Config!Start, isCommunity, NoName, Other, Config!NoName, Config!Other
    <3> QED
      BY <3>1 DEF Config!Next
  <2>3. CASE value' = NoName
    BY <2>1, <2>3 DEF mapped
  <2> QED
    BY <1>2, <2>2, <2>3 DEF readConfig
<1>3. CASE openFiles \/ copyLine \/ closeFiles
  BY <1>3 DEF openFiles, copyLine, closeFiles, Reply, mapped
<1>4. CASE replace
  BY <1>4, ReplaceIsConfig
<1>5. CASE reloadSnmpDaemon
  <2>1. Config!Ask \/ Config!Fail
    BY <1>5 DEF reloadSnmpDaemon, Reply, Config!Ask, Config!Fail
  <2> QED
    BY <2>1 DEF Config!Next
<1>6. CASE Crash
  <2>1. Config!Stop
    BY <1>6 DEF Crash, Config!Stop, NoName, Config!NoName
  <2> QED
    BY <2>1 DEF Config!Next
<1>7. CASE Reload
  <2>1. Config!Reload
    BY <1>7 DEF Reload, Config!Reload, NamesOf, Other, Config!NamesOf, Config!Other
  <2> QED
    BY <2>1 DEF Config!Next
<1>8. CASE UNCHANGED vars
  BY <1>8 DEF vars, mapped
<1> QED
  BY <1>1, <1>2, <1>3, <1>4, <1>5, <1>6, <1>7, <1>8
     DEF Next, Request, Server, writeConfig

\* For files of any length, any names, any faults and any end of the server: a
\* request is one replacement of snmpd.conf by what its lines become, or by the
\* beginning that could be read or written, made only if a line has another
\* name, and one reload owed for it; or it is nothing (writeConfig,
\* reloadSnmpDaemon).
THEOREM ImplementsConfiguration == Spec => ConfigSpec
<1>1. Init => Config!Init
  <2>1. Init => conf \in Seq(Lines)
    BY TypeInit DEF TypeOK
  <2> QED
    BY <2>1
       DEF Init, Config!Init, NamesOf, Lines, NoName, Other, Config!NamesOf,
           Config!Lines, Config!NoName, Config!Other
<1>2. ConfigInv /\ [Next]_vars => [Config!Next]_mapped
  BY ConfigNext
<1> QED
  BY <1>1, <1>2, ConfigInductive, PTL
     DEF Spec, ConfigSpec, Config!Spec, Config!vars, mapped

=============================================================================
