-------------------------- MODULE TableItems_proofs --------------------------
(***************************************************************************)
(* Proofs about the rows of a table and the walk through them, for any set *)
(* of names and any order of the index identifiers.                        *)
(***************************************************************************)
EXTENDS TableItems, SequenceTheorems, WellFoundedInduction, TLAPS

-----------------------------------------------------------------------------
(* Insertion and removal, element by element.                              *)

LEMMA InsertAtProperties ==
    ASSUME NEW S, NEW s \in Seq(S), NEW it \in 1 .. Len(s) + 1, NEW e \in S
    PROVE  /\ InsertAt(s, it, e) \in Seq(S)
           /\ Len(InsertAt(s, it, e)) = Len(s) + 1
           /\ \A i \in 1 .. Len(s) + 1 : InsertAt(s, it, e)[i] =
                 IF i < it THEN s[i] ELSE IF i = it THEN e ELSE s[i - 1]
<1> DEFINE before == SubSeq(s, 1, it - 1)
           after == SubSeq(s, it, Len(s))
           upTo == before \o <<e>>
<1>1. Len(s) \in Nat /\ \A i \in 1 .. Len(s) : s[i] \in S
  BY LenProperties, ElementOfSeq
<1>2. /\ before \in Seq(S)
      /\ Len(before) = it - 1
      /\ \A i \in 1 .. it - 1 : before[i] = s[i]
  <2>1. it - 1 \in Int /\ 1 \in Int /\ \A i \in 1 .. it - 1 : s[i] \in S
    BY <1>1
  <2> QED
    BY <2>1, SubSeqProperties
<1>3. /\ after \in Seq(S)
      /\ Len(after) = Len(s) - it + 1
      /\ \A i \in 1 .. Len(s) - it + 1 : after[i] = s[it + i - 1]
  <2>1. it \in Int /\ Len(s) \in Int /\ \A i \in it .. Len(s) : s[i] \in S
    BY <1>1
  <2> QED
    BY <2>1, <1>1, SubSeqProperties
<1>4. <<e>> \in Seq(S) /\ Len(<<e>>) = 1 /\ <<e>>[1] = e
  OBVIOUS
<1> HIDE DEF before, after
<1>5. /\ upTo \in Seq(S)
      /\ Len(upTo) = it
      /\ \A i \in 1 .. it : upTo[i] = IF i < it THEN s[i] ELSE e
  <2>1. /\ upTo \in Seq(S) /\ Len(upTo) = Len(before) + 1
        /\ \A i \in 1 .. Len(before) + 1 :
              upTo[i] = IF i <= Len(before) THEN before[i]
                        ELSE <<e>>[i - Len(before)]
    BY <1>2, <1>4, ConcatProperties
  <2>2. Len(before) + 1 = it
    BY <1>1, <1>2
  <2>3. \A i \in 1 .. it : upTo[i] = IF i < it THEN s[i] ELSE e
    <3> TAKE i \in 1 .. it
    <3>1. CASE i < it
      BY <3>1, <2>1, <2>2, <1>1, <1>2
    <3>2. CASE i = it
      <4> DEFINE k == i - Len(before)
      <4>1. k = 1 /\ ~(i <= Len(before)) /\ ~(i < it)
        BY <3>2, <1>1, <1>2
      <4> HIDE DEF k
      <4>2. upTo[i] = <<e>>[k]
        BY <4>1, <2>1, <2>2 DEF k
      <4> QED
        BY <4>1, <4>2, <1>4
    <3>3. i < it \/ i = it
      BY <1>1
    <3> QED
      BY <3>1, <3>2, <3>3, Zenon
  <2> QED
    BY <2>1, <2>2, <2>3
<1> HIDE DEF upTo
<1>6. /\ upTo \o after \in Seq(S)
      /\ Len(upTo \o after) = it + (Len(s) - it + 1)
      /\ \A i \in 1 .. it + (Len(s) - it + 1) :
            (upTo \o after)[i] = IF i <= it THEN upTo[i] ELSE after[i - it]
  BY <1>3, <1>5, ConcatProperties
<1>7. InsertAt(s, it, e) = upTo \o after
  BY DEF InsertAt, upTo, before, after
<1> QED
  BY <1>1, <1>3, <1>5, <1>6, <1>7

LEMMA RemoveAtProperties ==
    ASSUME NEW S, NEW s \in Seq(S), NEW it \in 1 .. Len(s)
    PROVE  /\ RemoveAt(s, it) \in Seq(S)
           /\ Len(RemoveAt(s, it)) = Len(s) - 1
           /\ \A i \in 1 .. Len(s) - 1 : RemoveAt(s, it)[i] =
                 IF i < it THEN s[i] ELSE s[i + 1]
<1> DEFINE before == SubSeq(s, 1, it - 1)
           after == SubSeq(s, it + 1, Len(s))
<1>1. Len(s) \in Nat /\ \A i \in 1 .. Len(s) : s[i] \in S
  BY LenProperties, ElementOfSeq
<1>2. /\ before \in Seq(S)
      /\ Len(before) = it - 1
      /\ \A i \in 1 .. it - 1 : before[i] = s[i]
  <2>1. it - 1 \in Int /\ 1 \in Int /\ \A i \in 1 .. it - 1 : s[i] \in S
    BY <1>1
  <2> QED
    BY <2>1, SubSeqProperties
<1>3. /\ after \in Seq(S)
      /\ Len(after) = Len(s) - it
      /\ \A i \in 1 .. Len(s) - it : after[i] = s[it + i]
  <2>1. it + 1 \in Int /\ Len(s) \in Int /\ \A i \in it + 1 .. Len(s) : s[i] \in S
    BY <1>1
  <2>2. /\ after \in Seq(S)
        /\ Len(after) = IF it + 1 <= Len(s) THEN Len(s) - (it + 1) + 1 ELSE 0
        /\ \A i \in 1 .. Len(s) - (it + 1) + 1 : after[i] = s[it + 1 + i - 1]
    BY <2>1, SubSeqProperties
  <2> QED
    BY <2>2, <1>1
<1> HIDE DEF before, after
<1>4. /\ before \o after \in Seq(S)
      /\ Len(before \o after) = Len(before) + Len(after)
      /\ \A i \in 1 .. Len(before) + Len(after) : (before \o after)[i] =
            IF i <= Len(before) THEN before[i] ELSE after[i - Len(before)]
  BY <1>2, <1>3, ConcatProperties
<1>5. RemoveAt(s, it) = before \o after
  BY DEF RemoveAt, before, after
<1>6. Len(before) + Len(after) = Len(s) - 1
  BY <1>1, <1>2, <1>3
<1> HIDE DEF before, after
<1>7. ASSUME NEW i \in 1 .. Len(s) - 1
      PROVE  (before \o after)[i] = IF i < it THEN s[i] ELSE s[i + 1]
  <2>1. (before \o after)[i] =
            IF i <= Len(before) THEN before[i] ELSE after[i - Len(before)]
    BY <1>4, <1>6
  <2>2. CASE i < it
    BY <2>1, <2>2, <1>1, <1>2
  <2>3. CASE it <= i
    <3> DEFINE k == i - Len(before)
    <3>1. /\ ~(i <= Len(before)) /\ ~(i < it) /\ k \in 1 .. Len(s) - it
          /\ it + k = i + 1
      BY <2>3, <1>1, <1>2
    <3> HIDE DEF k
    <3>2. (before \o after)[i] = after[k]
      BY <2>1, <3>1 DEF k
    <3>3. after[k] = s[it + k]
      BY <3>1, <1>3
    <3>4. s[it + k] = s[i + 1]
      BY <3>1
    <3> QED
      BY <3>1, <3>2, <3>3, <3>4
  <2>4. i < it \/ it <= i
    BY <1>1
  <2> QED
    BY <2>2, <2>3, <2>4, Zenon
<1> QED
  BY <1>4, <1>5, <1>6, <1>7

-----------------------------------------------------------------------------
(* What the calls make of the vector.                                      *)

\* getItem keeps the order and adds the name to the rows, and runs the hook
\* if the name had no row.
LEMMA GetItem ==
    ASSUME TypeOK, Sorted, NEW name \in Names, getItem(name)
    PROVE  /\ items' \in Seq(Names) /\ Sorted'
           /\ data_points' = data_points \union {name}
           /\ Called("getItem", name, name \notin data_points)
<1>1. PICK it \in Iterators :
        /\ lower_bound(it, name)
        /\ IF Found(it, name)
           THEN UNCHANGED items /\ Called("getItem", name, FALSE)
           ELSE items' = InsertAt(items, it, name) /\ Called("getItem", name, TRUE)
  BY DEF getItem
<1>2. /\ items \in Seq(Names) /\ Len(items) \in Nat
      /\ \A i \in 1 .. Len(items) : items[i] \in Names /\ items[i] \in Nat
  BY ItemsAssumption, LenProperties, ElementOfSeq DEF TypeOK
<1>3. name \in Nat
  BY ItemsAssumption
<1>4. CASE Found(it, name)
  <2>1. items' = items /\ Called("getItem", name, FALSE)
    BY <1>1, <1>4
  <2>2. name \in data_points
    BY <1>2, <1>4 DEF Found, data_points, Iterators
  <2>3. (name \notin data_points) = FALSE
    BY <2>2
  <2> QED
    BY <1>2, <2>1, <2>2, <2>3 DEF Sorted, data_points
<1>5. CASE ~Found(it, name)
  <2>1. items' = InsertAt(items, it, name) /\ Called("getItem", name, TRUE)
    BY <1>1, <1>5
  <2>2. it \in 1 .. Len(items) + 1
    BY DEF Iterators
  <2>3. /\ items' \in Seq(Names)
        /\ Len(items') = Len(items) + 1
        /\ \A i \in 1 .. Len(items) + 1 : items'[i] =
              IF i < it THEN items[i] ELSE IF i = it THEN name ELSE items[i - 1]
    <3> DEFINE new == InsertAt(items, it, name)
    <3>1. /\ new \in Seq(Names)
          /\ Len(new) = Len(items) + 1
          /\ \A i \in 1 .. Len(items) + 1 : new[i] =
                IF i < it THEN items[i] ELSE IF i = it THEN name ELSE items[i - 1]
      BY <1>2, <2>2, InsertAtProperties
    <3> HIDE DEF new
    <3>2. items' = new
      BY <2>1 DEF new
    <3>3. Len(items') = Len(new)
      BY <3>2
    <3> QED
      BY <3>1, <3>2, <3>3
  <2>4. /\ \A i \in 1 .. it - 1 : items[i] < name
        /\ \A i \in it .. Len(items) : name < items[i]
    <3>1. \A i \in it .. Len(items) : name <= items[i]
      BY <1>1, <1>2, <1>3, <2>2 DEF lower_bound
    <3>2. it <= Len(items) => name # items[it]
      BY <1>5 DEF Found
    <3>3. \A i \in it + 1 .. Len(items) : items[it] < items[i]
      BY <1>2, <2>2 DEF Sorted
    <3>4. \A i \in it .. Len(items) : name < items[i]
      <4> TAKE i \in it .. Len(items)
      <4>1. i \in 1 .. Len(items) /\ it \in 1 .. Len(items) /\ it <= Len(items)
        BY <1>2, <2>2
      <4>2. name < items[it]
        BY <1>2, <1>3, <3>1, <3>2, <4>1
      <4>3. i = it \/ items[it] < items[i]
        BY <3>3, <4>1
      <4> QED
        BY <1>2, <1>3, <4>1, <4>2, <4>3
    <3> QED
      BY <1>1, <3>4 DEF lower_bound
  <2>5. Sorted'
    <3> SUFFICES ASSUME NEW i \in 1 .. Len(items'), NEW j \in 1 .. Len(items'), i < j
                 PROVE  items'[i] < items'[j]
      BY DEF Sorted
    <3>1. i \in 1 .. Len(items) + 1 /\ j \in 1 .. Len(items) + 1 /\ it \in Nat
      <4>1. Len(items') = Len(items) + 1
        BY <2>3
      <4> QED
        BY <1>2, <2>2, <4>1
    <3>2. CASE j < it
      <4>1. items'[j] = items[j] /\ items'[i] = items[i]
        BY <2>3, <3>1, <3>2
      <4>2. i \in 1 .. Len(items) /\ j \in 1 .. Len(items)
        BY <1>2, <2>2, <3>1, <3>2
      <4> QED
        BY <4>1, <4>2 DEF Sorted
    <3>3. CASE j = it
      <4>1. items'[j] = name /\ items'[i] = items[i] /\ i \in 1 .. it - 1
        BY <2>3, <3>1, <3>3
      <4> QED
        BY <2>4, <4>1
    <3>4. CASE it < j /\ i < it
      <4>1. items'[j] = items[j - 1] /\ items'[i] = items[i]
        BY <2>3, <3>1, <3>4
      <4>2. i \in 1 .. it - 1 /\ j - 1 \in it .. Len(items)
        BY <1>2, <3>1, <3>4
      <4>3. items[i] < name /\ name < items[j - 1]
        BY <2>4, <4>2
      <4>4. items[i] \in Nat /\ items[j - 1] \in Nat
        BY <1>2, <2>2, <4>2
      <4> QED
        BY <1>3, <4>1, <4>3, <4>4
    <3>5. CASE it < j /\ i = it
      <4>1. items'[j] = items[j - 1] /\ items'[i] = name
        BY <2>3, <3>1, <3>5
      <4>2. j - 1 \in it .. Len(items)
        BY <1>2, <3>1, <3>5
      <4> QED
        BY <2>4, <4>1, <4>2
    <3>6. CASE it < i
      <4>1. items'[j] = items[j - 1] /\ items'[i] = items[i - 1]
        BY <2>3, <3>1, <3>6
      <4>2. i - 1 \in 1 .. Len(items) /\ j - 1 \in 1 .. Len(items) /\ i - 1 < j - 1
        BY <1>2, <2>2, <3>1, <3>6
      <4> QED
        BY <4>1, <4>2 DEF Sorted
    <3> QED
      BY <3>1, <3>2, <3>3, <3>4, <3>5, <3>6
  <2>6. name \notin data_points
    <3> SUFFICES ASSUME NEW i \in 1 .. Len(items) PROVE items[i] # name
      BY DEF data_points
    <3>1. i \in 1 .. it - 1 \/ i \in it .. Len(items)
      BY <1>2, <2>2
    <3> QED
      BY <1>2, <1>3, <2>4, <3>1
  <2>7. data_points' = data_points \union {name}
    <3>1. ASSUME NEW i \in 1 .. Len(items') PROVE items'[i] \in data_points \union {name}
      <4>1. i \in 1 .. Len(items) + 1
        BY <2>3, <3>1
      <4>2. CASE i < it
        BY <1>2, <2>2, <2>3, <4>1, <4>2 DEF data_points
      <4>3. CASE i = it
        BY <2>3, <4>1, <4>3
      <4>4. CASE it < i
        <5>1. items'[i] = items[i - 1] /\ i - 1 \in 1 .. Len(items)
          BY <1>2, <2>2, <2>3, <4>1, <4>4
        <5> QED
          BY <5>1 DEF data_points
      <4> QED
        BY <1>2, <2>2, <4>1, <4>2, <4>3, <4>4
    <3>2. name \in data_points'
      <4>1. it \in 1 .. Len(items') /\ items'[it] = name
        BY <2>2, <2>3
      <4> QED
        BY <4>1 DEF data_points
    <3>3. ASSUME NEW i \in 1 .. Len(items) PROVE items[i] \in data_points'
      <4>1. CASE i < it
        <5>1. i \in 1 .. Len(items') /\ items'[i] = items[i]
          BY <1>2, <2>3, <4>1
        <5> QED
          BY <5>1 DEF data_points
      <4>2. CASE it <= i
        <5>1. /\ i + 1 \in 1 .. Len(items') /\ i + 1 \in 1 .. Len(items) + 1
              /\ ~(i + 1 < it) /\ i + 1 # it /\ (i + 1) - 1 = i
          BY <1>2, <2>2, <2>3, <4>2
        <5>2. items'[i + 1] = items[i]
          BY <2>3, <5>1
        <5> QED
          BY <5>1, <5>2 DEF data_points
      <4>3. i < it \/ it <= i
        BY <1>2, <2>2
      <4> QED
        BY <4>1, <4>2, <4>3, Zenon
    <3>4. data_points' \subseteq data_points \union {name}
      BY <3>1 DEF data_points
    <3>5. data_points \subseteq data_points'
      BY <3>3 DEF data_points
    <3> QED
      BY <3>2, <3>4, <3>5
  <2>8. (name \notin data_points) = TRUE
    BY <2>6
  <2> QED
    BY <2>1, <2>3, <2>5, <2>7, <2>8
<1> QED
  BY <1>4, <1>5

\* dropItem keeps the order and takes the name from the rows, and runs the
\* hook if the name had a row.
LEMMA DropItem ==
    ASSUME TypeOK, Sorted, NEW name \in Names, dropItem(name)
    PROVE  /\ items' \in Seq(Names) /\ Sorted'
           /\ data_points' = data_points \ {name}
           /\ Called("dropItem", name, name \in data_points)
<1>1. PICK it \in Iterators :
        /\ lower_bound(it, name)
        /\ IF Found(it, name)
           THEN items' = RemoveAt(items, it) /\ Called("dropItem", name, TRUE)
           ELSE UNCHANGED items /\ Called("dropItem", name, FALSE)
  BY DEF dropItem
<1>2. /\ items \in Seq(Names) /\ Len(items) \in Nat
      /\ \A i \in 1 .. Len(items) : items[i] \in Names /\ items[i] \in Nat
  BY ItemsAssumption, LenProperties, ElementOfSeq DEF TypeOK
<1>3. name \in Nat
  BY ItemsAssumption
<1>4. CASE ~Found(it, name)
  <2>1. items' = items /\ Called("dropItem", name, FALSE)
    BY <1>1, <1>4
  <2>2. name \notin data_points
    <3> SUFFICES ASSUME NEW i \in 1 .. Len(items), items[i] = name PROVE FALSE
      BY DEF data_points
    <3>1. it \in 1 .. Len(items) + 1
      BY DEF Iterators
    <3>2. it <= i
      BY <1>1, <1>2, <1>3, <3>1 DEF lower_bound
    <3>3. it \in 1 .. Len(items) /\ items[it] \in Nat /\ items[it] # name
      BY <1>2, <1>4, <3>1, <3>2 DEF Found
    <3>4. ~(items[it] < name)
      BY <1>1, <1>2, <3>3 DEF lower_bound
    <3>5. it = i \/ items[it] < items[i]
      BY <1>2, <3>2, <3>3 DEF Sorted
    <3> QED
      BY <1>2, <1>3, <3>3, <3>4, <3>5
  <2>3. (name \in data_points) = FALSE
    BY <2>2
  <2> QED
    BY <1>2, <2>1, <2>2, <2>3 DEF Sorted, data_points
<1>5. CASE Found(it, name)
  <2>1. items' = RemoveAt(items, it) /\ Called("dropItem", name, TRUE)
    BY <1>1, <1>5
  <2>2. it \in 1 .. Len(items) /\ items[it] = name
    BY <1>2, <1>5 DEF Iterators, Found
  <2>3. /\ items' \in Seq(Names)
        /\ Len(items') = Len(items) - 1
        /\ \A i \in 1 .. Len(items) - 1 : items'[i] =
              IF i < it THEN items[i] ELSE items[i + 1]
    <3> DEFINE new == RemoveAt(items, it)
    <3>1. /\ new \in Seq(Names)
          /\ Len(new) = Len(items) - 1
          /\ \A i \in 1 .. Len(items) - 1 : new[i] =
                IF i < it THEN items[i] ELSE items[i + 1]
      BY <1>2, <2>2, RemoveAtProperties
    <3> HIDE DEF new
    <3>2. items' = new
      BY <2>1 DEF new
    <3>3. Len(items') = Len(new)
      BY <3>2
    <3> QED
      BY <3>1, <3>2, <3>3
  <2>4. \A i \in 1 .. Len(items) - 1 : \E k \in 1 .. Len(items) :
           items'[i] = items[k] /\ k # it /\ (k = i \/ k = i + 1)
                                /\ (k = i <=> i < it)
    <3> TAKE i \in 1 .. Len(items) - 1
    <3>1. CASE i < it
      <4>1. i \in 1 .. Len(items) /\ i # it /\ items'[i] = items[i]
        BY <1>2, <2>2, <2>3, <3>1
      <4> QED
        BY <3>1, <4>1
    <3>2. CASE it <= i
      <4>1. /\ i + 1 \in 1 .. Len(items) /\ i + 1 # it /\ ~(i < it) /\ i + 1 # i
            /\ items'[i] = items[i + 1]
        BY <1>2, <2>2, <2>3, <3>2
      <4> QED
        BY <4>1
    <3>3. i < it \/ it <= i
      BY <2>2
    <3> QED
      BY <3>1, <3>2, <3>3, Zenon
  <2>5. Sorted'
    <3> SUFFICES ASSUME NEW i \in 1 .. Len(items'), NEW j \in 1 .. Len(items'), i < j
                 PROVE  items'[i] < items'[j]
      BY DEF Sorted
    <3>1. i \in 1 .. Len(items) - 1 /\ j \in 1 .. Len(items) - 1
      <4>1. Len(items') = Len(items) - 1
        BY <2>3
      <4> QED
        BY <4>1
    <3>2. PICK k \in 1 .. Len(items) :
             items'[i] = items[k] /\ (k = i \/ k = i + 1) /\ (k = i <=> i < it)
      BY <2>4, <3>1
    <3>3. PICK l \in 1 .. Len(items) :
             items'[j] = items[l] /\ (l = j \/ l = j + 1) /\ (l = j <=> j < it)
      BY <2>4, <3>1
    <3>4. k < l
      BY <1>2, <2>2, <3>1, <3>2, <3>3
    <3> QED
      BY <3>2, <3>3, <3>4 DEF Sorted
  <2>6. \A i \in 1 .. Len(items) : items[i] = name => i = it
    <3> SUFFICES ASSUME NEW i \in 1 .. Len(items), i # it PROVE items[i] # name
      OBVIOUS
    <3>1. items[i] \in Nat /\ (i < it \/ it < i)
      BY <1>2, <2>2
    <3>2. items[i] < name \/ name < items[i]
      BY <2>2, <3>1 DEF Sorted
    <3> QED
      BY <1>3, <3>1, <3>2
  <2>7. data_points' = data_points \ {name}
    <3>1. ASSUME NEW i \in 1 .. Len(items') PROVE items'[i] \in data_points \ {name}
      <4>1. i \in 1 .. Len(items) - 1
        <5>1. Len(items') = Len(items) - 1
          BY <2>3
        <5> QED
          BY <5>1
      <4>2. PICK k \in 1 .. Len(items) : items'[i] = items[k] /\ k # it
        BY <2>4, <4>1
      <4> QED
        BY <2>6, <4>2 DEF data_points
    <3>2. ASSUME NEW i \in 1 .. Len(items), items[i] # name
          PROVE  items[i] \in data_points'
      <4>0. Len(items') = Len(items) - 1
        BY <2>3
      <4>1. CASE i < it
        <5>1. i \in 1 .. Len(items) - 1 /\ i \in 1 .. Len(items')
          BY <1>2, <2>2, <4>0, <4>1
        <5>2. items'[i] = items[i]
          BY <2>3, <4>1, <5>1
        <5> QED
          BY <5>1, <5>2 DEF data_points
      <4>2. CASE it < i
        <5>1. /\ i - 1 \in 1 .. Len(items) - 1 /\ i - 1 \in 1 .. Len(items')
              /\ ~(i - 1 < it) /\ (i - 1) + 1 = i
          BY <1>2, <2>2, <4>0, <4>2
        <5>2. items'[i - 1] = items[i]
          BY <2>3, <5>1
        <5> QED
          BY <5>1, <5>2 DEF data_points
      <4>3. i < it \/ it < i
        BY <2>2, <3>2
      <4> QED
        BY <4>1, <4>2, <4>3, Zenon
    <3>3. data_points' \subseteq data_points \ {name}
      BY <3>1 DEF data_points
    <3>4. data_points \ {name} \subseteq data_points'
      BY <3>2 DEF data_points
    <3> QED
      BY <3>3, <3>4
  <2>8. name \in data_points
    BY <2>2 DEF data_points
  <2>9. (name \in data_points) = TRUE
    BY <2>8
  <2> QED
    BY <2>1, <2>3, <2>5, <2>7, <2>9
<1> QED
  BY <1>4, <1>5

-----------------------------------------------------------------------------
(* The type, the order, and the set the vector stands for.                 *)

Ordered == TypeOK /\ Sorted

LEMMA OrderedInit == Init => Ordered
<1> SUFFICES ASSUME Init PROVE Ordered
  OBVIOUS
<1>1. items = <<>> /\ items \in Seq(Names) /\ Len(items) = 0
  BY EmptySeq DEF Init
<1>2. 1 \in 1 .. Columns
  BY ItemsAssumption
<1>3. Sorted
  BY <1>1 DEF Sorted
<1>4. TypeOK
  <2>1. at \in [column : 1 .. Columns, index : Nat]
    BY <1>2 DEF Init
  <2>2. walking \in BOOLEAN /\ seen = {} /\ stays = {}
    BY DEF Init
  <2> QED
    BY <1>1, <2>1, <2>2 DEF TypeOK
<1> QED
  BY <1>3, <1>4 DEF Ordered

LEMMA DataPoints == TypeOK => data_points \subseteq Names
  BY ElementOfSeq DEF TypeOK, data_points

LEMMA GiveType ==
    ASSUME TypeOK, NEW c \in 1 .. Columns, NEW n \in Names, Give(c, n)
    PROVE  TypeOK'
<1>1. Index[n] \in Nat
  BY ItemsAssumption
<1> QED
  BY <1>1 DEF Give, TypeOK

LEMMA OrderedNext == Ordered /\ [Next]_vars => Ordered'
<1> SUFFICES ASSUME Ordered, [Next]_vars PROVE Ordered'
  OBVIOUS
<1> USE DEF Ordered
<1>1. ASSUME NEW name \in Names, getItem(name) PROVE Ordered'
  <2>1. UNCHANGED walk
    BY <1>1 DEF getItem
  <2> QED
    BY <1>1, <2>1, GetItem DEF walk, TypeOK
<1>2. ASSUME NEW name \in Names, dropItem(name) PROVE Ordered'
  <2>1. UNCHANGED <<walking, at, seen>> /\ stays' = stays \ {name}
    BY <1>2 DEF dropItem
  <2> QED
    BY <1>2, <2>1, DropItem DEF TypeOK
<1>3. CASE StartWalk
  <2>1. 1 \in 1 .. Columns
    BY ItemsAssumption
  <2> QED
    BY <1>3, <2>1, DataPoints DEF StartWalk, TypeOK, Sorted
<1>4. CASE SameColumn
  <2>1. PICK n \in Names : Give(at.column, n)
    BY <1>4, DataPoints DEF SameColumn, chosen, Left
  <2>2. at.column \in 1 .. Columns
    BY DEF TypeOK
  <2> QED
    BY <2>1, <2>2, GiveType DEF Give, Sorted
<1>5. CASE NextColumn
  <2>1. PICK n \in Names : Give(at.column + 1, n)
    BY <1>5, DataPoints DEF NextColumn, chosen
  <2>2. at.column + 1 \in 1 .. Columns
    BY <1>5, ItemsAssumption DEF NextColumn, TypeOK
  <2> QED
    BY <2>1, <2>2, GiveType DEF Give, Sorted
<1>6. CASE EndOfTable \/ UNCHANGED vars
  BY <1>6 DEF EndOfTable, vars, walk, TypeOK, Sorted
<1> QED
  BY <1>1, <1>2, <1>3, <1>4, <1>5, <1>6 DEF Next, Change, GetNext

\* Every variable keeps its type.
THEOREM TypeCorrect == Spec => []TypeOK
<1>1. Ordered => TypeOK
  BY DEF Ordered
<1> QED
  BY <1>1, OrderedInit, OrderedNext, PTL DEF Spec

\* The vector is always in order and without duplicates, as lower_bound needs.
THEOREM AlwaysSorted == Spec => []Sorted
<1>1. Ordered => Sorted
  BY DEF Ordered
<1> QED
  BY <1>1, OrderedInit, OrderedNext, PTL DEF Spec

\* The vector implements the set of rows, hooks included.
THEOREM ImplementsSet == Spec => RowsSpec
<1>1. Init => Rows!Init
  <2> SUFFICES ASSUME Init PROVE Rows!Init
    OBVIOUS
  <2>1. items = <<>> /\ Len(items) = 0
    BY EmptySeq DEF Init
  <2>2. data_points = {}
    BY <2>1 DEF data_points
  <2> QED
    BY <2>2 DEF Init, Rows!Init
<1>2. Ordered /\ [Next]_vars => [Rows!Next]_<<data_points, called>>
  <2> SUFFICES ASSUME Ordered, [Next]_vars
               PROVE  [Rows!Next]_<<data_points, called>>
    OBVIOUS
  <2>1. ASSUME NEW name \in Names, getItem(name) PROVE Rows!Next
    BY <2>1, GetItem DEF Ordered, Rows!Next, Rows!getItem, Called
  <2>2. ASSUME NEW name \in Names, dropItem(name) PROVE Rows!Next
    BY <2>2, DropItem DEF Ordered, Rows!Next, Rows!dropItem, Called
  <2>3. CASE StartWalk \/ GetNext \/ UNCHANGED vars
    BY <2>3 DEF StartWalk, GetNext, SameColumn, NextColumn, Give, EndOfTable,
                vars, data_points
  <2> QED
    BY <2>1, <2>2, <2>3 DEF Next, Change
<1> QED
  BY <1>1, <1>2, OrderedInit, OrderedNext, PTL DEF Spec, RowsSpec, Rows!Spec

-----------------------------------------------------------------------------
(* The walk.                                                               *)

Walks == WalkInv /\ WalkComplete

LEMMA WalksGive ==
    ASSUME Ordered, WalkInv, walking, NEW c \in 1 .. Columns, NEW n \in data_points,
           Give(c, n),
           \A m \in stays : \A d \in 1 .. Columns :
              d < c \/ (d = c /\ Index[m] < Index[n]) => Passed(d, m)
    PROVE  Walks'
<1>1. /\ at'.column = c /\ at'.index = Index[n]
      /\ seen' = seen \union {<<c, n>>} /\ walking' /\ stays' = stays /\ items' = items
  BY DEF Give
<1>2. stays \subseteq Names /\ n \in Names /\ c \in Int
  BY DataPoints DEF Ordered, TypeOK
<1>3. \A m \in Names : Index[m] \in Nat
  BY ItemsAssumption
<1>4. ASSUME NEW m \in stays, NEW d \in 1 .. Columns, Passed(d, m)'
      PROVE  <<d, m>> \in seen'
  <2>1. d < c \/ (d = c /\ Index[m] <= Index[n])
    BY <1>1, <1>4 DEF Passed
  <2>2. CASE d < c \/ (d = c /\ Index[m] < Index[n])
    <3>1. Passed(d, m)
      BY <2>2
    <3> QED
      BY <1>1, <3>1 DEF WalkInv
  <2>3. CASE d = c /\ Index[m] = Index[n]
    <3>1. m = n
      BY <1>2, <2>3, ItemsAssumption
    <3> QED
      BY <1>1, <2>3, <3>1
  <2>4. m \in Names
    BY <1>2
  <2> QED
    BY <1>2, <1>3, <2>1, <2>2, <2>3, <2>4
<1>5. data_points' = data_points
  BY <1>1 DEF data_points
<1>6. stays' \subseteq data_points'
  BY <1>1, <1>5 DEF WalkInv
<1>7. \A m \in stays' : \A d \in 1 .. Columns : Passed(d, m)' => <<d, m>> \in seen'
  BY <1>1, <1>4
<1>8. WalkInv'
  BY <1>6, <1>7 DEF WalkInv
<1>9. WalkComplete'
  BY <1>1 DEF WalkComplete
<1> QED
  BY <1>8, <1>9 DEF Walks

LEMMA WalksNext == Ordered /\ Walks /\ [Next]_vars => Walks'
<1> SUFFICES ASSUME Ordered, Walks, [Next]_vars PROVE Walks'
  OBVIOUS
<1>0. /\ at.column \in 1 .. Columns /\ at.index \in Nat /\ Columns \in Nat
      /\ \A m \in stays : Index[m] \in Nat \ {0}
      /\ \A m \in data_points : Index[m] \in Nat \ {0}
  BY ItemsAssumption, DataPoints DEF Ordered, TypeOK
<1>1. ASSUME NEW name \in Names, getItem(name) PROVE Walks'
  <2>1. UNCHANGED <<walking, at, seen, stays>>
    BY <1>1 DEF getItem, walk
  <2>2. data_points \subseteq data_points'
    BY <1>1, GetItem DEF Ordered
  <2> QED
    BY <2>1, <2>2 DEF Walks, WalkInv, WalkComplete, Passed
<1>2. ASSUME NEW name \in Names, dropItem(name) PROVE Walks'
  <2>1. UNCHANGED <<walking, at, seen>> /\ stays' = stays \ {name}
    BY <1>2 DEF dropItem
  <2>2. data_points' = data_points \ {name}
    BY <1>2, DropItem DEF Ordered
  <2> QED
    BY <2>1, <2>2 DEF Walks, WalkInv, WalkComplete, Passed
<1>3. CASE StartWalk
  <2>1. /\ walking' /\ at'.column = 1 /\ at'.index = 0
        /\ stays' = data_points /\ items' = items
    BY <1>3 DEF StartWalk
  <2>2. \A m \in data_points : \A c \in 1 .. Columns : ~Passed(c, m)'
    BY <1>0, <2>1 DEF Passed
  <2>3. data_points' = data_points
    BY <2>1 DEF data_points
  <2> QED
    BY <2>1, <2>2, <2>3 DEF Walks, WalkInv, WalkComplete
<1>4. CASE SameColumn
  <2>1. PICK n \in chosen(Left) : Give(at.column, n)
    BY <1>4 DEF SameColumn
  <2>2. n \in data_points /\ \A m \in Left : Index[n] <= Index[m]
    BY DEF chosen, Left
  <2>3. ASSUME NEW m \in stays, NEW d \in 1 .. Columns,
               d < at.column \/ (d = at.column /\ Index[m] < Index[n])
        PROVE  Passed(d, m)
    <3>1. m \in data_points
      BY DEF Walks, WalkInv
    <3>2. Index[m] < Index[n] => m \notin Left
      BY <1>0, <2>2, <3>1
    <3>3. m \notin Left => Index[m] <= at.index
      BY <1>0, <3>1 DEF Left
    <3> QED
      BY <2>3, <3>2, <3>3 DEF Passed
  <2>4. walking
    BY <1>4 DEF SameColumn
  <2> QED
    BY <1>0, <2>1, <2>2, <2>3, <2>4, WalksGive DEF Walks
<1>5. ASSUME Left = {} PROVE \A m \in stays : \A d \in 1 .. Columns :
                                d <= at.column => Passed(d, m)
  <2>1. \A m \in stays : Index[m] <= at.index
    BY <1>0, <1>5 DEF Left, Walks, WalkInv
  <2> QED
    BY <1>0, <2>1 DEF Passed
<1>6. CASE NextColumn
  <2>1. PICK n \in chosen(data_points) : Give(at.column + 1, n)
    BY <1>6 DEF NextColumn
  <2>2. n \in data_points /\ \A m \in data_points : Index[n] <= Index[m]
    BY DEF chosen
  <2>3. ASSUME NEW m \in stays, NEW d \in 1 .. Columns,
               d < at.column + 1 \/ (d = at.column + 1 /\ Index[m] < Index[n])
        PROVE  Passed(d, m)
    <3>1. ~(Index[m] < Index[n])
      BY <1>0, <2>2 DEF Walks, WalkInv
    <3>2. d <= at.column
      BY <1>0, <2>3, <3>1
    <3> QED
      BY <1>5, <1>6, <3>2 DEF NextColumn
  <2>4. walking /\ at.column + 1 \in 1 .. Columns
    BY <1>0, <1>6 DEF NextColumn
  <2> QED
    BY <2>1, <2>2, <2>3, <2>4, WalksGive DEF Walks
<1>7. CASE EndOfTable
  <2>1. /\ walking /\ ~walking' /\ Left = {} /\ (at.column = Columns \/ data_points = {})
        /\ UNCHANGED <<items, at, seen, stays>>
    BY <1>7 DEF EndOfTable
  <2>2. ASSUME NEW m \in stays, NEW c \in 1 .. Columns PROVE <<c, m>> \in seen
    <3>1. at.column = Columns
      BY <2>1 DEF Walks, WalkInv
    <3>2. Passed(c, m)
      BY <1>0, <1>5, <2>1, <3>1
    <3> QED
      BY <2>1, <3>2 DEF Walks, WalkInv
  <2>3. data_points' = data_points
    BY <2>1 DEF data_points
  <2> QED
    BY <2>1, <2>2, <2>3 DEF Walks, WalkInv, WalkComplete
<1>8. CASE UNCHANGED vars
  BY <1>8 DEF vars, walk, Walks, WalkInv, WalkComplete, Passed, data_points
<1> QED
  BY <1>1, <1>2, <1>3, <1>4, <1>6, <1>7, <1>8 DEF Next, Change, GetNext

\* A finished walk has given every row that stayed, in every column, however
\* many rows came and went and whatever the order of the index identifiers.
THEOREM WalksAreComplete == Spec => []WalkComplete
<1>1. Init => Walks
  BY DEF Init, Walks, WalkInv, WalkComplete
<1>2. Walks => WalkComplete
  BY DEF Walks
<1> QED
  BY <1>1, <1>2, OrderedInit, OrderedNext, WalksNext, PTL DEF Spec

-----------------------------------------------------------------------------
(* A search and a request have exactly one answer.                         *)

LEMMA LeastNumber ==
    ASSUME NEW S \in SUBSET Nat, S # {}
    PROVE  \E least \in S : \A n \in S : least <= n
<1>1. PICK least \in S : \A n \in S : <<n, least>> \notin OpToRel(<, Nat)
  BY NatLessThanWellFounded, WFMin
<1>2. ASSUME NEW n \in S PROVE least <= n
  <2>1. least \in Nat /\ n \in Nat
    OBVIOUS
  <2>2. ~(n < least)
    <3>1. <<n, least>> \in Nat \X Nat /\ <<n, least>>[1] = n /\ <<n, least>>[2] = least
      BY <2>1
    <3> QED
      BY <1>1, <3>1 DEF OpToRel
  <2> QED
    BY <2>1, <2>2
<1> QED
  BY <1>2

\* In an ordered vector the comparison with any name has one point of
\* partition, and the item there is the one of that name, if there is one.
LEMMA LowerBound ==
    ASSUME Ordered, NEW name \in Names
    PROVE  \E it \in Iterators :
              /\ lower_bound(it, name)
              /\ Found(it, name) <=> name \in data_points
              /\ \A other \in Iterators : lower_bound(other, name) => other = it
<1>1. /\ Len(items) \in Nat /\ name \in Nat
      /\ \A i \in 1 .. Len(items) : items[i] \in Nat
  BY ItemsAssumption, LenProperties, ElementOfSeq DEF Ordered, TypeOK
<1> DEFINE Above == {it \in Iterators :
                       \A i \in it .. Len(items) : ~(items[i] < name)}
<1>2. Above \in SUBSET Nat /\ Len(items) + 1 \in Above
  BY <1>1 DEF Iterators
<1>3. PICK it \in Above : \A n \in Above : it <= n
  BY <1>2, LeastNumber
<1>4. /\ it \in 1 .. Len(items) + 1
      /\ \A i \in it .. Len(items) : ~(items[i] < name)
  BY <1>3 DEF Iterators
<1>5. ASSUME NEW i \in 1 .. it - 1 PROVE items[i] < name
  <2>1. i \in 1 .. Len(items) /\ i < it /\ i \in Iterators
    BY <1>1, <1>4 DEF Iterators
  <2>2. PICK j \in i .. Len(items) : items[j] < name
    BY <1>1, <1>2, <1>3, <2>1
  <2>3. j \in 1 .. Len(items) /\ (j = i \/ i < j)
    BY <2>1, <2>2
  <2>4. j = i \/ items[i] < items[j]
    BY <2>1, <2>3 DEF Ordered, Sorted
  <2> QED
    BY <1>1, <2>1, <2>2, <2>3, <2>4
<1>6. lower_bound(it, name)
  BY <1>4, <1>5 DEF lower_bound
<1>7. Found(it, name) <=> name \in data_points
  <2>1. Found(it, name) => name \in data_points
    BY <1>1, <1>4 DEF Found, data_points
  <2>2. ASSUME NEW i \in 1 .. Len(items), items[i] = name PROVE Found(it, name)
    <3>1. i \in it .. Len(items)
      BY <1>1, <1>4, <1>5, <2>2
    <3>2. it \in 1 .. Len(items) /\ (it = i \/ it < i)
      BY <1>1, <1>4, <3>1
    <3>3. it = i \/ items[it] < items[i]
      BY <3>2 DEF Ordered, Sorted
    <3>4. ~(items[it] < name)
      BY <1>4, <3>2
    <3> QED
      BY <2>2, <3>2, <3>3, <3>4 DEF Found
  <2> QED
    BY <2>1, <2>2 DEF data_points
<1>8. ASSUME NEW other \in Iterators, lower_bound(other, name) PROVE other = it
  <2>1. other \in 1 .. Len(items) + 1
    BY DEF Iterators
  <2>2. ~(other < it)
    BY <1>1, <1>4, <1>5, <1>8, <2>1 DEF lower_bound
  <2>3. ~(it < other)
    BY <1>1, <1>4, <1>8, <2>1 DEF lower_bound
  <2> QED
    BY <1>1, <1>4, <2>1, <2>2, <2>3
<1> QED
  BY <1>4, <1>6, <1>7, <1>8 DEF Iterators

\* However rows came and went: lower_bound has one iterator to return, and it
\* is the row's if and only if there is such a row (getItem, dropItem).
THEOREM SearchIsExact ==
    Spec => [](\A name \in Names :
                  \E it \in Iterators :
                      /\ lower_bound(it, name)
                      /\ Found(it, name) <=> name \in data_points
                      /\ \A other \in Iterators :
                            lower_bound(other, name) => other = it)
<1>1. Ordered => \A name \in Names :
                  \E it \in Iterators :
                      /\ lower_bound(it, name)
                      /\ Found(it, name) <=> name \in data_points
                      /\ \A other \in Iterators :
                            lower_bound(other, name) => other = it
  BY LowerBound
<1> QED
  BY <1>1, OrderedInit, OrderedNext, PTL DEF Spec

=============================================================================
