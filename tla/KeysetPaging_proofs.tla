------------------------- MODULE KeysetPaging_proofs -------------------------
(***************************************************************************)
(* Theorems about KeysetPaging, for any ids, any limits, any size of page  *)
(* and any number of rows added and deleted during a walk.                 *)
(***************************************************************************)
EXTENDS KeysetPaging, TLAPS, FiniteSetTheorems

-----------------------------------------------------------------------------
(* Extrema. *)

\* A finite set of numbers that is not empty has a least and a greatest
\* element: counting the elements up to each is an injection into as many
\* numbers as there are elements, so it meets the first and the last of them.
LEMMA Extrema ==
  ASSUME NEW T, IsFiniteSet(T), T \subseteq Nat, T # {}
  PROVE  /\ \E x \in T : \A y \in T : x >= y
         /\ \E x \in T : \A y \in T : x =< y
  <1> DEFINE n        == Cardinality(T)
             below(x) == {y \in T : y <= x}
             rank     == [x \in T |-> Cardinality(below(x))]
  <1>1. n \in Nat /\ n > 0
    BY FS_CardinalityType, FS_EmptySet
  <1>2. ASSUME NEW x \in T
        PROVE  /\ IsFiniteSet(below(x)) /\ x \in below(x)
               /\ Cardinality(below(x)) \in 1..n
               /\ Cardinality(below(x)) = n => below(x) = T
    <2>1. below(x) \in SUBSET T /\ x \in below(x)
      OBVIOUS
    <2>2. IsFiniteSet(below(x)) /\ Cardinality(below(x)) <= n
      BY <2>1, FS_Subset
    <2>3. Cardinality(below(x)) \in Nat /\ Cardinality(below(x)) # 0
      BY <2>1, <2>2, FS_CardinalityType, FS_EmptySet
    <2>4. Cardinality(below(x)) = n => below(x) = T
      BY <2>1, FS_Subset
    <2>5. QED
      BY <1>1, <2>1, <2>2, <2>3, <2>4
  <1>3. ASSUME NEW x \in T, NEW z \in T, x < z
        PROVE  rank[x] < rank[z]
    <2>1. below(x) \in SUBSET below(z) /\ z \in below(z) /\ z \notin below(x)
      <3>1. ASSUME NEW y \in T, y <= x  PROVE y <= z
        BY <1>3, <3>1
      <3>2. x \in Nat /\ z \in Nat /\ ~(z <= x) /\ z <= z
        BY <1>3
      <3>3. QED
        BY <3>1, <3>2
    <2>2. Cardinality(below(x)) <= Cardinality(below(z)) /\ Cardinality(below(x)) # Cardinality(below(z))
      BY <1>2, <2>1, FS_Subset
    <2>3. QED
      BY <1>2, <2>2
  <1>4. rank \in [T -> 1..n] /\ \A x, z \in T : rank[x] = rank[z] => x = z
    <2>1. rank \in [T -> 1..n]
      BY <1>2
    <2>2. ASSUME NEW x \in T, NEW z \in T, x # z  PROVE rank[x] # rank[z]
      <3>1. x < z \/ z < x
        BY <2>2
      <3>2. rank[x] \in Nat /\ rank[z] \in Nat
        BY <1>1, <2>1
      <3>3. QED
        BY <1>3, <3>1, <3>2
    <2>3. QED
      BY <2>1, <2>2
  <1>5. rank \in Injection(T, 1..n)
    BY <1>4 DEF Injection, IsInjective
  <1>6. IsFiniteSet(1..n) /\ Cardinality(1..n) = n
    BY <1>1, FS_Interval
  <1>7. \A k \in 1..n : \E x \in T : rank[x] = k
    <2> HIDE DEF rank
    <2>1. rank \in Surjection(T, 1..n)
      BY <1>5, <1>6, FS_Injection
    <2>2. QED
      BY <2>1 DEF Surjection
  <1>8. PICK x \in T : rank[x] = n
    BY <1>1, <1>7
  <1>9. PICK z \in T : rank[z] = 1
    BY <1>1, <1>7
  <1>10. below(x) = T
    BY <1>2, <1>8
  <1>11. \A y \in T : y <= z => y = z
    <2>1. \E v : below(z) = {v}
      BY <1>2, <1>9, FS_Singleton
    <2>2. QED
      BY <1>2, <2>1
  <1>12. \A y \in T : x >= y /\ z =< y
    <2>1. ASSUME NEW y \in T  PROVE x >= y
      BY <1>10
    <2>2. ASSUME NEW y \in T  PROVE z =< y
      BY <1>11
    <2>3. QED
      BY <2>1, <2>2
  <1>13. QED
    BY <1>12

LEMMA MaxIsGreatest ==
  ASSUME NEW T, IsFiniteSet(T), T \subseteq Nat, T # {}
  PROVE  Max(T) \in T /\ \A y \in T : y <= Max(T)
  <1>1. \E x \in T : \A y \in T : x >= y
    BY Extrema
  <1>2. Max(T) \in T /\ \A y \in T : Max(T) >= y
    BY <1>1 DEF Max
  <1>3. QED
    BY <1>2

-----------------------------------------------------------------------------
(* Pages. *)

\* A page is an initial segment of the rows it is taken from, never longer than
\* asked for, and shorter only when it holds them all.
LEMMA FirstOfPrefix ==
  ASSUME NEW S, IsFiniteSet(S), S \subseteq Nat, NEW n \in Nat
  PROVE  /\ FirstOf(n, S) \subseteq S /\ IsFiniteSet(FirstOf(n, S))
         /\ \A x \in FirstOf(n, S), y \in S : y < x => y \in FirstOf(n, S)
         /\ Cardinality(FirstOf(n, S)) # n => FirstOf(n, S) = S
  <1> DEFINE F        == FirstOf(n, S)
             under(x) == {y \in S : y < x}
  <1>1. F \in SUBSET S /\ IsFiniteSet(F)
    BY FS_Subset DEF FirstOf
  <1>2. \A x : IsFiniteSet(under(x)) /\ Cardinality(under(x)) \in Nat
    <2> TAKE x
    <2>1. under(x) \in SUBSET S
      OBVIOUS
    <2>2. QED
      BY <2>1, FS_Subset, FS_CardinalityType
  <1>3. \A x \in S : x \in F <=> Cardinality(under(x)) < n
    BY DEF FirstOf
  <1>4. ASSUME NEW x \in F, NEW y \in S, y < x  PROVE y \in F
    <2>1. under(y) \in SUBSET under(x)
      <3>1. ASSUME NEW z \in S, z < y  PROVE z < x
        <4>1. x \in Nat /\ y \in Nat /\ z \in Nat
          BY <1>1
        <4>2. QED
          BY <1>4, <3>1, <4>1
      <3>2. QED
        BY <3>1
    <2>2. Cardinality(under(y)) <= Cardinality(under(x))
      BY <1>2, <2>1, FS_Subset
    <2>3. Cardinality(under(x)) < n
      BY <1>1, <1>3
    <2>4. Cardinality(under(x)) \in Nat /\ Cardinality(under(y)) \in Nat
      BY <1>2
    <2>5. QED
      BY <1>3, <2>2, <2>3, <2>4
  <1>5. ASSUME F # S  PROVE Cardinality(F) = n
    <2> DEFINE R == S \ F
    <2>1. IsFiniteSet(R) /\ R \subseteq Nat /\ R # {}
      <3>1. R \in SUBSET S
        OBVIOUS
      <3>2. QED
        BY <1>1, <1>5, <3>1, FS_Subset
    <2>2. PICK x \in R : \A y \in R : x =< y
      BY <2>1, Extrema
    <2>3. under(x) \in SUBSET F
      BY <2>1, <2>2
    <2>4. Cardinality(under(x)) <= Cardinality(F)
      BY <1>1, <2>3, FS_Subset
    <2>5. ~(Cardinality(under(x)) < n)
      BY <1>3, <2>2
    <2>6. Cardinality(F) \in Nat /\ Cardinality(under(x)) \in Nat
      BY <1>1, <1>2, FS_CardinalityType
    <2>7. Cardinality(F) <= n
      <3>1. CASE F = {}
        BY <3>1, FS_EmptySet
      <3>2. CASE F # {}
        <4>1. PICK m \in F : \A y \in F : m >= y
          BY <1>1, <3>2, Extrema
        <4>2. F \in SUBSET (under(m) \union {m})
          <5>1. ASSUME NEW y \in F, y # m  PROVE y \in S /\ y < m
            <6>1. y \in S /\ m \in S /\ m >= y
              BY <1>1, <4>1
            <6>2. y \in Nat /\ m \in Nat
              BY <6>1
            <6>3. QED
              BY <5>1, <6>1, <6>2
          <5>2. QED
            BY <5>1
        <4>3. IsFiniteSet(under(m) \union {m}) /\ Cardinality(under(m) \union {m}) = Cardinality(under(m)) + 1
          <5>1. IsFiniteSet(under(m)) /\ m \notin under(m)
            <6>1. m \in Nat
              BY <1>1, <4>1
            <6>2. QED
              BY <1>2, <6>1
          <5>2. QED
            BY <5>1, FS_AddElement
        <4>4. Cardinality(F) <= Cardinality(under(m)) + 1
          BY <4>2, <4>3, FS_Subset
        <4>5. Cardinality(under(m)) < n
          BY <1>1, <1>3
        <4>6. Cardinality(under(m)) \in Nat
          BY <1>2
        <4>7. QED
          BY <2>6, <4>4, <4>5, <4>6
      <3>3. QED
        BY <3>1, <3>2
    <2>8. QED
      BY <2>4, <2>5, <2>6, <2>7
  <1>6. QED
    BY <1>1, <1>4, <1>5

\* The page size asked for is positive, and so is the one the server grants.
LEMMA PageSizes ==
  ASSUME limit \in Limits
  PROVE  /\ effectivePageLimit(limit) \in Nat \ {0}
         /\ Clamp(effectivePageLimit(limit)) \in Nat \ {0}
         /\ Clamp(effectivePageLimit(limit)) = Ceiling
         /\ limit <= ServerMaxPageLimit
              => Clamp(effectivePageLimit(limit)) = effectivePageLimit(limit)
  BY ConfigOK DEF effectivePageLimit, Clamp, Ceiling

\* What one page tells: it is an initial segment of the rows after the cursor,
\* all of them if it is not full, and the cursor it ends with is its greatest.
LEMMA PageFacts ==
  ASSUME TypeOK, NEW cursor \in Ids \union {None}
  PROVE  LET n     == effectivePageLimit(limit)
             items == ServerPage(cursor, n)
             over  == {x \in rows : cursor = None \/ x > cursor}
         IN /\ items \subseteq over /\ items \subseteq Ids /\ IsFiniteSet(items)
            /\ Cardinality(items) # Clamp(n) => items = over
            /\ NextCursor(items, n) # None =>
                 /\ NextCursor(items, n) \in items
                 /\ \A y \in items : y <= NextCursor(items, n)
                 /\ \A x \in over : x <= NextCursor(items, n) => x \in items
            /\ NextCursor(items, n) = None /\ limit <= ServerMaxPageLimit => items = over
  <1> DEFINE n     == effectivePageLimit(limit)
             items == ServerPage(cursor, n)
             over  == {x \in rows : cursor = None \/ x > cursor}
  <1>1. n \in Nat \ {0} /\ Clamp(n) \in Nat \ {0} /\ (limit <= ServerMaxPageLimit => Clamp(n) = n)
    BY PageSizes DEF TypeOK
  <1>2. over \subseteq Ids /\ over \subseteq Nat /\ IsFiniteSet(over)
    <2>1. over \in SUBSET Ids
      BY DEF TypeOK
    <2>2. QED
      BY <2>1, ConfigOK, FS_Subset
  <1>3. items = FirstOf(Clamp(n), over)
    BY DEF ServerPage
  <1> HIDE DEF n, items, over
  <1>4. /\ items \subseteq over /\ IsFiniteSet(items)
        /\ \A x \in items, y \in over : y < x => y \in items
        /\ Cardinality(items) # Clamp(n) => items = over
    BY <1>1, <1>2, <1>3, FirstOfPrefix
  <1>5. ASSUME NextCursor(items, n) # None
        PROVE  /\ NextCursor(items, n) \in items
               /\ \A y \in items : y <= NextCursor(items, n)
               /\ \A x \in over : x <= NextCursor(items, n) => x \in items
    <2>1. Cardinality(items) = n /\ NextCursor(items, n) = Max(items)
      BY <1>5 DEF NextCursor
    <2>2. items # {}
      BY <1>1, <2>1, FS_EmptySet
    <2>3. Max(items) \in items /\ \A y \in items : y <= Max(items)
      BY <1>2, <1>4, <2>2, MaxIsGreatest
    <2>4. ASSUME NEW x \in over, x <= Max(items)  PROVE x \in items
      <3>1. x \in Nat /\ Max(items) \in Nat
        BY <1>2, <1>4, <2>3
      <3>2. CASE x = Max(items)
        BY <2>3, <3>2
      <3>3. CASE x < Max(items)
        BY <1>4, <2>3, <3>3
      <3>4. QED
        BY <2>4, <3>1, <3>2, <3>3
    <2>5. QED
      BY <2>1, <2>3, <2>4
  <1>6. ASSUME NextCursor(items, n) = None, limit <= ServerMaxPageLimit
        PROVE  items = over
    <2>1. Cardinality(items) # n
      <3>1. SUFFICES ASSUME Cardinality(items) = n  PROVE FALSE
        OBVIOUS
      <3>2. items # {}
        BY <1>1, <3>1, FS_EmptySet
      <3>3. Max(items) \in Ids
        BY <1>2, <1>4, <3>2, MaxIsGreatest
      <3>4. QED
        BY <1>6, <3>1, <3>3, ConfigOK DEF NextCursor
    <2>2. QED
      BY <1>1, <1>4, <1>6, <2>1
  <1>7. QED
    BY <1>2, <1>4, <1>5, <1>6 DEF n, items, over

-----------------------------------------------------------------------------
(* Types. *)

LEMMA InitType == Init => TypeOK
  <1>1. 0 \in 0..MaxChanges
    BY ConfigOK
  <1>2. QED
    BY <1>1, Zenon DEF Init, TypeOK

LEMMA KeysetType ==
  ASSUME TypeOK, NEW name \in Keyset, KeysetList(name)
  PROVE  TypeOK'
  <1> DEFINE n     == effectivePageLimit(limit)
             items == ServerPage(after, n)
  <1>1. TakePage(items, NextCursor(items, n))
    BY DEF KeysetList
  <1>2. items \subseteq Ids /\ NextCursor(items, n) \in Ids \union {None}
    BY PageFacts DEF TypeOK
  <1> HIDE DEF n, items
  <1>3. QED
    BY <1>1, <1>2 DEF TakePage, TypeOK, server

LEMMA NextType ==
  ASSUME TypeOK, [Next]_vars
  PROVE  TypeOK'
  <1>1. ASSUME NEW id \in Ids, AddRow(id)  PROVE TypeOK'
    BY <1>1, ConfigOK DEF AddRow, TypeOK, walk
  <1>2. ASSUME NEW id \in Ids, DeleteRow(id)  PROVE TypeOK'
    BY <1>2, ConfigOK DEF DeleteRow, TypeOK, walk
  <1>3. ASSUME NEW name \in Keyset, KeysetList(name)  PROVE TypeOK'
    BY <1>3, KeysetType
  <1>4. CASE ListEntitlements
    <2> DEFINE items == ServerPage(None, effectivePageLimit(limit))
    <2>1. TakePage(items, None)
      BY <1>4 DEF ListEntitlements
    <2>2. items \subseteq Ids
      BY PageFacts
    <2> HIDE DEF items
    <2>3. QED
      BY <2>1, <2>2 DEF TakePage, TypeOK, server
  <1>5. CASE UNCHANGED vars
    BY <1>5 DEF vars, server, walk, TypeOK
  <1>6. QED
    BY <1>1, <1>2, <1>3, <1>4, <1>5
    DEF Next, List, ListComponents, ListMachineProcesses, ListReleaseArtifacts, Keyset

\* Type correctness, for any collection and any limits: a cursor is a row's id,
\* and what is stable is still there.
THEOREM TypeCorrect == Spec => []TypeOK
  BY InitType, NextType, PTL DEF Spec

-----------------------------------------------------------------------------
(* The walk. *)

\* A walk under way has listed nothing after its cursor, and every row that was
\* there all along up to it.
KeysetWalk ==
  collection \in Keyset /\ ~done =>
    /\ after = None => listed = {}
    /\ after # None => /\ \A x \in listed : x <= after
                       /\ \A x \in stable : x <= after => x \in listed

KeysetDone ==
  collection \in Keyset /\ done /\ limit <= ServerMaxPageLimit => stable \subseteq listed

\* The one page of entitlements is full, or holds them all.
OnePage ==
  collection = "entitlements" =>
    /\ ~done => listed = {}
    /\ done => stable \subseteq listed \/ Cardinality(listed) = Ceiling

Inv == NothingTwice /\ KeysetWalk /\ KeysetDone /\ OnePage

LEMMA KeysetStep ==
  ASSUME TypeOK, Inv, NEW name \in Keyset, KeysetList(name)
  PROVE  Inv'
  <1> DEFINE n     == effectivePageLimit(limit)
             items == ServerPage(after, n)
             over  == {x \in rows : after = None \/ x > after}
             c     == NextCursor(items, n)
  <1>1. TakePage(items, c) /\ collection = name /\ ~done
    BY DEF KeysetList
  <1>2. /\ items \subseteq over /\ items \subseteq Ids
        /\ c # None => /\ c \in items
                       /\ \A y \in items : y <= c
                       /\ \A x \in over : x <= c => x \in items
        /\ c = None /\ limit <= ServerMaxPageLimit => items = over
    BY PageFacts DEF TypeOK
  <1>3. over = IF after = None THEN rows ELSE {x \in rows : x > after}
    OBVIOUS
  <1> HIDE DEF n, items, over, c
  <1>4. /\ listed' = listed \union items /\ twice' = twice \union (listed \intersect items)
        /\ after' = c /\ done' = (c = None)
        /\ collection' = collection /\ limit' = limit /\ rows' = rows /\ stable' = stable
    BY <1>1 DEF TakePage, server
  <1>5. rows \subseteq Nat /\ stable \subseteq rows /\ listed \subseteq Nat /\ items \subseteq Nat
        /\ after \in Nat \union {None} /\ None \notin Ids
    BY <1>2, ConfigOK DEF TypeOK
  <1>6. collection \in Keyset /\ collection # "entitlements"
    BY <1>1 DEF Keyset
  <1>7. listed \intersect items = {}
    <2>1. CASE after = None
      BY <2>1, <1>1, <1>6 DEF Inv, KeysetWalk
    <2>2. CASE after # None
      <3>1. \A x \in items : x > after
        BY <1>2, <1>3, <2>2
      <3>2. \A x \in listed : x <= after
        BY <1>1, <1>6, <2>2 DEF Inv, KeysetWalk
      <3>3. after \in Nat
        BY <1>5, <2>2
      <3>4. QED
        BY <1>5, <3>1, <3>2, <3>3
    <2>3. QED
      BY <2>1, <2>2
  <1>8. \A x \in stable : x \in over \/ x \in listed
    <2>1. CASE after = None
      BY <2>1, <1>3, <1>5
    <2>2. CASE after # None
      <3>1. \A x \in stable : x <= after => x \in listed
        BY <1>1, <1>6, <2>2 DEF Inv, KeysetWalk
      <3>2. \A x \in stable : x > after => x \in over
        BY <1>3, <1>5, <2>2
      <3>3. after \in Nat /\ stable \subseteq Nat
        BY <1>5, <2>2
      <3>4. QED
        BY <3>1, <3>2, <3>3
    <2>3. QED
      BY <2>1, <2>2
  <1>9. ASSUME c # None
        PROVE  /\ \A x \in listed' : x <= c
               /\ \A x \in stable : x <= c => x \in listed'
    <2>1. \A x \in listed : x <= c
      <3>1. CASE after = None
        BY <3>1, <1>1, <1>6 DEF Inv, KeysetWalk
      <3>2. CASE after # None
        <4>1. c > after /\ c \in Nat /\ after \in Nat
          BY <1>2, <1>3, <1>5, <1>9, <3>2
        <4>2. \A x \in listed : x <= after
          BY <1>1, <1>6, <3>2 DEF Inv, KeysetWalk
        <4>3. QED
          BY <1>5, <4>1, <4>2
      <3>3. QED
        BY <3>1, <3>2
    <2>2. QED
      BY <1>2, <1>4, <1>8, <1>9, <2>1
  <1>10. NothingTwice' /\ KeysetWalk'
    BY <1>4, <1>7, <1>9 DEF Inv, NothingTwice, KeysetWalk
  <1>11. KeysetDone'
    BY <1>2, <1>4, <1>8 DEF KeysetDone
  <1>12. OnePage'
    BY <1>4, <1>6 DEF OnePage
  <1>13. QED
    BY <1>10, <1>11, <1>12 DEF Inv

LEMMA EntitlementsStep ==
  ASSUME TypeOK, Inv, ListEntitlements
  PROVE  Inv'
  <1> DEFINE n     == effectivePageLimit(limit)
             items == ServerPage(None, n)
  <1>1. TakePage(items, None) /\ collection = "entitlements" /\ ~done
    BY DEF ListEntitlements
  <1>2. Cardinality(items) # Ceiling => items = rows
    <2>1. Cardinality(items) # Clamp(n) => items = {x \in rows : None = None \/ x > None}
      BY PageFacts
    <2>2. Clamp(n) = Ceiling
      BY PageSizes DEF TypeOK
    <2>3. QED
      BY <2>1, <2>2
  <1> HIDE DEF n, items
  <1>3. listed = {}
    BY <1>1 DEF Inv, OnePage
  <1>4. /\ listed' = items /\ twice' = twice /\ done'
        /\ collection' = collection /\ limit' = limit /\ stable' = stable
    BY <1>1, <1>3 DEF TakePage, server
  <1>5. collection \notin Keyset
    BY <1>1 DEF Keyset
  <1>6. Ceiling' = Ceiling
    BY <1>4 DEF Ceiling
  <1>7. stable \subseteq listed' \/ Cardinality(listed') = Ceiling'
    BY <1>2, <1>4, <1>6 DEF TypeOK
  <1>8. QED
    BY <1>4, <1>5, <1>7 DEF Inv, NothingTwice, KeysetWalk, KeysetDone, OnePage

LEMMA InvStep ==
  ASSUME TypeOK, Inv, [Next]_vars
  PROVE  Inv'
  <1>1. ASSUME NEW id \in Ids, AddRow(id) \/ DeleteRow(id)  PROVE Inv'
    <2>1. /\ collection' = collection /\ limit' = limit /\ after' = after /\ listed' = listed
          /\ twice' = twice /\ done' = done /\ stable' \subseteq stable
      BY <1>1 DEF AddRow, DeleteRow, walk
    <2>2. Ceiling' = Ceiling
      BY <2>1 DEF Ceiling
    <2>3. QED
      BY <2>1, <2>2 DEF Inv, NothingTwice, KeysetWalk, KeysetDone, OnePage
  <1>2. ASSUME NEW name \in Keyset, KeysetList(name)  PROVE Inv'
    BY <1>2, KeysetStep
  <1>3. CASE ListEntitlements
    BY <1>3, EntitlementsStep
  <1>4. CASE UNCHANGED vars
    <2>1. Ceiling' = Ceiling
      BY <1>4 DEF Ceiling, vars
    <2>2. QED
      BY <1>4, <2>1 DEF vars, server, walk, Inv, NothingTwice, KeysetWalk, KeysetDone, OnePage
  <1>5. QED
    BY <1>1, <1>2, <1>3, <1>4
    DEF Next, List, ListComponents, ListMachineProcesses, ListReleaseArtifacts, Keyset

LEMMA InvHolds == Spec => []Inv
  <1>1. Init => Inv
    BY DEF Init, Inv, NothingTwice, KeysetWalk, KeysetDone, OnePage
  <1>2. QED
    BY <1>1, InvStep, TypeCorrect, PTL DEF Spec

\* No page of any listing repeats a row of an earlier one, whatever is added or
\* deleted between two pages.
THEOREM NothingTwiceHolds == Spec => []NothingTwice
  BY InvHolds, PTL DEF Inv

\* A finished keyset walk has listed every row that was there all along, for
\* every limit the server does not clamp.
THEOREM CompleteWalkHolds ==
  ASSUME \A n \in Limits : n <= ServerMaxPageLimit
  PROVE  Spec => []CompleteWalk
  <1>1. TypeOK /\ Inv => CompleteWalk
    BY DEF TypeOK, Inv, KeysetDone, CompleteWalk
  <1>2. QED
    BY <1>1, InvHolds, TypeCorrect, PTL

\* ListEntitlements' one page leaves nothing out while what the license has and
\* had stays within the ceiling, clamped limits included.
THEOREM CompleteBelowCeilingHolds == Spec => []CompleteBelowCeiling
  <1>1. ASSUME TypeOK, Inv, done, collection = "entitlements",
               Cardinality(rows \union listed) <= Ceiling
        PROVE  stable \subseteq listed
    <2>1. SUFFICES ASSUME Cardinality(listed) = Ceiling  PROVE stable \subseteq listed
      BY <1>1 DEF Inv, OnePage
    <2>2. rows \union listed \in SUBSET Ids /\ listed \in SUBSET (rows \union listed)
      BY <1>1 DEF TypeOK
    <2>3. IsFiniteSet(rows \union listed)
      BY <2>2, ConfigOK, FS_Subset
    <2>4. Cardinality(listed) <= Cardinality(rows \union listed)
      BY <2>2, <2>3, FS_Subset
    <2>5. Cardinality(listed) \in Nat /\ Cardinality(rows \union listed) \in Nat
      BY <2>2, <2>3, FS_Subset, FS_CardinalityType
    <2>6. Cardinality(listed) = Cardinality(rows \union listed)
      BY <1>1, <2>1, <2>4, <2>5
    <2>7. listed = rows \union listed
      BY <2>2, <2>3, <2>6, FS_Subset
    <2>8. QED
      BY <1>1, <2>7 DEF TypeOK
  <1>2. TypeOK /\ Inv => CompleteBelowCeiling
    BY <1>1 DEF CompleteBelowCeiling
  <1>3. QED
    BY <1>2, InvHolds, TypeCorrect, PTL

-----------------------------------------------------------------------------
(* The end of a walk. *)

\* How far a walk is from its end: the ids it has not passed, whether there is a
\* row of that id or not, and the answer that ends it.
Distance ==
  IF done THEN 0 ELSE 1 + Cardinality({x \in Ids : after = None \/ x > after})

LEMMA DistanceType ==
  ASSUME TypeOK
  PROVE  Distance \in Nat /\ (~done => Distance > 0)
  <1> DEFINE ahead == {x \in Ids : after = None \/ x > after}
  <1>1. ahead \in SUBSET Ids
    OBVIOUS
  <1>2. Cardinality(ahead) \in Nat
    BY <1>1, ConfigOK, FS_Subset, FS_CardinalityType
  <1> HIDE DEF ahead
  <1>3. Distance = IF done THEN 0 ELSE 1 + Cardinality(ahead)
    BY DEF Distance, ahead
  <1>4. QED
    BY <1>2, <1>3

LEMMA KeysetAdvances ==
  ASSUME TypeOK, NEW name \in Keyset, KeysetList(name)
  PROVE  Distance' < Distance
  <1> DEFINE n     == effectivePageLimit(limit)
             items == ServerPage(after, n)
             over  == {x \in rows : after = None \/ x > after}
             c     == NextCursor(items, n)
  <1>1. TakePage(items, c) /\ ~done
    BY DEF KeysetList
  <1>2. items \subseteq over /\ items \subseteq Ids /\ (c # None => c \in items)
    BY PageFacts DEF TypeOK
  <1>3. c # None => c \in Ids /\ (after = None \/ c > after)
    BY <1>2
  <1> HIDE DEF n, items, over, c
  <1>4. after' = c /\ done' = (c = None)
    BY <1>1 DEF TakePage
  <1> DEFINE ahead == {x \in Ids : after = None \/ x > after}
             left  == {x \in Ids : c = None \/ x > c}
  <1>5. CASE c = None
    <2>1. Distance' = 0
      BY <1>4, <1>5 DEF Distance
    <2>2. QED
      BY <1>1, <2>1, DistanceType
  <1>6. CASE c # None
    <2>1. c \in Nat /\ Ids \subseteq Nat /\ (after # None => after \in Nat)
      BY <1>3, <1>6, ConfigOK DEF TypeOK
    <2>2. c \in ahead /\ c \notin left
      BY <1>3, <1>6, <2>1
    <2>3. left \subseteq ahead
      <3>1. CASE after = None
        BY <3>1
      <3>2. CASE after # None
        <4>1. c > after /\ after \in Nat
          BY <1>3, <1>6, <2>1, <3>2
        <4>2. ASSUME NEW x \in Ids, x > c  PROVE x > after
          BY <2>1, <4>1, <4>2
        <4>3. QED
          BY <1>6, <4>2
      <3>3. QED
        BY <3>1, <3>2
    <2>4. ahead \in SUBSET Ids
      OBVIOUS
    <2> HIDE DEF ahead, left
    <2>5. IsFiniteSet(ahead) /\ IsFiniteSet(left)
      BY <2>3, <2>4, ConfigOK, FS_Subset
    <2>6. Cardinality(left) \in Nat /\ Cardinality(ahead) \in Nat
      BY <2>5, FS_CardinalityType
    <2>7. Cardinality(left) < Cardinality(ahead)
      BY <2>2, <2>3, <2>5, <2>6, FS_Subset
    <2>8. Distance = 1 + Cardinality(ahead) /\ Distance' = 1 + Cardinality(left)
      BY <1>1, <1>4, <1>6 DEF Distance, ahead, left
    <2>9. QED
      BY <2>6, <2>7, <2>8
  <1>7. QED
    BY <1>5, <1>6

\* Every page brings a walk nearer to its end, and no row added or deleted
\* meanwhile takes it back: a walk is over after as many pages as there are ids,
\* and one, whatever size the server cuts them to (NextCursor). With a page asked
\* for as long as there is a cursor, this is why WalkEnds holds.
THEOREM WalkAdvances ==
  Spec => [][Distance' \in Nat /\ Distance' <= Distance /\ (List => Distance' < Distance)]_vars
  <1>1. ASSUME TypeOK, [Next]_vars
        PROVE  [Distance' \in Nat /\ Distance' <= Distance /\ (List => Distance' < Distance)]_vars
    <2>1. SUFFICES ASSUME Next, vars' # vars
                   PROVE  /\ Distance' \in Nat /\ Distance' <= Distance
                          /\ List => Distance' < Distance
      BY <1>1
    <2>2. Distance \in Nat /\ Distance' \in Nat
      <3>1. {x \in Ids : after' = None \/ x > after'} \in SUBSET Ids
        OBVIOUS
      <3>2. Cardinality({x \in Ids : after' = None \/ x > after'}) \in Nat
        BY <3>1, ConfigOK, FS_Subset, FS_CardinalityType
      <3>3. Distance' \in Nat
        BY <3>2 DEF Distance
      <3>4. QED
        BY <1>1, <3>3, DistanceType
    <2>3. ASSUME List  PROVE Distance' < Distance
      <3>1. ASSUME ListEntitlements  PROVE Distance' < Distance
        <4>1. ~done /\ done'
          BY <3>1 DEF ListEntitlements, TakePage
        <4>2. Distance' = 0
          BY <4>1 DEF Distance
        <4>3. QED
          BY <1>1, <4>1, <4>2, DistanceType
      <3>2. QED
        BY <1>1, <2>3, <3>1, KeysetAdvances
        DEF List, ListComponents, ListMachineProcesses, ListReleaseArtifacts, Keyset
    <2>4. ASSUME NEW id \in Ids, AddRow(id) \/ DeleteRow(id)
          PROVE  Distance' = Distance /\ ~List
      <3>1. after' = after /\ done' = done /\ rows' # rows
        BY <2>4 DEF AddRow, DeleteRow, walk
      <3>2. Distance' = Distance
        BY <3>1 DEF Distance
      <3>3. ~List
        BY <3>1 DEF List, ListComponents, ListMachineProcesses, ListReleaseArtifacts,
                    ListEntitlements, KeysetList, TakePage, server
      <3>4. QED
        BY <3>2, <3>3
    <2>5. QED
      BY <2>1, <2>2, <2>3, <2>4 DEF Next
  <1>2. QED
    BY <1>1, TypeCorrect, PTL DEF Spec
=============================================================================
