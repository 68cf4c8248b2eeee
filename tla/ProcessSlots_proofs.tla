------------------------- MODULE ProcessSlots_proofs -------------------------
(***************************************************************************)
(* Theorems about ProcessSlots, for any processes, machines and pids, any  *)
(* policy and any number of rows and faults.                               *)
(***************************************************************************)
EXTENDS ProcessSlots, TLAPS, FiniteSetTheorems

LEMMA OwnRowType ==
  ASSUME TypeOK, NEW p \in Procs, pc[p] # "off"
  PROVE  OwnRow(p) \in Row /\ OwnRow(p) # NoRow
  BY ConfigOK DEF TypeOK, OwnRow, Row, NoRow

LEMMA ExitType ==
  ASSUME TypeOK, NEW p \in Procs, Exit(p)
  PROVE  /\ pc' \in [Procs -> PCs]
         /\ pid' \in [Procs -> Pids \union {None}]
         /\ row' \in [Procs -> Ids \union {None}]
         /\ \A q \in Procs : /\ pc'[q] # "off" => pid'[q] \in Pids
                             /\ pc'[q] \in WithRow <=> row'[q] \in Ids
  BY ConfigOK DEF TypeOK, Exit, PCs, WithRow

LEMMA GotoType ==
  ASSUME TypeOK, NEW p \in Procs, pc[p] \in WithRow, NEW label \in WithRow, Goto(p, label)
  PROVE  /\ pc' \in [Procs -> PCs]
         /\ pid' \in [Procs -> Pids \union {None}]
         /\ row' \in [Procs -> Ids \union {None}]
         /\ \A q \in Procs : /\ pc'[q] # "off" => pid'[q] \in Pids
                             /\ pc'[q] \in WithRow <=> row'[q] \in Ids
  BY DEF TypeOK, Goto, PCs, WithRow

LEMMA InsertType ==
  ASSUME TypeOK, NEW r \in Row, nextId \in Ids, InsertRow(r)
  PROVE  table' \in [Ids -> Row \union {NoRow}] /\ nextId' \in 1..(MaxIds + 1)
  BY ConfigOK DEF TypeOK, InsertRow, Ids

LEMMA RemoveType ==
  ASSUME TypeOK, NEW m \in Ids, RemoveRow(m)
  PROVE  table' \in [Ids -> Row \union {NoRow}] /\ nextId' \in 1..(MaxIds + 1)
  BY DEF TypeOK, RemoveRow

LEMMA FaultType ==
  ASSUME TypeOK, Fault
  PROVE  faults' \in 0..MaxFaults
  BY ConfigOK DEF TypeOK, Fault

LEMMA LateType ==
  ASSUME TypeOK
  PROVE  /\ \A r \in Row : [op |-> "create", row |-> r] \in LateCall
         /\ \A m \in Ids : [op |-> "delete", id |-> m] \in LateCall
  BY DEF LateCall

LEMMA UnansweredType ==
  ASSUME TypeOK, NEW p \in Procs
  PROVE  Unanswered(p) \subseteq LateCall
  BY LateType, OwnRowType DEF TypeOK, Unanswered, WithRow

LEMMA InitType == Init => TypeOK
  BY ConfigOK DEF Init, TypeOK, PCs, WithRow, Ids

LEMMA NextType ==
  ASSUME TypeOK, [Next]_vars
  PROVE  TypeOK'
  <1>1. ASSUME NEW p \in Procs, Start(p)  PROVE TypeOK'
    BY <1>1, ConfigOK DEF Start, TypeOK, PCs, WithRow
  <1>2. ASSUME NEW p \in Procs, CreateSucceeds(p)  PROVE TypeOK'
    <2>1. nextId \in Ids /\ InsertRow(OwnRow(p)) /\ OwnRow(p) \in Row
      BY <1>2, OwnRowType DEF CreateSucceeds, CanCreate
    <2>2. table' \in [Ids -> Row \union {NoRow}] /\ nextId' \in 1..(MaxIds + 1)
      BY <2>1, InsertType
    <2>3. QED
      BY <1>2, <2>1, <2>2 DEF CreateSucceeds, TypeOK, PCs, WithRow
  <1>3. ASSUME NEW p \in Procs, CreateRefused(p)  PROVE TypeOK'
    BY <1>3, ExitType DEF CreateRefused, TypeOK
  <1>4. ASSUME NEW p \in Procs, CreateFails(p)  PROVE TypeOK'
    <2>1. OwnRow(p) \in Row
      BY <1>4, OwnRowType DEF CreateFails
    <2>2. late' \subseteq LateCall
      BY <1>4, <2>1, LateType DEF CreateFails, TypeOK
    <2>3. faults' \in 0..MaxFaults
      BY <1>4, FaultType DEF CreateFails, TypeOK
    <2>4. QED
      BY <1>4, <2>2, <2>3, ExitType DEF CreateFails, TypeOK
  <1>5. ASSUME NEW p \in Procs, Dispose(p)  PROVE TypeOK'
    BY <1>5, GotoType DEF Dispose, TypeOK, WithRow
  <1>6. ASSUME NEW p \in Procs, DisposeAnswers(p)  PROVE TypeOK'
    <2>1. row[p] \in Ids
      BY <1>6 DEF DisposeAnswers, TypeOK, WithRow
    <2>2. QED
      BY <1>6, <2>1, RemoveType, ExitType DEF DisposeAnswers, TypeOK
  <1>7. ASSUME NEW p \in Procs, DisposeFails(p)  PROVE TypeOK'
    <2>1. row[p] \in Ids
      BY <1>7 DEF DisposeFails, TypeOK, WithRow
    <2>2. late' \subseteq LateCall
      BY <1>7, <2>1, LateType DEF DisposeFails, TypeOK
    <2>3. faults' \in 0..MaxFaults
      BY <1>7, FaultType DEF DisposeFails
    <2>4. QED
      BY <1>7, <2>2, <2>3, GotoType DEF DisposeFails, TypeOK, WithRow
  <1>8. ASSUME NEW p \in Procs, PingNotFound(p)  PROVE TypeOK'
    BY <1>8, GotoType DEF PingNotFound, TypeOK, WithRow
  <1>9. ASSUME NEW p \in Procs, RunReturns(p)  PROVE TypeOK'
    BY <1>9, GotoType DEF RunReturns, TypeOK, WithRow
  <1>10. ASSUME NEW p \in Procs, NeverDisposed(p)  PROVE TypeOK'
    BY <1>10, ExitType, FaultType DEF NeverDisposed, TypeOK
  <1>11. ASSUME NEW p \in Procs, Crash(p)  PROVE TypeOK'
    <2>1. late' \subseteq LateCall
      BY <1>11, UnansweredType DEF Crash, TypeOK
    <2>2. QED
      BY <1>11, <2>1, ExitType, FaultType DEF Crash, TypeOK
  <1>12. ASSUME NEW r \in Row, LateCreate(r)  PROVE TypeOK'
    <2>1. table' \in [Ids -> Row \union {NoRow}] /\ nextId' \in 1..(MaxIds + 1)
      BY <1>12, InsertType DEF LateCreate, CanCreate, NoServerChange, TypeOK
    <2>2. QED
      BY <1>12, <2>1 DEF LateCreate, TypeOK, local
  <1>13. ASSUME NEW m \in Ids, LateDelete(m)  PROVE TypeOK'
    BY <1>13, RemoveType DEF LateDelete, TypeOK, local
  <1>14. ASSUME NEW m \in Ids, OperatorDeletes(m)  PROVE TypeOK'
    BY <1>14, RemoveType DEF OperatorDeletes, TypeOK, local
  <1>15. CASE UNCHANGED vars
    BY <1>15 DEF vars, local, TypeOK
  <1>16. QED
    BY <1>1, <1>2, <1>3, <1>4, <1>5, <1>6, <1>7, <1>8, <1>9, <1>10, <1>11, <1>12, <1>13,
       <1>14, <1>15 DEF Next, Step

\* No step brings the system outside the types it declares.
THEOREM TypeCorrect == Spec => []TypeOK
  <1>1. TypeOK /\ [Next]_vars => TypeOK'
    BY NextType
  <1>2. QED
    BY <1>1, InitType, PTL DEF Spec

-----------------------------------------------------------------------------
(* Which process has which pid and row, and which deletes are outstanding. *)

DeleteOf(m) == [op |-> "delete", id |-> m]

LEMMA InitHands == Init => Hands
  BY ConfigOK DEF Init, Hands, Apart, InHand, Numbered, Ids

\* A process that leaves takes its pid and its row out of play; no row comes
\* back, and no delete of a row in another's hand is added.
LEMMA ExitHands ==
  ASSUME TypeOK, Hands, NEW p \in Procs, Exit(p),
         \A m \in Ids : m # row[p] => table'[m] = table[m],
         table' = table \/ (row[p] \in Ids /\ table'[row[p]] = NoRow),
         nextId' = nextId, culled' = culled,
         \A m \in Ids : DeleteOf(m) \in late' => DeleteOf(m) \in late \/ m = row[p]
  PROVE  Hands'
  <1>1. /\ pid'[p] = None /\ row'[p] = None
        /\ \A q \in Procs : q # p => pid'[q] = pid[q] /\ row'[q] = row[q] /\ pc'[q] = pc[q]
    BY DEF Exit, TypeOK
  <1>2. Apart'
    BY <1>1, ConfigOK DEF Hands, Apart
  <1>3. ASSUME NEW q \in Procs  PROVE InHand(q)'
    <2>1. CASE q = p
      BY <1>1, <2>1, ConfigOK DEF InHand
    <2>2. CASE q # p
      <3>1. row[q] \in Ids => row[q] # row[p]
        BY <2>2 DEF Hands, Apart
      <3>2. row[q] \in Ids => table'[row[q]] = table[row[q]]
        BY <3>1
      <3>3. row[q] \in Ids => (DeleteOf(row[q]) \in late' => DeleteOf(row[q]) \in late)
        BY <3>1
      <3>4. OwnRow(q)' = OwnRow(q)
        BY <1>1, <2>2 DEF OwnRow
      <3>5. InHand(q)
        BY DEF Hands
      <3>6. QED
        BY <1>1, <2>2, <3>2, <3>3, <3>4, <3>5 DEF InHand, DeleteOf
    <2>3. QED
      BY <2>1, <2>2
  <1>4. Numbered'
    <2>1. row[p] \in Ids => row[p] < nextId
      BY DEF Hands, InHand
    <2>2. ASSUME NEW m \in Ids, m >= nextId
          PROVE  table'[m] = NoRow /\ DeleteOf(m) \notin late'
      <3>1. m # row[p]
        BY <2>1, <2>2 DEF TypeOK, Ids
      <3>2. table[m] = NoRow /\ DeleteOf(m) \notin late
        BY <2>2 DEF Hands, Numbered, DeleteOf
      <3>3. QED
        BY <3>1, <3>2
    <2>3. QED
      BY <2>2 DEF Numbered, DeleteOf
  <1>5. QED
    BY <1>2, <1>3, <1>4 DEF Hands

\* A process that shuts down keeps its row in hand.
LEMMA GotoHands ==
  ASSUME TypeOK, Hands, NEW p \in Procs, NEW label, label # "run", Goto(p, label),
         table' = table, nextId' = nextId, culled' = culled,
         \A m \in Ids : DeleteOf(m) \in late' => DeleteOf(m) \in late \/ m = row[p],
         row[p] \in Ids
  PROVE  Hands'
  <1>1. pid' = pid /\ row' = row /\ pc'[p] # "run" /\ \A q \in Procs : q # p => pc'[q] = pc[q]
    BY DEF Goto, TypeOK
  <1>2. Apart'
    BY <1>1 DEF Hands, Apart
  <1>3. ASSUME NEW q \in Procs  PROVE InHand(q)'
    <2>1. q # p /\ row[q] \in Ids => row[q] # row[p]
      BY DEF Hands, Apart
    <2>2. OwnRow(q)' = OwnRow(q) /\ InHand(q)
      BY <1>1 DEF OwnRow, Hands
    <2>3. QED
      BY <1>1, <2>1, <2>2 DEF InHand, DeleteOf
  <1>4. Numbered'
    <2>1. row[p] < nextId
      BY DEF Hands, InHand
    <2>2. ASSUME NEW m \in Ids, m >= nextId  PROVE DeleteOf(m) \notin late'
      <3>1. m # row[p]
        BY <2>1, <2>2 DEF TypeOK, Ids
      <3>2. QED
        BY <2>2, <3>1 DEF Hands, Numbered, DeleteOf
    <2>3. QED
      BY <2>2 DEF Hands, Numbered, DeleteOf
  <1>5. QED
    BY <1>2, <1>3, <1>4 DEF Hands

\* A row is only taken away from a process that runs by the operator.
LEMMA RemoveHands ==
  ASSUME TypeOK, Hands, NEW m \in Ids, RemoveRow(m), UNCHANGED local,
         culled \subseteq culled', late' \subseteq late,
         DeleteOf(m) \in late \/ m \in culled'
  PROVE  Hands'
  <1>1. /\ nextId' = nextId /\ pid' = pid /\ row' = row /\ pc' = pc
        /\ table' = [table EXCEPT ![m] = NoRow]
    BY DEF RemoveRow, local
  <1>2. \A x \in Ids : table'[x] = IF x = m THEN NoRow ELSE table[x]
    BY <1>1 DEF TypeOK
  <1>3. Apart'
    BY <1>1 DEF Hands, Apart
  <1>4. ASSUME NEW q \in Procs  PROVE InHand(q)'
    <2>1. OwnRow(q)' = OwnRow(q) /\ InHand(q)
      BY <1>1 DEF OwnRow, Hands
    <2>2. QED
      BY <1>1, <1>2, <2>1 DEF InHand, DeleteOf
  <1>5. Numbered'
    BY <1>1, <1>2 DEF Hands, Numbered, DeleteOf
  <1>6. QED
    BY <1>3, <1>4, <1>5 DEF Hands

\* A new row is in no hand yet.
LEMMA InsertedRow ==
  ASSUME TypeOK, Hands, NEW r \in Row, nextId \in Ids, InsertRow(r), culled' = culled,
         \A m \in Ids : DeleteOf(m) \in late' => DeleteOf(m) \in late
  PROVE  /\ nextId' = nextId + 1 /\ table'[nextId] = r
         /\ \A m \in Ids : m # nextId => table'[m] = table[m]
         /\ \A p \in Procs : row[p] \in Ids => row[p] < nextId
         /\ DeleteOf(nextId) \notin late'
         /\ Numbered'
  <1>1. /\ nextId' = nextId + 1 /\ table'[nextId] = r
        /\ \A m \in Ids : m # nextId => table'[m] = table[m]
    BY DEF InsertRow, TypeOK
  <1>2. \A p \in Procs : row[p] \in Ids => row[p] < nextId
    BY DEF Hands, InHand
  <1>3. nextId >= nextId
    BY DEF TypeOK
  <1>4. DeleteOf(nextId) \notin late'
    BY <1>3 DEF Hands, Numbered, DeleteOf
  <1>5. ASSUME NEW m \in Ids, m >= nextId + 1
        PROVE  table'[m] = NoRow /\ DeleteOf(m) \notin late'
    <2>1. m # nextId /\ m >= nextId
      BY <1>5 DEF Ids, TypeOK
    <2>2. QED
      BY <1>1, <2>1 DEF Hands, Numbered, DeleteOf
  <1>6. Numbered'
    BY <1>1, <1>5 DEF Numbered, DeleteOf
  <1>7. QED
    BY <1>1, <1>2, <1>4, <1>6

LEMMA NextHands ==
  ASSUME TypeOK, Hands, [Next]_vars
  PROVE  Hands'
  <1>1. ASSUME NEW p \in Procs, Start(p)  PROVE Hands'
    <2>1. PICK i \in Pids : /\ \A q \in Procs : MachineOf[q] = MachineOf[p] => pid[q] # i
                            /\ pid' = [pid EXCEPT ![p] = i]
      BY <1>1 DEF Start
    <2>2. Apart'
      BY <1>1, <2>1 DEF Start, Hands, Apart, TypeOK
    <2>3. row[p] \notin Ids
      BY <1>1 DEF Start, TypeOK, WithRow
    <2>4. ASSUME NEW q \in Procs  PROVE InHand(q)'
      <3>1. q # p => OwnRow(q)' = OwnRow(q) /\ pc'[q] = pc[q]
        BY <1>1, <2>1 DEF Start, OwnRow, TypeOK
      <3>2. QED
        BY <1>1, <2>3, <3>1 DEF Start, Hands, InHand
    <2>5. QED
      BY <1>1, <2>2, <2>4 DEF Start, Hands, Numbered
  <1>2. ASSUME NEW p \in Procs, CreateSucceeds(p)  PROVE Hands'
    <2>1. nextId \in Ids /\ InsertRow(OwnRow(p)) /\ OwnRow(p) \in Row
      BY <1>2, OwnRowType DEF CreateSucceeds, CanCreate
    <2>2. culled' = culled /\ late' = late /\ pid' = pid
      BY <1>2 DEF CreateSucceeds
    <2>3. /\ nextId' = nextId + 1 /\ table'[nextId] = OwnRow(p)
          /\ \A m \in Ids : m # nextId => table'[m] = table[m]
          /\ \A q \in Procs : row[q] \in Ids => row[q] < nextId
          /\ DeleteOf(nextId) \notin late'
          /\ Numbered'
      BY <2>1, <2>2, InsertedRow
    <2>4. /\ row'[p] = nextId
          /\ \A q \in Procs : q # p => row'[q] = row[q] /\ pc'[q] = pc[q]
      BY <1>2 DEF CreateSucceeds, TypeOK
    <2>5. \A q \in Procs : row[q] \in Ids => row[q] # nextId
      BY <2>3 DEF Ids, TypeOK
    <2>6. Apart'
      BY <2>2, <2>4, <2>5 DEF Hands, Apart
    <2>7. ASSUME NEW q \in Procs  PROVE InHand(q)'
      <3>1. OwnRow(q)' = OwnRow(q)
        BY <2>2 DEF OwnRow
      <3>2. CASE q = p
        BY <2>1, <2>3, <2>4, <3>1, <3>2 DEF InHand, DeleteOf, Ids
      <3>3. CASE q # p
        <4>1. row[q] \in Ids => table'[row[q]] = table[row[q]] /\ row[q] < nextId + 1
          BY <2>1, <2>3, <2>5 DEF Ids
        <4>2. InHand(q)
          BY DEF Hands
        <4>3. QED
          BY <2>2, <2>3, <2>4, <3>1, <3>3, <4>1, <4>2 DEF InHand
      <3>4. QED
        BY <3>2, <3>3
    <2>8. QED
      BY <2>3, <2>6, <2>7 DEF Hands
  <1>3. ASSUME NEW p \in Procs, CreateRefused(p)  PROVE Hands'
    BY <1>3, ExitHands DEF CreateRefused
  <1>4. ASSUME NEW p \in Procs, CreateFails(p)  PROVE Hands'
    <2>1. \A m \in Ids : DeleteOf(m) \in late' => DeleteOf(m) \in late
      BY <1>4 DEF CreateFails, DeleteOf
    <2>2. QED
      BY <1>4, <2>1, ExitHands DEF CreateFails
  <1>5. ASSUME NEW p \in Procs, Dispose(p)  PROVE Hands'
    BY <1>5, GotoHands DEF Dispose, TypeOK, WithRow
  <1>6. ASSUME NEW p \in Procs, DisposeAnswers(p)  PROVE Hands'
    <2>1. row[p] \in Ids
      BY <1>6 DEF DisposeAnswers, TypeOK, WithRow
    <2>2. /\ nextId' = nextId /\ table'[row[p]] = NoRow
          /\ \A m \in Ids : m # row[p] => table'[m] = table[m]
      BY <1>6, <2>1 DEF DisposeAnswers, RemoveRow, TypeOK
    <2>3. QED
      BY <1>6, <2>1, <2>2, ExitHands DEF DisposeAnswers
  <1>7. ASSUME NEW p \in Procs, DisposeFails(p)  PROVE Hands'
    <2>1. row[p] \in Ids
      BY <1>7 DEF DisposeFails, TypeOK, WithRow
    <2>2. \A m \in Ids : DeleteOf(m) \in late' => DeleteOf(m) \in late \/ m = row[p]
      BY <1>7 DEF DisposeFails, DeleteOf
    <2>3. QED
      BY <1>7, <2>1, <2>2, GotoHands DEF DisposeFails
  <1>8. ASSUME NEW p \in Procs, PingNotFound(p)  PROVE Hands'
    BY <1>8, GotoHands DEF PingNotFound, TypeOK, WithRow
  <1>9. ASSUME NEW p \in Procs, RunReturns(p)  PROVE Hands'
    BY <1>9, GotoHands DEF RunReturns, TypeOK, WithRow
  <1>10. ASSUME NEW p \in Procs, NeverDisposed(p)  PROVE Hands'
    BY <1>10, ExitHands DEF NeverDisposed
  <1>11. ASSUME NEW p \in Procs, Crash(p)  PROVE Hands'
    <2>1. \A m \in Ids : DeleteOf(m) \in late' => DeleteOf(m) \in late \/ m = row[p]
      BY <1>11 DEF Crash, Unanswered, DeleteOf
    <2>2. QED
      BY <1>11, <2>1, ExitHands DEF Crash
  <1>12. ASSUME NEW r \in Row, LateCreate(r)  PROVE Hands'
    <2>1. /\ culled' = culled /\ pid' = pid /\ row' = row /\ pc' = pc
          /\ \A m \in Ids : DeleteOf(m) \in late' => DeleteOf(m) \in late
      BY <1>12 DEF LateCreate, local
    <2>2. Apart'
      BY <2>1 DEF Hands, Apart
    <2>3. \A q \in Procs : OwnRow(q)' = OwnRow(q)
      BY <2>1 DEF OwnRow
    <2>4. CASE CanCreate(r)
      <3>1. /\ nextId' = nextId + 1
            /\ \A m \in Ids : m # nextId => table'[m] = table[m]
            /\ \A q \in Procs : row[q] \in Ids => row[q] < nextId
            /\ Numbered'
        BY <1>12, <2>1, <2>4, InsertedRow DEF LateCreate, CanCreate
      <3>2. \A q \in Procs : row[q] \in Ids => table'[row[q]] = table[row[q]] /\ row[q] < nextId + 1
        BY <3>1 DEF Ids, TypeOK
      <3>3. \A q \in Procs : InHand(q)'
        BY <2>1, <2>3, <3>1, <3>2 DEF Hands, InHand, DeleteOf
      <3>4. QED
        BY <2>2, <3>1, <3>3 DEF Hands
    <2>5. CASE ~CanCreate(r)
      <3>1. table' = table /\ nextId' = nextId
        BY <1>12, <2>5 DEF LateCreate, NoServerChange
      <3>2. QED
        BY <2>1, <2>2, <2>3, <3>1 DEF Hands, InHand, Numbered, DeleteOf
    <2>6. QED
      BY <2>4, <2>5
  <1>13. ASSUME NEW m \in Ids, LateDelete(m)  PROVE Hands'
    BY <1>13, RemoveHands DEF LateDelete, DeleteOf
  <1>14. ASSUME NEW m \in Ids, OperatorDeletes(m)  PROVE Hands'
    BY <1>14, RemoveHands DEF OperatorDeletes
  <1>15. CASE UNCHANGED vars
    <2>1. \A q \in Procs : OwnRow(q)' = OwnRow(q)
      BY <1>15 DEF vars, local, OwnRow
    <2>2. QED
      BY <1>15, <2>1 DEF vars, local, Hands, Apart, InHand, Numbered
  <1>16. QED
    BY <1>1, <1>2, <1>3, <1>4, <1>5, <1>6, <1>7, <1>8, <1>9, <1>10, <1>11, <1>12, <1>13,
       <1>14, <1>15 DEF Next, Step

LEMMA HandsHold == Spec => [](TypeOK /\ Hands)
  <1>1. Init => TypeOK /\ Hands
    BY InitType, InitHands
  <1>2. (TypeOK /\ Hands) /\ [Next]_vars => (TypeOK /\ Hands)'
    BY NextType, NextHands
  <1>3. QED
    BY <1>1, <1>2, PTL DEF Spec

\* A running process keeps its row unless an operator deletes it, however many
\* processes share its machine and whatever deletes arrive late.
THEOREM RunningKeeps == Spec => []RunningKeepsRow
  <1>1. ASSUME TypeOK, Hands  PROVE RunningKeepsRow
    <2>1. ASSUME NEW p \in Procs, pc[p] = "run"
          PROVE  row[p] \in culled \/ (row[p] \in Rows /\ table[row[p]] = OwnRow(p))
      <3>1. row[p] \in Ids /\ OwnRow(p) # NoRow
        BY <1>1, <2>1, OwnRowType DEF TypeOK, WithRow
      <3>2. QED
        BY <1>1, <2>1, <3>1 DEF Hands, InHand, Rows
    <2>2. QED
      BY <2>1 DEF RunningKeepsRow
  <1>2. QED
    BY <1>1, HandsHold, PTL

\* PID_TAKEN is only ever caused by a row that outlived an earlier process.
THEOREM TakenByLeak == Spec => []TakenOnlyByLeak
  <1>1. ASSUME TypeOK, Hands  PROVE TakenOnlyByLeak
    <2>1. ASSUME NEW p \in Procs, pc[p] = "create", Taken(OwnRow(p))
          PROVE  \E m \in Leaked : table[m] = OwnRow(p)
      <3>1. PICK m \in Rows : table[m] = OwnRow(p)
        BY <2>1 DEF Taken
      <3>2. ASSUME NEW q \in Procs, row[q] = m  PROVE FALSE
        <4>1. row[q] \in Ids /\ pc[q] # "off" /\ q # p
          BY <1>1, <2>1, <3>1, <3>2, ConfigOK DEF Rows, TypeOK, WithRow
        <4>2. table[row[q]] # NoRow
          BY <3>1, <3>2 DEF Rows
        <4>3. OwnRow(q) = OwnRow(p)
          BY <1>1, <3>1, <3>2, <4>1, <4>2 DEF Hands, InHand
        <4>4. MachineOf[q] = MachineOf[p] /\ pid[q] = pid[p]
          BY <4>3 DEF OwnRow
        <4>5. pid[q] \in Pids
          BY <1>1, <4>1 DEF TypeOK
        <4>6. QED
          BY <1>1, <4>1, <4>4, <4>5 DEF Hands, Apart
      <3>3. m \in Leaked
        BY <3>1, <3>2 DEF Leaked
      <3>4. QED
        BY <3>1, <3>3
    <2>2. QED
      BY <2>1 DEF TakenOnlyByLeak
  <1>2. QED
    BY <1>1, HandsHold, PTL

-----------------------------------------------------------------------------
(* Every row that outlives its process is paid for by a fault. *)

LEMMA LeakedFinite ==
  ASSUME TypeOK
  PROVE  IsFiniteSet(Leaked)
  <1>1. IsFiniteSet(Ids)
    BY ConfigOK, FS_Interval DEF Ids
  <1>2. Leaked \subseteq Ids
    BY DEF Leaked, Rows
  <1>3. QED
    BY <1>1, <1>2, FS_Subset

LEMMA GrownByOne ==
  ASSUME NEW S, IsFiniteSet(S), NEW x, NEW U, U \subseteq S \union {x}
  PROVE  IsFiniteSet(U) /\ Cardinality(U) <= Cardinality(S) + 1
  <1>1. /\ IsFiniteSet(S \union {x})
        /\ Cardinality(S \union {x}) <= Cardinality(S) + 1
        /\ Cardinality(S) \in Nat
    BY FS_AddElement, FS_CardinalityType
  <1>2. IsFiniteSet(U) /\ Cardinality(U) <= Cardinality(S \union {x})
    BY <1>1, FS_Subset
  <1>3. Cardinality(U) \in Nat /\ Cardinality(S \union {x}) \in Nat
    BY <1>1, <1>2, FS_CardinalityType
  <1>4. QED
    BY <1>1, <1>2, <1>3

LEMMA CountsAreNat ==
  ASSUME TypeOK, Paid
  PROVE  /\ IsFiniteSet(Leaked) /\ IsFiniteSet(LateCreates)
         /\ Cardinality(Leaked) \in Nat /\ Cardinality(LateCreates) \in Nat
         /\ faults \in Nat
  BY LeakedFinite, FS_CardinalityType DEF Paid, TypeOK

LEMMA PaidKept ==
  ASSUME TypeOK, Paid, Leaked' \subseteq Leaked, LateCreates' \subseteq LateCreates,
         faults' \in {faults, faults + 1}
  PROVE  Paid'
  <1>1. /\ IsFiniteSet(Leaked') /\ Cardinality(Leaked') <= Cardinality(Leaked)
        /\ IsFiniteSet(LateCreates') /\ Cardinality(LateCreates') <= Cardinality(LateCreates)
    BY CountsAreNat, FS_Subset
  <1>2. Cardinality(Leaked') \in Nat /\ Cardinality(LateCreates') \in Nat
    BY <1>1, FS_CardinalityType
  <1>3. QED
    BY <1>1, <1>2, CountsAreNat DEF Paid

LEMMA PaidByFault ==
  ASSUME TypeOK, Paid, Fault, NEW x,
         \/ Leaked' \subseteq Leaked \union {x} /\ LateCreates' \subseteq LateCreates
         \/ Leaked' \subseteq Leaked /\ LateCreates' \subseteq LateCreates \union {x}
  PROVE  Paid'
  <1>1. /\ IsFiniteSet(Leaked') /\ IsFiniteSet(LateCreates')
        /\ \/ /\ Cardinality(Leaked') <= Cardinality(Leaked) + 1
              /\ Cardinality(LateCreates') <= Cardinality(LateCreates)
           \/ /\ Cardinality(Leaked') <= Cardinality(Leaked)
              /\ Cardinality(LateCreates') <= Cardinality(LateCreates) + 1
    BY CountsAreNat, GrownByOne, FS_Subset
  <1>2. Cardinality(Leaked') \in Nat /\ Cardinality(LateCreates') \in Nat
    BY <1>1, FS_CardinalityType
  <1>3. QED
    BY <1>1, <1>2, CountsAreNat DEF Paid, Fault

LEMMA PaidByLateCreate ==
  ASSUME TypeOK, Paid, NEW r \in LateCreates, NEW x, faults' = faults,
         Leaked' \subseteq Leaked \union {x}, LateCreates' = LateCreates \ {r}
  PROVE  Paid'
  <1>1. IsFiniteSet(Leaked') /\ Cardinality(Leaked') <= Cardinality(Leaked) + 1
    BY CountsAreNat, GrownByOne
  <1>2. IsFiniteSet(LateCreates') /\ Cardinality(LateCreates') = Cardinality(LateCreates) - 1
    BY CountsAreNat, FS_RemoveElement
  <1>3. Cardinality(Leaked') \in Nat
    BY <1>1, FS_CardinalityType
  <1>4. QED
    BY <1>1, <1>2, <1>3, CountsAreNat DEF Paid

\* A process that leaves adds at most its row.
LEMMA ExitLeaks ==
  ASSUME TypeOK, NEW p \in Procs, Exit(p), table' = table
  PROVE  /\ Leaked' \subseteq Leaked \union {row[p]}
         /\ pc[p] \notin WithRow => Leaked' \subseteq Leaked
  <1>1. \A q \in Procs : q # p => row'[q] = row[q]
    BY DEF Exit, TypeOK
  <1>2. Leaked' \subseteq Leaked \union {row[p]}
    BY <1>1 DEF Leaked, Rows
  <1>3. pc[p] \notin WithRow => row[p] \notin Ids
    BY DEF TypeOK
  <1>4. Leaked' \subseteq Ids
    BY DEF Leaked, Rows
  <1>5. QED
    BY <1>2, <1>3, <1>4

LEMMA SameLate ==
  ASSUME late' \subseteq late \union {[op |-> "delete", id |-> m] : m \in Ids}
  PROVE  LateCreates' \subseteq LateCreates
  BY DEF LateCreates

LEMMA MoreLate ==
  ASSUME NEW p \in Procs, late' \subseteq late \union {[op |-> "create", row |-> OwnRow(p)]}
  PROVE  LateCreates' \subseteq LateCreates \union {OwnRow(p)}
  BY DEF LateCreates

LEMMA NextPaid ==
  ASSUME TypeOK, Hands, Paid, [Next]_vars
  PROVE  Paid'
  <1>1. ASSUME NEW p \in Procs, Start(p)  PROVE Paid'
    BY <1>1, PaidKept DEF Start, Leaked, Rows, LateCreates
  <1>2. ASSUME NEW p \in Procs, CreateSucceeds(p)  PROVE Paid'
    <2>1. row[p] \notin Ids /\ nextId \in Ids
      BY <1>2 DEF CreateSucceeds, CanCreate, TypeOK, WithRow
    <2>2. /\ row'[p] = nextId /\ \A q \in Procs : q # p => row'[q] = row[q]
          /\ \A m \in Ids : m # nextId => table'[m] = table[m]
      BY <1>2, <2>1 DEF CreateSucceeds, InsertRow, TypeOK
    <2>3. Leaked' \subseteq Leaked
      BY <2>1, <2>2 DEF Leaked, Rows
    <2>4. QED
      BY <1>2, <2>3, PaidKept DEF CreateSucceeds, LateCreates
  <1>3. ASSUME NEW p \in Procs, CreateRefused(p)  PROVE Paid'
    BY <1>3, ExitLeaks, PaidKept DEF CreateRefused, LateCreates, WithRow
  <1>4. ASSUME NEW p \in Procs, CreateFails(p)  PROVE Paid'
    <2>1. Leaked' \subseteq Leaked
      BY <1>4, ExitLeaks DEF CreateFails, WithRow
    <2>2. CASE nextId \in Ids
      <3>1. LateCreates' \subseteq LateCreates \union {OwnRow(p)}
        BY <1>4, MoreLate DEF CreateFails
      <3>2. QED
        BY <1>4, <2>1, <2>2, <3>1, PaidByFault DEF CreateFails
    <2>3. CASE nextId \notin Ids
      BY <1>4, <2>1, <2>3, PaidKept DEF CreateFails, LateCreates
    <2>4. QED
      BY <2>2, <2>3
  <1>5. ASSUME NEW p \in Procs, Dispose(p) \/ PingNotFound(p) \/ RunReturns(p)  PROVE Paid'
    BY <1>5, PaidKept DEF Dispose, PingNotFound, RunReturns, Goto, Leaked, Rows, LateCreates
  <1>6. ASSUME NEW p \in Procs, DisposeAnswers(p)  PROVE Paid'
    <2>1. row[p] \in Ids
      BY <1>6 DEF DisposeAnswers, TypeOK, WithRow
    <2>2. /\ table'[row[p]] = NoRow
          /\ \A m \in Ids : m # row[p] => table'[m] = table[m]
          /\ \A q \in Procs : q # p => row'[q] = row[q]
      BY <1>6, <2>1 DEF DisposeAnswers, RemoveRow, Exit, TypeOK
    <2>3. Leaked' \subseteq Leaked
      BY <2>1, <2>2 DEF Leaked, Rows
    <2>4. QED
      BY <1>6, <2>3, PaidKept DEF DisposeAnswers, LateCreates
  <1>7. ASSUME NEW p \in Procs, DisposeFails(p)  PROVE Paid'
    <2>1. Leaked' = Leaked /\ faults' = faults + 1
      BY <1>7 DEF DisposeFails, Goto, Fault, Leaked, Rows
    <2>2. row[p] \in Ids
      BY <1>7 DEF DisposeFails, TypeOK, WithRow
    <2>3. LateCreates' \subseteq LateCreates
      BY <1>7, <2>2, SameLate DEF DisposeFails
    <2>4. QED
      BY <2>1, <2>3, PaidKept
  <1>8. ASSUME NEW p \in Procs, NeverDisposed(p)  PROVE Paid'
    BY <1>8, ExitLeaks, PaidByFault DEF NeverDisposed, LateCreates
  <1>9. ASSUME NEW p \in Procs, Crash(p)  PROVE Paid'
    <2>1. CASE pc[p] = "create"
      <3>1. Leaked' \subseteq Leaked
        BY <1>9, <2>1, ExitLeaks DEF Crash, WithRow
      <3>2. LateCreates' \subseteq LateCreates \union {OwnRow(p)}
        BY <1>9, <2>1, MoreLate DEF Crash, Unanswered
      <3>3. QED
        BY <1>9, <3>1, <3>2, PaidByFault DEF Crash
    <2>2. CASE pc[p] # "create"
      <3>1. Leaked' \subseteq Leaked \union {row[p]}
        BY <1>9, ExitLeaks DEF Crash
      <3>2. pc[p] = "dispose" => row[p] \in Ids
        BY DEF TypeOK, WithRow
      <3>3. LateCreates' \subseteq LateCreates
        BY <1>9, <2>2, <3>2, SameLate DEF Crash, Unanswered
      <3>4. QED
        BY <1>9, <3>1, <3>3, PaidByFault DEF Crash
    <2>3. QED
      BY <2>1, <2>2
  <1>10. ASSUME NEW r \in Row, LateCreate(r)  PROVE Paid'
    <2>1. /\ row' = row /\ faults' = faults /\ r \in LateCreates
          /\ LateCreates' = LateCreates \ {r}
      BY <1>10 DEF LateCreate, local, LateCreates
    <2>2. \A m \in Ids : m # nextId => table'[m] = table[m]
      BY <1>10 DEF LateCreate, InsertRow, NoServerChange, TypeOK
    <2>3. Leaked' \subseteq Leaked \union {nextId}
      BY <2>1, <2>2 DEF Leaked, Rows
    <2>4. QED
      BY <2>1, <2>3, PaidByLateCreate
  <1>11. ASSUME NEW m \in Ids, LateDelete(m) \/ OperatorDeletes(m)  PROVE Paid'
    <2>1. row' = row /\ faults' = faults /\ late' \subseteq late /\ RemoveRow(m)
      BY <1>11 DEF LateDelete, OperatorDeletes, local
    <2>2. LateCreates' \subseteq LateCreates
      BY <2>1 DEF LateCreates
    <2>3. \A x \in Ids : table'[x] = IF x = m THEN NoRow ELSE table[x]
      BY <2>1 DEF RemoveRow, TypeOK
    <2>4. Leaked' \subseteq Leaked
      BY <2>1, <2>3 DEF Leaked, Rows
    <2>5. QED
      BY <2>1, <2>2, <2>4, PaidKept
  <1>12. CASE UNCHANGED vars
    BY <1>12, PaidKept DEF vars, local, Leaked, Rows, LateCreates
  <1>13. QED
    BY <1>1, <1>2, <1>3, <1>4, <1>5, <1>6, <1>7, <1>8, <1>9, <1>10, <1>11, <1>12
       DEF Next, Step

LEMMA InitPaid == Init => Paid
  <1>1. SUFFICES ASSUME Init  PROVE Paid
    OBVIOUS
  <1>2. Leaked = {} /\ LateCreates = {} /\ faults = 0
    BY <1>1 DEF Init, Leaked, Rows, LateCreates
  <1>3. QED
    BY <1>2, FS_EmptySet DEF Paid

\* Each leaked row is owed to a crash, a failed call or a shutdown without Dispose
\* of its own, for any number of processes, machines and restarts.
THEOREM LeaksPaid == Spec => []LeaksCounted
  <1>1. Init => Inv
    BY InitType, InitHands, InitPaid DEF Inv
  <1>2. Inv /\ [Next]_vars => Inv'
    BY NextType, NextHands, NextPaid DEF Inv
  <1>3. Inv => LeaksCounted
    BY CountsAreNat DEF Inv, Paid, LeaksCounted
  <1>4. QED
    BY <1>1, <1>2, <1>3, PTL DEF Spec
=============================================================================
