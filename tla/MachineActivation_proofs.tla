----------------------- MODULE MachineActivation_proofs -----------------------
(***************************************************************************)
(* Theorems about MachineActivation, for any number of installations,      *)
(* licenses and rows, any uniqueness strategy, any limits and page size.   *)
(***************************************************************************)
EXTENDS MachineActivation, TLAPS, FiniteSetTheorems, WellFoundedInduction

LEMMA OwnRowType ==
  ASSUME NEW c \in Clients
  PROVE  OwnRow(c) \in Row /\ OwnRow(c) # NoRow
  BY ConfigOK DEF OwnRow, Row, NoRow

LEMMA SeatsAreIds ==
  ASSUME NEW l
  PROVE  SeatsOf(l) \subseteq Ids
  BY DEF SeatsOf

LEMMA NamedType ==
  ASSUME NEW c \in Clients, NEW m \in NamedBy409(c)
  PROVE  m \in Ids \union {None}
  BY DEF NamedBy409, SeatsOf

LEMMA MatchIsOwn ==
  ASSUME TypeOK, NEW c \in Clients, NEW n, NEW m \in ExactMatches(c, n)
  PROVE  m \in Ids /\ table[m] = OwnRow(c)
  <1>1. m \in Ids /\ table[m].lic = LicenseOf[c] /\ table[m].fp = FingerprintOf[c]
    BY DEF ExactMatches, PageOf, Listed, SeatsOf
  <1>2. table[m] \in Row
    BY <1>1, ConfigOK DEF TypeOK, NoRow
  <1>3. QED
    BY <1>1, <1>2 DEF Row, OwnRow

(* What the helpers of the flows do to the types. *)

LEMMA GotoType ==
  ASSUME TypeOK, NEW c \in Clients, NEW label \in PCs,
         NEW m \in Ids \union {None}, label \in WithMachine => m \in Ids,
         Goto(c, label, m)
  PROVE  /\ pc' \in [Clients -> PCs] /\ mach' \in [Clients -> Ids \union {None}]
         /\ \A x \in Clients : pc'[x] \in WithMachine => mach'[x] \in Ids
         /\ page' \in [Clients -> Nat] /\ idem' \in [Clients -> BOOLEAN]
         /\ held' \in [Clients -> Ids \union {None}]
         /\ outcome' \in [Clients -> Outcomes] /\ excused' \subseteq Ids
  <1>1. idem' = idem /\ held' = held /\ outcome' = outcome /\ excused' = excused
    BY DEF Goto, app
  <1>2. /\ pc' \in [Clients -> PCs] /\ mach' \in [Clients -> Ids \union {None}]
        /\ \A x \in Clients : pc'[x] \in WithMachine => mach'[x] \in Ids
    BY DEF Goto, TypeOK
  <1>3. page' \in [Clients -> Nat]
    BY DEF Goto, TypeOK
  <1>4. QED
    BY <1>1, <1>2, <1>3 DEF TypeOK

LEMMA EndFlowType ==
  ASSUME TypeOK, NEW c \in Clients, NEW m \in Ids \union {None},
         NEW o \in Outcomes, EndFlow(c, m, o)
  PROVE  /\ pc' \in [Clients -> PCs] /\ mach' \in [Clients -> Ids \union {None}]
         /\ \A x \in Clients : pc'[x] \in WithMachine => mach'[x] \in Ids
         /\ page' \in [Clients -> Nat] /\ idem' \in [Clients -> BOOLEAN]
         /\ held' \in [Clients -> Ids \union {None}]
         /\ outcome' \in [Clients -> Outcomes]
  BY DEF EndFlow, TypeOK, PCs, WithMachine

LEMMA ReturnType ==
  ASSUME TypeOK, NEW c \in Clients, NEW m \in Ids \union {None},
         NEW o \in Outcomes, NEW leaving, Return(c, m, o, leaving)
  PROVE  /\ pc' \in [Clients -> PCs] /\ mach' \in [Clients -> Ids \union {None}]
         /\ \A x \in Clients : pc'[x] \in WithMachine => mach'[x] \in Ids
         /\ page' \in [Clients -> Nat] /\ idem' \in [Clients -> BOOLEAN]
         /\ held' \in [Clients -> Ids \union {None}]
         /\ outcome' \in [Clients -> Outcomes] /\ excused' \subseteq Ids
  BY EndFlowType DEF Return, Excuse

LEMMA TableTypes ==
  ASSUME TypeOK
  PROVE  /\ \A m \in Ids : RemoveRow(m) =>
              table' \in [Ids -> Row \union {NoRow}] /\ nextId' \in 1..(MaxIds + 1)
                /\ steady' \subseteq Clients
         /\ \A c \in Clients : InsertRow(c) /\ nextId \in Ids =>
              table' \in [Ids -> Row \union {NoRow}] /\ nextId' \in 1..(MaxIds + 1)
  <1>1. ASSUME NEW m \in Ids, RemoveRow(m)
        PROVE  /\ table' \in [Ids -> Row \union {NoRow}] /\ nextId' \in 1..(MaxIds + 1)
               /\ steady' \subseteq Clients
    BY <1>1 DEF RemoveRow, TypeOK
  <1>2. ASSUME NEW c \in Clients, InsertRow(c), nextId \in Ids
        PROVE  table' \in [Ids -> Row \union {NoRow}] /\ nextId' \in 1..(MaxIds + 1)
    BY <1>2, OwnRowType, ConfigOK DEF InsertRow, TypeOK, Ids
  <1>3. QED
    BY <1>1, <1>2

LEMMA StepKeepsTypes ==
  ASSUME TypeOK, [Next]_vars
  PROVE  TypeOK'
  <1>1. ASSUME NEW c \in Clients, NEW b \in BOOLEAN, Activate(c, b)
        PROVE  TypeOK'
    <2>1. pc' \in [Clients -> PCs] /\ outcome' \in [Clients -> Outcomes]
      BY <1>1 DEF Activate, TypeOK, PCs, Outcomes
    <2>2. idem' \in [Clients -> BOOLEAN]
      BY <1>1 DEF Activate, TypeOK
    <2>3. \A x \in Clients : pc'[x] \in WithMachine => mach'[x] \in Ids
      BY <1>1 DEF Activate, TypeOK, WithMachine
    <2>4. QED
      BY <1>1, <2>1, <2>2, <2>3 DEF Activate, TypeOK
  <1>2. ASSUME NEW c \in Clients, CreateSucceeds(c)
        PROVE  TypeOK'
    BY <1>2, GotoType, TableTypes DEF CreateSucceeds, CanCreate, TypeOK, PCs
  <1>3. ASSUME NEW c \in Clients, CreateRefused(c)
        PROVE  TypeOK'
    BY <1>3, ReturnType DEF CreateRefused, NoServerChange, TypeOK, Outcomes
  <1>4. ASSUME NEW c \in Clients, CreateConflicts(c)
        PROVE  TypeOK'
    BY <1>4, ReturnType DEF CreateConflicts, NoServerChange, TypeOK, Outcomes
  <1>5. ASSUME NEW c \in Clients, CreateConflictResolved(c)
        PROVE  TypeOK'
    <2>1. PICK m \in NamedBy409(c) : Goto(c, IF m = None THEN "search" ELSE "get", m)
      BY <1>5 DEF CreateConflictResolved
    <2>2. m \in Ids \union {None}
      BY NamedType
    <2>3. steady' \subseteq Clients
      BY <1>5 DEF CreateConflictResolved, TypeOK
    <2>4. /\ (IF m = None THEN "search" ELSE "get") \in PCs
          /\ (IF m = None THEN "search" ELSE "get") \in WithMachine => m \in Ids
      BY <2>2 DEF PCs, WithMachine
    <2>5. QED
      BY <1>5, <2>1, <2>2, <2>3, <2>4, GotoType DEF CreateConflictResolved, TypeOK
  <1>6. ASSUME NEW c \in Clients, CreateFails(c)
        PROVE  TypeOK'
    <2>1. late' \subseteq LateCall
      BY <1>6 DEF CreateFails, TypeOK, LateCall
    <2>2. faults' \in 0..MaxFaults
      BY <1>6, ConfigOK DEF CreateFails, Fault, TypeOK
    <2>3. QED
      BY <1>6, <2>1, <2>2, ReturnType DEF CreateFails, NoServerChange, TypeOK, Outcomes
  <1>7. ASSUME NEW c \in Clients, ValidateAnswers(c)
        PROVE  TypeOK'
    <2>1. mach[c] \in Ids
      BY <1>7 DEF ValidateAnswers, At, TypeOK, WithMachine
    <2>2. CASE Goto(c, "rollback", mach[c])
      <3>1. "rollback" \in PCs
        BY DEF PCs
      <3>2. QED
        BY <1>7, <2>1, <2>2, <3>1, GotoType DEF ValidateAnswers, NoServerChange, TypeOK
    <2>3. ASSUME NEW o \in {"granted", "invalid"}, Return(c, mach[c], o, {})
          PROVE  TypeOK'
      <3>1. o \in Outcomes
        BY DEF Outcomes
      <3>2. QED
        BY <1>7, <2>1, <2>3, <3>1, ReturnType DEF ValidateAnswers, NoServerChange, TypeOK
    <2>4. QED
      BY <1>7, <2>2, <2>3 DEF ValidateAnswers
  <1>8. ASSUME NEW c \in Clients, ValidateFails(c) \/ RevalidateFails(c)
        PROVE  TypeOK'
    <2>1. mach[c] \in Ids \union {None} /\ faults' \in 0..MaxFaults
      BY <1>8, ConfigOK DEF ValidateFails, RevalidateFails, Fault, TypeOK
    <2>2. QED
      BY <1>8, <2>1, ReturnType
      DEF ValidateFails, RevalidateFails, NoServerChange, TypeOK, Outcomes
  <1>9. ASSUME NEW c \in Clients, RollbackDone(c)
        PROVE  TypeOK'
    <2>1. mach[c] \in Ids
      BY <1>9 DEF RollbackDone, At, TypeOK, WithMachine
    <2>2. QED
      BY <1>9, <2>1, ReturnType, TableTypes DEF RollbackDone, TypeOK, Outcomes
  <1>10. ASSUME NEW c \in Clients, RollbackFails(c)
         PROVE  TypeOK'
    <2>1. late' \subseteq LateCall
      BY <1>10 DEF RollbackFails, At, TypeOK, LateCall, WithMachine
    <2>2. QED
      BY <1>10, <2>1, ConfigOK, ReturnType
      DEF RollbackFails, NoServerChange, Fault, TypeOK, Outcomes
  <1>11. ASSUME NEW c \in Clients, GetAnswers(c)
         PROVE  TypeOK'
    <2>1. "revalidate" \in PCs /\ "search" \in PCs /\ "search" \notin WithMachine
      BY DEF PCs, WithMachine
    <2>2. mach[c] \in Ids
      BY <1>11 DEF GetAnswers, At, TypeOK, WithMachine
    <2>3. QED
      BY <1>11, <2>1, <2>2, GotoType DEF GetAnswers, TypeOK
  <1>12. ASSUME NEW c \in Clients, SearchHits(c)
         PROVE  TypeOK'
    <2>1. "revalidate" \in PCs
      BY DEF PCs
    <2>2. QED
      BY <1>12, <2>1, MatchIsOwn, GotoType DEF SearchHits, TypeOK
  <1>13. ASSUME NEW c \in Clients, SearchMisses(c)
         PROVE  TypeOK'
    <2>1. CASE NextPage(c)
      BY <1>13, <2>1 DEF SearchMisses, NextPage, NoServerChange, app, TypeOK
    <2>2. CASE Return(c, None, "taken", {})
      <3>1. "taken" \in Outcomes
        BY DEF Outcomes
      <3>2. QED
        BY <1>13, <2>2, <3>1, ReturnType DEF SearchMisses, NoServerChange, TypeOK
    <2>3. QED
      BY <1>13, <2>1, <2>2 DEF SearchMisses
  <1>14. ASSUME NEW c \in Clients, LookupFails(c)
         PROVE  TypeOK'
    <2>1. "error" \in Outcomes
      BY DEF Outcomes
    <2>2. QED
      BY <1>14, <2>1, ConfigOK, ReturnType DEF LookupFails, NoServerChange, Fault, TypeOK
  <1>15. ASSUME NEW c \in Clients, RevalidateAnswers(c)
         PROVE  TypeOK'
    <2>1. PICK o \in {"overLimit", "granted", "invalid"} : Return(c, mach[c], o, {})
      BY <1>15 DEF RevalidateAnswers
    <2>2. o \in Outcomes /\ mach[c] \in Ids \union {None}
      BY DEF Outcomes, TypeOK
    <2>3. QED
      BY <1>15, <2>1, <2>2, ReturnType DEF RevalidateAnswers, NoServerChange, TypeOK
  <1>16. ASSUME NEW c \in Clients,
                Deactivate(c) \/ DeactivateFails(c) \/ LearnsRowIsGone(c)
         PROVE  TypeOK'
    <2>1. CASE Deactivate(c)
      <3>1. held[c] \in Ids
        BY <2>1 DEF Deactivate, TypeOK
      <3>2. held' \in [Clients -> Ids \union {None}] /\ outcome' \in [Clients -> Outcomes]
        BY <2>1 DEF Deactivate, Forget, TypeOK, Outcomes
      <3>3. QED
        BY <2>1, <3>1, <3>2, TableTypes DEF Deactivate, Excuse, flow, TypeOK
    <2>2. CASE DeactivateFails(c)
      <3>1. held[c] \in Ids
        BY <2>2 DEF DeactivateFails, TypeOK
      <3>2. late' \subseteq LateCall
        BY <2>2, <3>1 DEF DeactivateFails, TypeOK, LateCall
      <3>3. QED
        BY <2>2, <3>2, ConfigOK DEF DeactivateFails, Fault, flow, app, TypeOK
    <2>3. CASE LearnsRowIsGone(c)
      BY <2>3 DEF LearnsRowIsGone, Forget, flow, TypeOK, Outcomes
    <2>4. QED
      BY <1>16, <2>1, <2>2, <2>3
  <1>17. ASSUME NEW c \in Clients, Crash(c)
         PROVE  TypeOK'
    <2>1. late' \subseteq LateCall
      BY <1>17 DEF Crash, Unanswered, At, TypeOK, LateCall, WithMachine
    <2>2. "none" \in Outcomes
      BY DEF Outcomes
    <2>3. excused' \subseteq Ids /\ steady' \subseteq Clients
      BY <1>17 DEF Crash, Excuse, TypeOK
    <2>4. QED
      BY <1>17, <2>1, <2>2, <2>3, ConfigOK, EndFlowType
      DEF Crash, NoServerChange, Fault, TypeOK
  <1>18. ASSUME NEW c \in Clients, LateCreate(c)
         PROVE  TypeOK'
    <2>1. table' \in [Ids -> Row \union {NoRow}] /\ nextId' \in 1..(MaxIds + 1)
            /\ excused' \subseteq Ids
      BY <1>18, TableTypes DEF LateCreate, CanCreate, Excuse, TypeOK
    <2>2. QED
      BY <1>18, <2>1 DEF LateCreate, flow, app, TypeOK
  <1>19. ASSUME NEW m \in Ids, LateDelete(m) \/ Cull(m)
         PROVE  TypeOK'
    BY <1>19, TableTypes DEF LateDelete, Cull, Excuse, flow, app, TypeOK
  <1>20. CASE UNCHANGED vars
    BY <1>20 DEF vars, flow, app, TypeOK
  <1>21. QED
    BY <1>1, <1>2, <1>3, <1>4, <1>5, <1>6, <1>7, <1>8, <1>9, <1>10, <1>11, <1>12,
       <1>13, <1>14, <1>15, <1>16, <1>17, <1>18, <1>19, <1>20
    DEF Next, Flow

-----------------------------------------------------------------------------
(* What one step can do to the table, to an application and to a flow.     *)

TableStep ==
  \/ table' = table /\ nextId' = nextId
  \/ \E m \in Ids : table' = [table EXCEPT ![m] = NoRow] /\ nextId' = nextId
  \/ \E c \in Clients : CanCreate(c) /\ InsertRow(c)

Validating(c) ==
  /\ pc[c] \in {"validate", "revalidate"} /\ held'[c] = mach[c]
  /\ table' = table /\ nextId' = nextId
  /\ outcome'[c] = "granted" => "VALID" \in Verdicts(LicenseOf[c])

AppStep(c) ==
  \/ held'[c] = held[c] /\ (outcome'[c] = "granted" => outcome[c] = "granted")
  \/ held'[c] = None
  \/ Validating(c)

FlowStep(c) ==
  \/ pc'[c] \notin WithMachine /\ mach'[c] \in {None, mach[c]}
  \/ pc'[c] = pc[c] /\ mach'[c] = mach[c]
  \/ pc[c] = "validate" /\ pc'[c] = "rollback" /\ mach'[c] = mach[c]
  \/ pc'[c] = "validate" /\ mach'[c] = nextId /\ nextId \in Ids /\ InsertRow(c)
  \/ /\ pc'[c] = "get" /\ mach'[c] \in SeatsOf(LicenseOf[c])
     /\ table' = table /\ nextId' = nextId
  \/ /\ pc'[c] = "revalidate" /\ mach'[c] \in Ids /\ table[mach'[c]] = OwnRow(c)
     /\ table' = table /\ nextId' = nextId
  \/ /\ pc[c] = "get" /\ pc'[c] = "revalidate" /\ mach'[c] = mach[c]
     /\ IsNamedRow(c, mach[c]) /\ table' = table /\ nextId' = nextId

LEMMA StepsOfTable ==
  ASSUME TypeOK, [Next]_vars
  PROVE  TableStep
  <1>1. ASSUME NEW c \in Clients, Flow(c)
        PROVE  TableStep
    <2>1. ASSUME RollbackDone(c)
          PROVE  mach[c] \in Ids
      BY <2>1 DEF RollbackDone, At, TypeOK, WithMachine
    <2>2. QED
      BY <1>1, <2>1
      DEF Flow, CreateSucceeds, CreateRefused, CreateConflicts, CreateConflictResolved,
          CreateFails, ValidateAnswers, ValidateFails, RollbackDone, RollbackFails,
          GetAnswers, SearchHits, SearchMisses, LookupFails, RevalidateAnswers,
          RevalidateFails, NoServerChange, RemoveRow, CanCreate, TableStep
  <1>2. ASSUME NEW c \in Clients, Deactivate(c)
        PROVE  TableStep
    <2>1. held[c] \in Ids
      BY <1>2 DEF Deactivate, TypeOK
    <2>2. QED
      BY <1>2, <2>1 DEF Deactivate, RemoveRow, TableStep
  <1>3. ASSUME NEW c \in Clients, LateCreate(c)
        PROVE  TableStep
    BY <1>3 DEF LateCreate, CanCreate, TableStep
  <1>4. ASSUME NEW c \in Clients,
               \/ \E b \in BOOLEAN : Activate(c, b)
               \/ DeactivateFails(c) \/ LearnsRowIsGone(c) \/ Crash(c)
        PROVE  TableStep
    BY <1>4 DEF Activate, DeactivateFails, LearnsRowIsGone, Crash, NoServerChange, TableStep
  <1>5. ASSUME NEW m \in Ids, LateDelete(m) \/ Cull(m)
        PROVE  TableStep
    BY <1>5 DEF LateDelete, Cull, RemoveRow, TableStep
  <1>6. CASE UNCHANGED vars
    BY <1>6 DEF vars, TableStep
  <1>7. QED
    BY <1>1, <1>2, <1>3, <1>4, <1>5, <1>6 DEF Next

\* What the two ways out of a call do to the clients.
LEMMA GotoEffect ==
  ASSUME TypeOK, NEW c \in Clients, NEW label, NEW m, Goto(c, label, m)
  PROVE  /\ held' = held /\ outcome' = outcome
         /\ pc'[c] = label /\ mach'[c] = m
         /\ \A x \in Clients \ {c} : pc'[x] = pc[x] /\ mach'[x] = mach[x]
  BY DEF Goto, app, TypeOK

LEMMA EndFlowEffect ==
  ASSUME TypeOK, NEW c \in Clients, NEW m, NEW o, EndFlow(c, m, o)
  PROVE  /\ held'[c] = m /\ outcome'[c] = o /\ pc'[c] = "idle" /\ mach'[c] = None
         /\ \A x \in Clients \ {c} : /\ held'[x] = held[x] /\ outcome'[x] = outcome[x]
                                     /\ pc'[x] = pc[x] /\ mach'[x] = mach[x]
  BY DEF EndFlow, TypeOK

LEMMA StepsOfApp ==
  ASSUME TypeOK, [Next]_vars, NEW x \in Clients
  PROVE  AppStep(x)
  <1>1. ASSUME NEW c \in Clients, NEW label, NEW m, Goto(c, label, m)
        PROVE  AppStep(x)
    BY <1>1, GotoEffect DEF AppStep
  <1>2. ASSUME NEW c \in Clients, NEW o, NEW leaving, Return(c, None, o, leaving)
        PROVE  AppStep(x)
    BY <1>2, EndFlowEffect DEF AppStep, Return
  <1>3. ASSUME NEW c \in Clients, ValidateAnswers(c) \/ RevalidateAnswers(c)
        PROVE  AppStep(x)
    <2>1. CASE x # c
      BY <1>1, <1>3, <2>1, EndFlowEffect DEF ValidateAnswers, RevalidateAnswers, Return, AppStep
    <2>2. CASE x = c
      <3>1. CASE Goto(c, "rollback", mach[c])
        BY <1>1, <3>1
      <3>2. ASSUME NEW code \in Verdicts(LicenseOf[c]), NEW o, Return(c, mach[c], o, {}),
                   o = "granted" => code = "VALID"
            PROVE  AppStep(x)
        <4>1. held'[c] = mach[c] /\ outcome'[c] = o
          BY <3>2, EndFlowEffect DEF Return
        <4>2. /\ pc[c] \in {"validate", "revalidate"}
              /\ table' = table /\ nextId' = nextId
          BY <1>3 DEF ValidateAnswers, RevalidateAnswers, NoServerChange, At
        <4>3. Validating(c)
          BY <3>2, <4>1, <4>2 DEF Validating
        <4>4. QED
          BY <2>2, <4>3 DEF AppStep
      <3>3. CASE ValidateAnswers(c)
        <4>1. PICK code \in Verdicts(LicenseOf[c]) :
                IF IsOverageCode(code) THEN Goto(c, "rollback", mach[c])
                ELSE Return(c, mach[c], IF code = "VALID" THEN "granted" ELSE "invalid", {})
          BY <3>3 DEF ValidateAnswers
        <4>2. (IF code = "VALID" THEN "granted" ELSE "invalid") = "granted" => code = "VALID"
          OBVIOUS
        <4>3. QED
          BY <3>1, <3>2, <4>1, <4>2
      <3>4. CASE RevalidateAnswers(c)
        <4>1. PICK code \in Verdicts(LicenseOf[c]), o \in {"overLimit", "granted", "invalid"} :
                Return(c, mach[c], o, {}) /\ (o = "granted" => code = "VALID")
          BY <3>4 DEF RevalidateAnswers
        <4>2. QED
          BY <3>2, <4>1
      <3>5. QED
        BY <1>3, <3>3, <3>4
    <2>3. QED
      BY <2>1, <2>2
  <1>4. ASSUME NEW c \in Clients, ValidateFails(c) \/ RevalidateFails(c)
        PROVE  AppStep(x)
    BY <1>4, EndFlowEffect
    DEF ValidateFails, RevalidateFails, Return, NoServerChange, Validating, AppStep, At
  <1>5. ASSUME NEW c \in Clients, Flow(c)
        PROVE  AppStep(x)
    <2>1. CASE SearchMisses(c)
      BY <1>2, <2>1 DEF SearchMisses, NextPage, app, AppStep
    <2>2. CASE CreateSucceeds(c) \/ CreateConflictResolved(c) \/ GetAnswers(c) \/ SearchHits(c)
      BY <1>1, <2>2 DEF CreateSucceeds, CreateConflictResolved, GetAnswers, SearchHits
    <2>3. CASE CreateRefused(c) \/ CreateConflicts(c) \/ CreateFails(c) \/ RollbackDone(c)
                 \/ RollbackFails(c) \/ LookupFails(c)
      BY <1>2, <2>3
      DEF CreateRefused, CreateConflicts, CreateFails, RollbackDone, RollbackFails, LookupFails
    <2>4. QED
      BY <1>3, <1>4, <1>5, <2>1, <2>2, <2>3 DEF Flow
  <1>6. ASSUME NEW c \in Clients,
               Deactivate(c) \/ DeactivateFails(c) \/ LearnsRowIsGone(c) \/ LateCreate(c)
        PROVE  AppStep(x)
    BY <1>6 DEF Deactivate, DeactivateFails, LearnsRowIsGone, LateCreate, Forget, app,
                TypeOK, AppStep
  <1>7. ASSUME NEW c \in Clients, (\E b \in BOOLEAN : Activate(c, b)) \/ Crash(c)
        PROVE  AppStep(x)
    BY <1>7, EndFlowEffect DEF Activate, Crash, TypeOK, AppStep
  <1>8. ASSUME NEW m \in Ids, LateDelete(m) \/ Cull(m)
        PROVE  AppStep(x)
    BY <1>8 DEF LateDelete, Cull, app, AppStep
  <1>9. CASE UNCHANGED vars
    BY <1>9 DEF vars, app, AppStep
  <1>10. QED
    BY <1>5, <1>6, <1>7, <1>8, <1>9 DEF Next

LEMMA StepsOfFlow ==
  ASSUME TypeOK, [Next]_vars, NEW x \in Clients
  PROVE  FlowStep(x)
  <1>1. ASSUME NEW c \in Clients, c # x, pc'[x] = pc[x], mach'[x] = mach[x]
        PROVE  FlowStep(x)
    BY <1>1 DEF FlowStep
  <1>2. ASSUME NEW c \in Clients, NEW m, NEW o, EndFlow(c, m, o)
        PROVE  FlowStep(x)
    BY <1>2, EndFlowEffect DEF FlowStep, WithMachine
  <1>3. ASSUME NEW c \in Clients, Flow(c)
        PROVE  FlowStep(x)
    <2>1. CASE CreateSucceeds(c)
      BY <2>1, GotoEffect DEF CreateSucceeds, CanCreate, FlowStep
    <2>2. CASE CreateConflictResolved(c)
      <3>1. PICK m \in NamedBy409(c) : Goto(c, IF m = None THEN "search" ELSE "get", m)
        BY <2>2 DEF CreateConflictResolved
      <3>2. m = None \/ m \in SeatsOf(LicenseOf[c])
        BY <3>1 DEF NamedBy409
      <3>3. table' = table /\ nextId' = nextId
        BY <2>2 DEF CreateConflictResolved
      <3>4. CASE m = None
        BY <3>1, <3>4, GotoEffect DEF FlowStep, WithMachine
      <3>5. CASE m # None
        BY <3>1, <3>2, <3>3, <3>5, GotoEffect DEF FlowStep
      <3>6. QED
        BY <3>4, <3>5
    <2>3. CASE ValidateAnswers(c)
      BY <1>2, <2>3, GotoEffect DEF ValidateAnswers, Return, FlowStep, At
    <2>4. CASE GetAnswers(c)
      BY <2>4, GotoEffect DEF GetAnswers, FlowStep, WithMachine, At
    <2>5. CASE SearchHits(c)
      BY <2>5, MatchIsOwn, GotoEffect DEF SearchHits, FlowStep
    <2>6. CASE SearchMisses(c)
      BY <1>2, <2>6 DEF SearchMisses, NextPage, Return, FlowStep
    <2>7. CASE \/ CreateRefused(c) \/ CreateConflicts(c) \/ CreateFails(c)
               \/ ValidateFails(c) \/ RollbackDone(c) \/ RollbackFails(c)
               \/ LookupFails(c) \/ RevalidateAnswers(c) \/ RevalidateFails(c)
      BY <1>2, <2>7
      DEF CreateRefused, CreateConflicts, CreateFails, ValidateFails, RollbackDone,
          RollbackFails, LookupFails, RevalidateAnswers, RevalidateFails, Return
    <2>8. QED
      BY <1>3, <2>1, <2>2, <2>3, <2>4, <2>5, <2>6, <2>7 DEF Flow
  <1>4. ASSUME NEW c \in Clients,
               \/ \E b \in BOOLEAN : Activate(c, b)
               \/ Deactivate(c) \/ DeactivateFails(c) \/ LearnsRowIsGone(c)
               \/ Crash(c) \/ LateCreate(c)
        PROVE  FlowStep(x)
    BY <1>2, <1>4
    DEF Activate, Deactivate, DeactivateFails, LearnsRowIsGone, Crash, LateCreate, flow,
        TypeOK, FlowStep, WithMachine
  <1>5. ASSUME NEW m \in Ids, LateDelete(m) \/ Cull(m)
        PROVE  FlowStep(x)
    BY <1>5 DEF LateDelete, Cull, flow, FlowStep
  <1>6. CASE UNCHANGED vars
    BY <1>6 DEF vars, flow, FlowStep
  <1>7. QED
    BY <1>3, <1>4, <1>5, <1>6 DEF Next

-----------------------------------------------------------------------------
(* The inductive invariant.                                                *)

LEMMA InitInv == Init => Inv
  <1> SUFFICES ASSUME Init PROVE Inv
    OBVIOUS
  <1>1. TypeOK
    BY ConfigOK DEF Init, TypeOK, PCs, Outcomes, Ids, WithMachine
  <1>2. Rows = {} /\ FreshIds /\ FlowOwnsItsMachine /\ HoldsOwnSeat
    BY ConfigOK DEF Init, Rows, FreshIds, FlowOwnsItsMachine, HoldsOwnSeat
  <1>3. \A l \in Licenses : GrantedSeats(l) = {}
    BY <1>2, ConfigOK DEF Init, GrantedSeats, SeatsOf, NoRow
  <1>4. SeatsWithinLimit
    <2>1. Cardinality({}) = 0
      BY FS_EmptySet
    <2>2. \A l \in Licenses : Cardinality(GrantedSeats(l)) = 0
      BY <1>3, <2>1
    <2>3. \A l \in Licenses : SeatLimit[l] \in Nat
      BY ConfigOK
    <2>4. QED
      BY <2>2, <2>3 DEF SeatsWithinLimit
  <1>5. QED
    BY <1>1, <1>2, <1>4 DEF Inv

LEMMA RowsOnlyFromFreshIds ==
  ASSUME Inv, TableStep
  PROVE  /\ nextId' \in Nat /\ nextId' >= nextId
         /\ \A m \in Ids : m < nextId /\ table'[m] # NoRow => table'[m] = table[m]
         /\ \A m \in Ids : m >= nextId' => table'[m] = NoRow
  <1>1. CASE table' = table /\ nextId' = nextId
    BY <1>1, ConfigOK DEF Inv, TypeOK, FreshIds
  <1>2. CASE \E m \in Ids : table' = [table EXCEPT ![m] = NoRow] /\ nextId' = nextId
    BY <1>2, ConfigOK DEF Inv, TypeOK, FreshIds
  <1>3. CASE \E c \in Clients : CanCreate(c) /\ InsertRow(c)
    BY <1>3, ConfigOK DEF Inv, TypeOK, FreshIds, CanCreate, InsertRow, Ids
  <1>4. QED
    BY <1>1, <1>2, <1>3 DEF TableStep

LEMMA StepKeepsFreshIds ==
  ASSUME Inv, [Next]_vars
  PROVE  FreshIds'
  <1>1. TypeOK /\ FreshIds /\ TableStep
    BY StepsOfTable DEF Inv
  <1>2. nextId \in Nat /\ nextId' \in Nat /\ nextId' >= nextId
    BY <1>1, RowsOnlyFromFreshIds, ConfigOK DEF TypeOK
  <1>3. ASSUME NEW c \in Clients, held'[c] \in Ids
        PROVE  held'[c] < nextId'
    <2>1. held'[c] = held[c] \/ held'[c] = mach[c]
      BY <1>1, <1>3, StepsOfApp, ConfigOK DEF AppStep, Validating
    <2>2. QED
      BY <1>1, <1>2, <1>3, <2>1 DEF FreshIds, Ids
  <1>4. ASSUME NEW c \in Clients, mach'[c] \in Ids
        PROVE  mach'[c] < nextId'
    <2>1. FlowStep(c)
      BY <1>1, StepsOfFlow
    <2>2. CASE mach'[c] = mach[c]
      BY <1>1, <1>2, <1>4, <2>2 DEF FreshIds, Ids
    <2>3. CASE mach'[c] = nextId /\ nextId \in Ids /\ (\E x \in Clients : InsertRow(x))
      BY <1>2, <2>3 DEF InsertRow
    <2>4. CASE mach'[c] \in Ids /\ table[mach'[c]] # NoRow
      BY <1>1, <1>2, <2>4 DEF FreshIds, Ids
    <2>5. ASSUME mach'[c] \in SeatsOf(LicenseOf[c]) PROVE table[mach'[c]] # NoRow
      BY <2>5, ConfigOK DEF SeatsOf, NoRow
    <2>6. OwnRow(c) # NoRow
      BY OwnRowType
    <2>7. QED
      BY <1>4, <2>1, <2>2, <2>3, <2>4, <2>5, <2>6, ConfigOK DEF FlowStep
  <1>5. QED
    BY <1>1, <1>3, <1>4, RowsOnlyFromFreshIds DEF FreshIds

LEMMA StepKeepsFlowOwnsItsMachine ==
  ASSUME Inv, [Next]_vars
  PROVE  FlowOwnsItsMachine'
  <1>1. TypeOK /\ FreshIds /\ FlowOwnsItsMachine /\ TableStep
    BY StepsOfTable DEF Inv
  <1>2. SUFFICES ASSUME NEW c \in Clients, mach'[c] \in Rows'
        PROVE  /\ pc'[c] \in {"validate", "rollback", "revalidate"} =>
                     table'[mach'[c]] = OwnRow(c)
               /\ pc'[c] = "get" => table'[mach'[c]].lic = LicenseOf[c]
    BY DEF FlowOwnsItsMachine, OwnRow
  <1> DEFINE m == mach'[c]
  <1>3. m \in Ids /\ table'[m] # NoRow
    BY <1>2 DEF Rows
  <1>4. ASSUME m = mach[c]
        PROVE  mach[c] \in Rows /\ table'[m] = table[m]
    <2>1. m < nextId
      BY <1>1, <1>3, <1>4 DEF FreshIds
    <2>2. table'[m] = table[m]
      BY <1>1, <1>3, <2>1, RowsOnlyFromFreshIds
    <2>3. QED
      BY <1>3, <1>4, <2>2 DEF Rows
  <1>5. FlowStep(c)
    BY <1>1, StepsOfFlow
  <1>6. CASE pc'[c] \notin WithMachine
    BY <1>6 DEF WithMachine
  <1>7. CASE pc'[c] = pc[c] /\ mach'[c] = mach[c]
    BY <1>1, <1>4, <1>7 DEF FlowOwnsItsMachine
  <1>8. CASE pc[c] = "validate" /\ pc'[c] = "rollback" /\ mach'[c] = mach[c]
    BY <1>1, <1>4, <1>8 DEF FlowOwnsItsMachine
  <1>9. CASE pc'[c] = "validate" /\ mach'[c] = nextId /\ nextId \in Ids /\ InsertRow(c)
    BY <1>1, <1>9 DEF InsertRow, TypeOK
  <1>10. CASE pc'[c] = "get" /\ mach'[c] \in SeatsOf(LicenseOf[c]) /\ table' = table
    BY <1>10 DEF SeatsOf
  <1>11. CASE pc'[c] = "revalidate" /\ table[mach'[c]] = OwnRow(c) /\ table' = table
    BY <1>11
  <1>12. CASE /\ pc[c] = "get" /\ pc'[c] = "revalidate" /\ mach'[c] = mach[c]
              /\ IsNamedRow(c, mach[c])
    <2>1. table[m].fp = FingerprintOf[c] /\ table[m].lic = LicenseOf[c]
      BY <1>1, <1>4, <1>12 DEF FlowOwnsItsMachine, IsNamedRow
    <2>2. table[m] \in Row
      BY <1>1, <1>3, <1>4, <1>12 DEF TypeOK
    <2>3. QED
      BY <1>4, <1>12, <2>1, <2>2 DEF Row, OwnRow
  <1>13. QED
    BY <1>3, <1>5, <1>6, <1>7, <1>8, <1>9, <1>10, <1>11, <1>12 DEF FlowStep

LEMMA StepKeepsHoldsOwnSeat ==
  ASSUME Inv, [Next]_vars
  PROVE  HoldsOwnSeat'
  <1>1. TypeOK /\ FreshIds /\ FlowOwnsItsMachine /\ HoldsOwnSeat /\ TableStep
    BY StepsOfTable DEF Inv
  <1>2. SUFFICES ASSUME NEW c \in Clients, held'[c] \in Rows'
        PROVE  table'[held'[c]] = OwnRow(c)
    BY DEF HoldsOwnSeat, OwnRow
  <1>3. held'[c] \in Ids /\ table'[held'[c]] # NoRow
    BY <1>2 DEF Rows
  <1>4. CASE held'[c] = held[c]
    <2>1. held[c] < nextId
      BY <1>1, <1>3, <1>4 DEF FreshIds
    <2>2. table'[held[c]] = table[held[c]]
      BY <1>1, <1>3, <1>4, <2>1, RowsOnlyFromFreshIds
    <2>3. QED
      BY <1>1, <1>3, <1>4, <2>2 DEF HoldsOwnSeat, Rows
  <1>5. CASE Validating(c)
    BY <1>1, <1>3, <1>5 DEF Validating, FlowOwnsItsMachine, Rows
  <1>6. QED
    BY <1>1, <1>3, <1>4, <1>5, StepsOfApp, ConfigOK DEF AppStep

LEMMA StepKeepsSeatsWithinLimit ==
  ASSUME Inv, [Next]_vars
  PROVE  SeatsWithinLimit'
  <1>1. TypeOK /\ FreshIds /\ FlowOwnsItsMachine /\ SeatsWithinLimit /\ TableStep
    BY StepsOfTable DEF Inv
  <1>2. SUFFICES ASSUME NEW l \in Licenses
        PROVE  Cardinality(GrantedSeats(l)') <= SeatLimit[l]
    BY DEF SeatsWithinLimit
  <1>3. IsFiniteSet(Ids)
    BY FS_Interval, ConfigOK DEF Ids
  <1>4. IsFiniteSet(SeatsOf(l)) /\ IsFiniteSet(GrantedSeats(l))
    BY <1>3, FS_Subset DEF SeatsOf, GrantedSeats
  <1>5. SeatLimit[l] \in Nat
    BY ConfigOK
  <1>6. CASE \E c \in Clients :
               Validating(c) /\ outcome'[c] = "granted" /\ LicenseOf[c] = l
    <2>1. "VALID" \in Verdicts(l) /\ table' = table
      BY <1>6 DEF Validating
    <2>2. Cardinality(SeatsOf(l)) <= SeatLimit[l]
      <3>1. ~(Cardinality(SeatsOf(l)) > SeatLimit[l])
        BY <2>1 DEF Verdicts
      <3>2. QED
        BY <1>4, <1>5, <3>1, FS_CardinalityType
    <2>3. GrantedSeats(l)' \subseteq SeatsOf(l)
      BY <2>1 DEF GrantedSeats, SeatsOf
    <2>4. Cardinality(GrantedSeats(l)') <= Cardinality(SeatsOf(l))
      BY <1>4, <2>3, FS_Subset
    <2>5. IsFiniteSet(GrantedSeats(l)')
      BY <1>4, <2>3, FS_Subset
    <2>6. QED
      BY <1>4, <1>5, <2>2, <2>4, <2>5, FS_CardinalityType
  <1>7. CASE ~ \E c \in Clients :
               Validating(c) /\ outcome'[c] = "granted" /\ LicenseOf[c] = l
    <2>1. ASSUME NEW m \in GrantedSeats(l)'
          PROVE  m \in GrantedSeats(l)
      <3>1. m \in Ids /\ table'[m].lic = l
        BY <2>1 DEF GrantedSeats, SeatsOf
      <3>2. PICK c \in Clients : held'[c] = m /\ outcome'[c] = "granted"
        BY <2>1 DEF GrantedSeats
      <3>3. table'[m] # NoRow
        BY <3>1, ConfigOK DEF NoRow
      <3>4. ~Validating(c)
        <4>1. SUFFICES ASSUME Validating(c) PROVE FALSE
          OBVIOUS
        <4>2. table[m] = OwnRow(c) /\ table'[m] = table[m]
          BY <1>1, <3>1, <3>2, <3>3, <4>1 DEF Validating, FlowOwnsItsMachine, Rows
        <4>3. LicenseOf[c] = l
          BY <3>1, <4>2 DEF OwnRow
        <4>4. QED
          BY <1>7, <3>2, <4>1, <4>3
      <3>5. held[c] = m /\ outcome[c] = "granted"
        BY <1>1, <3>1, <3>2, <3>4, StepsOfApp, ConfigOK DEF AppStep
      <3>6. table'[m] = table[m]
        <4>1. m < nextId
          BY <1>1, <3>1, <3>5 DEF FreshIds
        <4>2. QED
          BY <1>1, <3>1, <3>3, <4>1, RowsOnlyFromFreshIds
      <3>7. QED
        BY <3>1, <3>5, <3>6 DEF GrantedSeats, SeatsOf
    <2>2. Cardinality(GrantedSeats(l)') <= Cardinality(GrantedSeats(l))
      BY <1>4, <2>1, FS_Subset
    <2>3. IsFiniteSet(GrantedSeats(l)')
      BY <1>4, <2>1, FS_Subset
    <2>4. Cardinality(GrantedSeats(l)) <= SeatLimit[l]
      BY <1>1 DEF SeatsWithinLimit
    <2>5. QED
      BY <1>4, <1>5, <2>2, <2>3, <2>4, FS_CardinalityType
  <1>8. QED
    BY <1>6, <1>7

LEMMA InvHolds == Spec => []Inv
  <1>1. Inv /\ [Next]_vars => TypeOK'
    BY StepKeepsTypes DEF Inv
  <1>2. Inv /\ [Next]_vars => Inv'
    BY <1>1, StepKeepsFreshIds, StepKeepsFlowOwnsItsMachine, StepKeepsHoldsOwnSeat,
       StepKeepsSeatsWithinLimit
    DEF Inv
  <1>3. QED
    BY InitInv, <1>2, PTL DEF Spec

\* Every variable keeps its type, and a flow past its create call has a
\* machine in hand (the non-nil *Machine the code dereferences).
THEOREM TypeCorrect == Spec => []TypeOK
  <1>1. Init => TypeOK
    BY InitInv DEF Inv
  <1>2. TypeOK /\ [Next]_vars => TypeOK'
    BY StepKeepsTypes
  <1>3. QED
    BY <1>1, <1>2, PTL DEF Spec

\* However many installations activate at once, and whatever is lost, late or
\* rolled back, the granted machines never outnumber the license's limit.
THEOREM LimitHolds == Spec => []SeatsWithinLimit
  <1>1. Inv => SeatsWithinLimit
    BY DEF Inv
  <1>2. QED
    BY <1>1, InvHolds, PTL

\* No flow hands its application a machine of another license or fingerprint.
THEOREM OwnSeatOnly == Spec => []HoldsOwnSeat
  <1>1. Inv => HoldsOwnSeat
    BY DEF Inv
  <1>2. QED
    BY <1>1, InvHolds, PTL

-----------------------------------------------------------------------------
(* No row is orphaned silently.                                            *)

\* What a row of the next state needs.
Accounted(m) == m \in excused' \/ \E c \in Clients : m \in InHand(c)'

\* Going on to the next call keeps what the flow has in hand.
LEMMA GotoKeepsInHand ==
  ASSUME TypeOK, NEW c \in Clients, NEW label, NEW m, Goto(c, label, m),
         pc[c] \in {"validate", "rollback"} => label \in {"validate", "rollback"} /\ m = mach[c]
  PROVE  \A x \in Clients : InHand(x) \subseteq InHand(x)'
  <1>1. /\ held' = held /\ pc'[c] = label /\ mach'[c] = m
        /\ \A x \in Clients \ {c} : pc'[x] = pc[x] /\ mach'[x] = mach[x]
    BY GotoEffect
  <1>2. InHand(c) \subseteq InHand(c)'
    BY <1>1 DEF InHand
  <1>3. ASSUME NEW x \in Clients \ {c}
        PROVE  InHand(x) \subseteq InHand(x)'
    BY <1>1 DEF InHand
  <1>4. QED
    BY <1>2, <1>3

\* A flow that returns hands over what it had, or excuses it.
LEMMA ReturnAccounts ==
  ASSUME TypeOK, NEW c \in Clients, NEW m, NEW o, NEW leaving, Return(c, m, o, leaving),
         pc[c] \in {"validate", "rollback"} =>
           m = mach[c] \/ mach[c] \in leaving \/ mach[c] \notin Rows'
  PROVE  \A x \in Clients : \A r \in InHand(x) \intersect Rows' : Accounted(r)
  <1>1. EndFlow(c, m, o) /\ Excuse(leaving \union ({held[c]} \ {m}))
    BY DEF Return
  <1>2. /\ held'[c] = m
        /\ \A x \in Clients \ {c} : /\ held'[x] = held[x] /\ pc'[x] = pc[x]
                                    /\ mach'[x] = mach[x]
    BY <1>1, EndFlowEffect
  <1>3. \A r \in Rows' : r \in leaving \union ({held[c]} \ {m}) => r \in excused'
    BY <1>1 DEF Excuse, Rows
  <1>4. ASSUME NEW r \in InHand(c) \intersect Rows'
        PROVE  Accounted(r)
    <2>1. CASE r = m
      BY <1>2, <2>1 DEF Accounted, InHand
    <2>2. CASE r # m /\ r = held[c]
      BY <1>3, <1>4, <2>2 DEF Accounted
    <2>3. CASE r # m /\ r = mach[c] /\ pc[c] \in {"validate", "rollback"}
      BY <1>3, <1>4, <2>3 DEF Accounted
    <2>4. QED
      BY <1>4, <2>1, <2>2, <2>3 DEF InHand
  <1>5. ASSUME NEW x \in Clients \ {c}, NEW r \in InHand(x) \intersect Rows'
        PROVE  Accounted(r)
    BY <1>2, <1>5 DEF Accounted, InHand
  <1>6. QED
    BY <1>4, <1>5

\* An excuse lasts as long as its row.
LEMMA ExcuseLasts ==
  ASSUME TypeOK, NEW S, Excuse(S), NEW r \in Rows', r \in excused \union S
  PROVE  Accounted(r)
  BY DEF Excuse, Accounted, Rows

\* A row that stays is accounted for after a step, if it was before.
RowsStayAccounted ==
  /\ \A r \in excused \intersect Rows' : Accounted(r)
  /\ \A x \in Clients : \A r \in InHand(x) \intersect Rows' : Accounted(r)

LEMMA GotoAccounts ==
  ASSUME TypeOK, NEW c \in Clients, NEW label, NEW m, Goto(c, label, m),
         pc[c] \in {"validate", "rollback"} => label \in {"validate", "rollback"} /\ m = mach[c]
  PROVE  RowsStayAccounted
  <1>1. excused' = excused
    BY DEF Goto
  <1>2. QED
    BY <1>1, GotoKeepsInHand DEF RowsStayAccounted, Accounted

LEMMA ReturnKeepsAccounts ==
  ASSUME TypeOK, NEW c \in Clients, NEW m, NEW o, NEW leaving, Return(c, m, o, leaving),
         pc[c] \in {"validate", "rollback"} =>
           m = mach[c] \/ mach[c] \in leaving \/ mach[c] \notin Rows'
  PROVE  RowsStayAccounted
  <1>1. \A r \in excused \intersect Rows' : Accounted(r)
    BY ExcuseLasts DEF Return
  <1>2. QED
    BY <1>1, ReturnAccounts DEF RowsStayAccounted

LEMMA FlowKeepsAccounts ==
  ASSUME TypeOK, NEW c \in Clients, Flow(c)
  PROVE  RowsStayAccounted
  <1>1. CASE CreateSucceeds(c)
    BY <1>1, GotoAccounts DEF CreateSucceeds, At
  <1>2. CASE CreateRefused(c) \/ CreateConflicts(c) \/ CreateFails(c) \/ LookupFails(c)
    BY <1>2, ReturnKeepsAccounts DEF CreateRefused, CreateConflicts, CreateFails, LookupFails, At
  <1>3. CASE CreateConflictResolved(c)
    BY <1>3, GotoAccounts DEF CreateConflictResolved, At
  <1>4. CASE ValidateAnswers(c)
    BY <1>4, GotoAccounts, ReturnKeepsAccounts DEF ValidateAnswers, At
  <1>5. CASE ValidateFails(c)
    BY <1>5, ReturnKeepsAccounts DEF ValidateFails
  <1>6. CASE RollbackDone(c)
    <2>1. mach[c] \notin Rows'
      BY <1>6 DEF RollbackDone, RemoveRow, Rows, TypeOK
    <2>2. QED
      BY <1>6, <2>1, ReturnKeepsAccounts DEF RollbackDone
  <1>7. CASE RollbackFails(c)
    BY <1>7, ReturnKeepsAccounts DEF RollbackFails
  <1>8. CASE GetAnswers(c)
    BY <1>8, GotoAccounts DEF GetAnswers, At
  <1>9. CASE SearchHits(c)
    BY <1>9, GotoAccounts DEF SearchHits, At
  <1>10. CASE SearchMisses(c)
    <2>1. CASE NextPage(c)
      BY <2>1 DEF NextPage, app, RowsStayAccounted, Accounted, InHand
    <2>2. CASE Return(c, None, "taken", {})
      BY <1>10, <2>2, ReturnKeepsAccounts DEF SearchMisses, At
    <2>3. QED
      BY <1>10, <2>1, <2>2 DEF SearchMisses
  <1>11. CASE RevalidateAnswers(c)
    BY <1>11, ReturnKeepsAccounts DEF RevalidateAnswers, At
  <1>12. CASE RevalidateFails(c)
    BY <1>12, ReturnKeepsAccounts DEF RevalidateFails, At
  <1>13. QED
    BY <1>1, <1>2, <1>3, <1>4, <1>5, <1>6, <1>7, <1>8, <1>9, <1>10, <1>11, <1>12 DEF Flow

LEMMA StepKeepsAccounts ==
  ASSUME TypeOK, [Next]_vars
  PROVE  RowsStayAccounted
  <1>1. ASSUME NEW c \in Clients, NEW b \in BOOLEAN, Activate(c, b)
        PROVE  RowsStayAccounted
    <2>1. \A x \in Clients : InHand(x) \subseteq InHand(x)'
      BY <1>1 DEF Activate, At, InHand, TypeOK
    <2>2. QED
      BY <1>1, <2>1 DEF Activate, RowsStayAccounted, Accounted
  <1>2. ASSUME NEW c \in Clients, Deactivate(c)
        PROVE  RowsStayAccounted
    <2>1. held[c] \notin Rows'
      BY <1>2 DEF Deactivate, RemoveRow, Rows, TypeOK
    <2>2. \A x \in Clients : InHand(x) \subseteq InHand(x)' \union {held[c]}
      BY <1>2 DEF Deactivate, Forget, flow, At, InHand, TypeOK
    <2>3. \A r \in excused \intersect Rows' : Accounted(r)
      BY <1>2, ExcuseLasts DEF Deactivate
    <2>4. QED
      BY <2>1, <2>2, <2>3 DEF RowsStayAccounted, Accounted
  <1>3. ASSUME NEW c \in Clients, LearnsRowIsGone(c)
        PROVE  RowsStayAccounted
    <2>1. held[c] \notin Rows'
      BY <1>3 DEF LearnsRowIsGone, Rows
    <2>2. \A x \in Clients : InHand(x) \subseteq InHand(x)' \union {held[c]}
      BY <1>3 DEF LearnsRowIsGone, Forget, flow, At, InHand, TypeOK
    <2>3. QED
      BY <1>3, <2>1, <2>2 DEF LearnsRowIsGone, RowsStayAccounted, Accounted
  <1>4. ASSUME NEW c \in Clients, Crash(c)
        PROVE  RowsStayAccounted
    <2>1. \A x \in Clients \ {c} : InHand(x) \subseteq InHand(x)'
      BY <1>4, EndFlowEffect DEF Crash, InHand
    <2>2. \A r \in Rows' : r \in excused \union InHand(c) => Accounted(r)
      BY <1>4, ExcuseLasts DEF Crash
    <2>3. QED
      BY <2>1, <2>2 DEF RowsStayAccounted, Accounted
  <1>5. ASSUME NEW c \in Clients, LateCreate(c)
        PROVE  RowsStayAccounted
    <2>1. \A x \in Clients : InHand(x) \subseteq InHand(x)'
      BY <1>5 DEF LateCreate, flow, app, InHand
    <2>2. \A r \in excused \intersect Rows' : Accounted(r)
      BY <1>5, ExcuseLasts DEF LateCreate, Accounted
    <2>3. QED
      BY <2>1, <2>2 DEF RowsStayAccounted, Accounted
  <1>6. ASSUME NEW m \in Ids, LateDelete(m) \/ Cull(m)
        PROVE  RowsStayAccounted
    <2>1. \A x \in Clients : InHand(x) \subseteq InHand(x)'
      BY <1>6 DEF LateDelete, Cull, flow, app, InHand
    <2>2. \A r \in excused \intersect Rows' : Accounted(r)
      BY <1>6, ExcuseLasts DEF LateDelete, Cull
    <2>3. QED
      BY <2>1, <2>2 DEF RowsStayAccounted, Accounted
  <1>7. CASE UNCHANGED vars \/ \E c \in Clients : DeactivateFails(c)
    <2>1. excused' = excused /\ \A x \in Clients : InHand(x)' = InHand(x)
      BY <1>7 DEF DeactivateFails, vars, flow, app, InHand
    <2>2. QED
      BY <2>1 DEF RowsStayAccounted, Accounted
  <1>8. QED
    BY <1>1, <1>2, <1>3, <1>4, <1>5, <1>6, <1>7, FlowKeepsAccounts DEF Next

\* A row appears in the hand of the flow that created it, or excused as late.
LEMMA NewRowsAccounted ==
  ASSUME TypeOK, [Next]_vars, NEW r \in Rows' \ Rows
  PROVE  Accounted(r)
  <1>1. r \in Ids /\ table[r] = NoRow /\ table'[r] # NoRow
    BY DEF Rows
  <1>2. ASSUME NEW c \in Clients, Flow(c)
        PROVE  CreateSucceeds(c)
    <2>1. table' = table \/ \E m : table' = [table EXCEPT ![m] = NoRow] \/ CreateSucceeds(c)
      BY <1>2
      DEF Flow, CreateRefused, CreateConflicts, CreateConflictResolved,
          CreateFails, ValidateAnswers, ValidateFails, RollbackDone, RollbackFails,
          GetAnswers, SearchHits, SearchMisses, LookupFails, RevalidateAnswers,
          RevalidateFails, NoServerChange, RemoveRow
    <2>2. QED
      BY <1>1, <2>1 DEF TypeOK
  <1>3. ASSUME NEW c \in Clients, InsertRow(c)
        PROVE  r = nextId
    BY <1>1, <1>3 DEF InsertRow, TypeOK
  <1>4. ASSUME NEW c \in Clients, CreateSucceeds(c)
        PROVE  Accounted(r)
    BY <1>3, <1>4, GotoEffect DEF CreateSucceeds, Accounted, InHand
  <1>5. ASSUME NEW c \in Clients, LateCreate(c)
        PROVE  Accounted(r)
    <2>1. CanCreate(c) /\ InsertRow(c) /\ Excuse({nextId})
      BY <1>1, <1>5 DEF LateCreate
    <2>2. QED
      BY <1>3, <2>1, ExcuseLasts
  <1>6. CASE \/ UNCHANGED vars
             \/ \E c \in Clients :
                  \/ \E b \in BOOLEAN : Activate(c, b)
                  \/ Deactivate(c) \/ DeactivateFails(c) \/ LearnsRowIsGone(c) \/ Crash(c)
             \/ \E m \in Ids : LateDelete(m) \/ Cull(m)
    <2>1. table' = table \/ \E m : table' = [table EXCEPT ![m] = NoRow]
      BY <1>6
      DEF vars, Activate, Deactivate, DeactivateFails, LearnsRowIsGone, Crash, LateDelete,
          Cull, NoServerChange, RemoveRow
    <2>2. QED
      BY <1>1, <2>1 DEF TypeOK
  <1>7. QED
    BY <1>2, <1>4, <1>5, <1>6 DEF Next

\* Every row is known to an application or to a flow that will hand it over or
\* roll it back, unless a fault, a crash or the application itself lost it.
THEOREM NoOrphans == Spec => []NoSilentOrphan
  <1>1. Init => TypeOK /\ NoSilentOrphan
    BY InitInv DEF Inv, Init, NoSilentOrphan, Rows
  <1>2. ASSUME TypeOK /\ NoSilentOrphan, [Next]_vars
        PROVE  (TypeOK /\ NoSilentOrphan)'
    <2>1. ASSUME NEW r \in Rows'
          PROVE  Accounted(r)
      <3>1. CASE r \in Rows
        BY <1>2, <2>1, <3>1, StepKeepsAccounts DEF NoSilentOrphan, RowsStayAccounted
      <3>2. CASE r \notin Rows
        BY <1>2, <2>1, <3>2, NewRowsAccounted
      <3>3. QED
        BY <3>1, <3>2
    <2>2. QED
      BY <1>2, <2>1, StepKeepsTypes DEF NoSilentOrphan, Accounted
  <1>3. TypeOK /\ NoSilentOrphan /\ [Next]_vars => (TypeOK /\ NoSilentOrphan)'
    BY <1>2
  <1>4. QED
    BY <1>1, <1>3, PTL DEF Spec

-----------------------------------------------------------------------------
(* What a step does to a steady flow.                                      *)

\* A flow becomes steady at the 409, before its lookup, and stays so only while
\* its row does.
SteadyStep(c) ==
  \/ /\ c \in steady
     /\ pc'[c] \in {"create", "validate", "rollback"} =>
          pc'[c] = pc[c] \/ (pc[c] = "validate" /\ pc'[c] = "rollback")
             \/ (pc[c] = "create" /\ pc'[c] = "validate")
  \/ /\ c \notin steady /\ At(c, "create") /\ OwnRowExists(c) /\ table' = table
     /\ nextId' = nextId
     /\ pc'[c] \in {"get", "search"} /\ (pc'[c] = "search" => page'[c] = 1)
     /\ outcome'[c] = outcome[c]

LEMMA StepsOfSteady ==
  ASSUME TypeOK, [Next]_vars, NEW x \in Clients, x \in steady'
  PROVE  SteadyStep(x)
  <1>1. ASSUME NEW c \in Clients, CreateConflictResolved(c)
        PROVE  SteadyStep(x)
    <2>1. PICK m : Goto(c, IF m = None THEN "search" ELSE "get", m)
      BY <1>1 DEF CreateConflictResolved
    <2>2. CASE x # c \/ x \in steady
      BY <1>1, <2>1, <2>2 DEF CreateConflictResolved, Goto, SteadyStep, TypeOK, At
    <2>3. CASE x = c /\ x \notin steady
      BY <1>1, <2>1, <2>3 DEF CreateConflictResolved, Goto, app, SteadyStep, TypeOK, At
    <2>4. QED
      BY <2>2, <2>3
  <1>2. ASSUME NEW c \in Clients, NEW label, NEW m, Goto(c, label, m), steady' \subseteq steady,
               \/ label \in {"get", "search", "revalidate"}
               \/ pc[c] = "validate" /\ label = "rollback"
               \/ pc[c] = "create" /\ label = "validate"
        PROVE  SteadyStep(x)
    BY <1>2 DEF Goto, SteadyStep, TypeOK
  <1>3. ASSUME NEW c \in Clients, NEW m, NEW o, EndFlow(c, m, o), steady' \subseteq steady
        PROVE  SteadyStep(x)
    BY <1>3 DEF EndFlow, SteadyStep, TypeOK
  <1>4. ASSUME NEW c \in Clients, Flow(c), ~CreateConflictResolved(c)
        PROVE  SteadyStep(x)
    <2>1. steady' \subseteq steady
      BY <1>4
      DEF Flow, CreateSucceeds, CreateRefused, CreateConflicts,
          CreateFails, ValidateAnswers, ValidateFails, RollbackDone, RollbackFails,
          GetAnswers, SearchHits, SearchMisses, LookupFails, RevalidateAnswers,
          RevalidateFails, RemoveRow
    <2>2. CASE CreateSucceeds(c) \/ GetAnswers(c) \/ SearchHits(c)
      BY <1>2, <2>1, <2>2 DEF CreateSucceeds, GetAnswers, SearchHits, At
    <2>3. CASE ValidateAnswers(c)
      BY <1>2, <1>3, <2>1, <2>3 DEF ValidateAnswers, Return, At
    <2>4. CASE SearchMisses(c)
      BY <1>3, <2>1, <2>4 DEF SearchMisses, Return, NextPage, SteadyStep
    <2>5. CASE \/ CreateRefused(c) \/ CreateConflicts(c) \/ CreateFails(c)
               \/ ValidateFails(c) \/ RollbackDone(c) \/ RollbackFails(c)
               \/ LookupFails(c) \/ RevalidateAnswers(c) \/ RevalidateFails(c)
      BY <1>3, <2>1, <2>5
      DEF CreateRefused, CreateConflicts, CreateFails, ValidateFails, RollbackDone,
          RollbackFails, LookupFails, RevalidateAnswers, RevalidateFails, Return
    <2>6. QED
      BY <1>4, <2>2, <2>3, <2>4, <2>5 DEF Flow
  <1>5. ASSUME NEW c \in Clients, NEW b \in BOOLEAN, Activate(c, b)
        PROVE  SteadyStep(x)
    BY <1>5 DEF Activate, SteadyStep, TypeOK
  <1>6. ASSUME NEW c \in Clients, Crash(c)
        PROVE  SteadyStep(x)
    BY <1>3, <1>6 DEF Crash
  <1>7. CASE \/ UNCHANGED vars
             \/ \E c \in Clients :
                  Deactivate(c) \/ DeactivateFails(c) \/ LearnsRowIsGone(c) \/ LateCreate(c)
             \/ \E m \in Ids : LateDelete(m) \/ Cull(m)
    BY <1>7
    DEF vars, Deactivate, DeactivateFails, LearnsRowIsGone, LateCreate, LateDelete, Cull,
        RemoveRow, flow, SteadyStep
  <1>8. QED
    BY <1>1, <1>4, <1>5, <1>6, <1>7 DEF Next

\* The one step of a flow that deletes a row is the rollback of the row it
\* created, and no flow that is in the recovery of a 409 takes it.
THEOREM RecoveryIsHarmless == Spec => RecoveryDestroysNothing
  <1> DEFINE A == \A c \in Clients :
                    pc[c] # pc'[c] /\ pc[c] \in {"get", "search", "revalidate"} => Rows \subseteq Rows'
  <1>1. ASSUME TypeOK, [Next]_vars
        PROVE  A
    <2>1. SUFFICES ASSUME NEW c \in Clients, pc[c] # pc'[c],
                          pc[c] \in {"get", "search", "revalidate"}
          PROVE  Rows \subseteq Rows'
      OBVIOUS
    <2>2. ASSUME NEW d \in Clients, Flow(d)
          PROVE  Rows \subseteq Rows'
      <3>1. d = c
        BY <1>1, <2>1, <2>2
        DEF Flow, CreateSucceeds, CreateRefused, CreateConflicts, CreateConflictResolved,
            CreateFails, ValidateAnswers, ValidateFails, RollbackDone, RollbackFails,
            GetAnswers, SearchHits, SearchMisses, LookupFails, RevalidateAnswers,
            RevalidateFails, Goto, NextPage, Return, EndFlow, TypeOK
      <3>2. ~CreateSucceeds(d) /\ ~RollbackDone(d)
        BY <2>1, <3>1 DEF CreateSucceeds, RollbackDone, At
      <3>3. table' = table
        BY <2>2, <3>2
        DEF Flow, CreateRefused, CreateConflicts, CreateConflictResolved,
            CreateFails, ValidateAnswers, ValidateFails, RollbackFails,
            GetAnswers, SearchHits, SearchMisses, LookupFails, RevalidateAnswers,
            RevalidateFails, NoServerChange
      <3>4. QED
        BY <3>3 DEF Rows
    <2>3. ASSUME NEW d \in Clients, (\E b \in BOOLEAN : Activate(d, b)) \/ Crash(d)
          PROVE  Rows \subseteq Rows'
      BY <2>3 DEF Activate, Crash, NoServerChange, Rows
    <2>4. CASE \/ UNCHANGED vars
               \/ \E d \in Clients :
                    Deactivate(d) \/ DeactivateFails(d) \/ LearnsRowIsGone(d) \/ LateCreate(d)
               \/ \E m \in Ids : LateDelete(m) \/ Cull(m)
      BY <2>1, <2>4
      DEF vars, Deactivate, DeactivateFails, LearnsRowIsGone, LateCreate, LateDelete, Cull, flow
    <2>5. QED
      BY <1>1, <2>2, <2>3, <2>4 DEF Next
  <1>2. TypeOK /\ [Next]_vars => [A]_vars
    BY <1>1
  <1>3. Spec => [][A]_vars
    BY <1>2, TypeCorrect, PTL DEF Spec
  <1>4. QED
    BY <1>3 DEF RecoveryDestroysNothing

-----------------------------------------------------------------------------
(* A restart finds its own seat.                                           *)

\* A set of ids has a least and a greatest member.
LEMMA LeastAndGreatest ==
  ASSUME NEW T, T \subseteq Ids, T # {}
  PROVE  /\ \E t \in T : \A y \in T : t <= y
         /\ \E t \in T : \A y \in T : y <= t
  <1>1. T \subseteq Nat /\ MaxIds \in Nat /\ \A t \in T : t <= MaxIds
    BY ConfigOK DEF Ids
  <1>2. PICK t \in T : \A y \in T : <<y, t>> \notin OpToRel(<, Nat)
    BY <1>1, NatLessThanWellFounded, WFMin
  <1>3. \A y \in T : t <= y
    <2>1. SUFFICES ASSUME NEW y \in T  PROVE t <= y
      OBVIOUS
    <2>2. t \in Nat /\ y \in Nat
      BY <1>1
    <2>3. ~(y < t)
      BY <1>2, <2>2 DEF OpToRel
    <2>4. QED
      BY <2>2, <2>3
  <1> DEFINE U == {MaxIds - y : y \in T}
  <1>4. U \subseteq Nat /\ U # {}
    BY <1>1
  <1>5. PICK u \in U : \A y \in U : <<y, u>> \notin OpToRel(<, Nat)
    BY <1>4, NatLessThanWellFounded, WFMin
  <1>6. \A y \in U : u <= y
    <2> HIDE DEF U
    <2>1. SUFFICES ASSUME NEW y \in U  PROVE u <= y
      OBVIOUS
    <2>2. u \in Nat /\ y \in Nat
      BY <1>4
    <2>3. ~(y < u)
      BY <1>5, <2>2 DEF OpToRel
    <2>4. QED
      BY <2>2, <2>3
  <1>7. PICK g \in T : u = MaxIds - g
    BY <1>5
  <1>8. \A y \in T : y <= g
    <2>1. SUFFICES ASSUME NEW y \in T  PROVE y <= g
      OBVIOUS
    <2>2. u <= MaxIds - y /\ y \in Nat /\ g \in Nat
      BY <1>1, <1>6
    <2>3. QED
      BY <1>1, <1>7, <2>2
  <1>9. QED
    BY <1>3, <1>8

\* The rows of a listing that are ahead of a row are finitely many.
LEMMA BeforeType ==
  ASSUME NEW c \in Clients, NEW m
  PROVE  /\ Listed(c) \subseteq SeatsOf(LicenseOf[c]) /\ SeatsOf(LicenseOf[c]) \subseteq Ids
         /\ IsFiniteSet(SeatsOf(LicenseOf[c])) /\ IsFiniteSet(Listed(c))
         /\ IsFiniteSet({x \in Listed(c) : x > m})
         /\ Cardinality(SeatsOf(LicenseOf[c])) \in Nat
         /\ Cardinality(Listed(c)) \in Nat /\ Before(c, m) \in Nat
         /\ Cardinality(Listed(c)) <= Cardinality(SeatsOf(LicenseOf[c]))
  <1>1. IsFiniteSet(Ids)
    BY FS_Interval, ConfigOK DEF Ids
  <1>2. Listed(c) \subseteq SeatsOf(LicenseOf[c]) /\ SeatsOf(LicenseOf[c]) \subseteq Ids
    BY DEF Listed, SeatsOf
  <1>3. {x \in Listed(c) : x > m} \subseteq Ids /\ Listed(c) \subseteq Ids
    BY <1>2
  <1>4. /\ IsFiniteSet(SeatsOf(LicenseOf[c])) /\ IsFiniteSet(Listed(c))
        /\ IsFiniteSet({x \in Listed(c) : x > m})
    BY <1>1, <1>2, <1>3, FS_Subset
  <1>5. Cardinality(Listed(c)) <= Cardinality(SeatsOf(LicenseOf[c]))
    BY <1>2, <1>4, FS_Subset
  <1>6. QED
    BY <1>2, <1>4, <1>5, FS_CardinalityType DEF Before

\* A listed row is not ahead of itself.
LEMMA BeforeListed ==
  ASSUME NEW c \in Clients, NEW m \in Listed(c)
  PROVE  Before(c, m) < Cardinality(Listed(c))
  <1> DEFINE ahead == {x \in Listed(c) : x > m}
  <1>1. ahead \subseteq Listed(c) /\ m \notin ahead
    <2>1. m \in Ids
      BY BeforeType
    <2>2. QED
      BY <2>1, ConfigOK DEF Ids
  <1>2. /\ Cardinality(ahead) <= Cardinality(Listed(c))
        /\ Cardinality(ahead) = Cardinality(Listed(c)) => ahead = Listed(c)
    BY <1>1, BeforeType, FS_Subset
  <1>3. Before(c, m) = Cardinality(ahead) /\ Before(c, m) # Cardinality(Listed(c))
    BY <1>1, <1>2 DEF Before
  <1>4. Before(c, m) \in Nat /\ Cardinality(Listed(c)) \in Nat
    BY BeforeType
  <1>5. QED
    BY <1>2, <1>3, <1>4

\* The numbers that bound a page.
LEMMA PageBounds ==
  ASSUME NEW n \in Nat \ {0}
  PROVE  /\ (n - 1) * PageSize \in Nat /\ n * PageSize \in Nat
         /\ n * PageSize = (n - 1) * PageSize + PageSize
         /\ PageSize \in Nat \ {0}
  BY ConfigOK

\* A page that some listed row is on or behind is not empty: the newest such
\* row is on it.
LEMMA PageNotEmpty ==
  ASSUME NEW c \in Clients, NEW n \in Nat \ {0}, NEW m \in Listed(c),
         (n - 1) * PageSize <= Before(c, m)
  PROVE  PageOf(c, n) # {}
  <1> DEFINE lo == (n - 1) * PageSize
             hi == n * PageSize
             S  == {x \in Listed(c) : lo <= Before(c, x)}
  <1>1. lo \in Nat /\ hi = lo + PageSize /\ PageSize \in Nat \ {0}
    BY PageBounds
  <1>2. Listed(c) \subseteq Ids /\ Ids \subseteq Nat
    <2>1. Listed(c) \subseteq Ids
      BY DEF Listed, SeatsOf
    <2>2. QED
      BY <2>1, ConfigOK DEF Ids
  <1>3. PICK w \in S : \A y \in S : y <= w
    <2>1. S \subseteq Ids /\ m \in S
      BY <1>2
    <2>2. QED
      BY <2>1, LeastAndGreatest
  <1>4. CASE Before(c, w) < hi
    BY <1>3, <1>4 DEF PageOf
  <1>5. CASE ~(Before(c, w) < hi)
    <2> DEFINE aheadW == {x \in Listed(c) : x > w}
    <2>1. Before(c, w) \in Nat /\ Before(c, w) >= hi /\ Before(c, w) = Cardinality(aheadW)
      <3>1. Before(c, w) \in Nat
        BY BeforeType
      <3> HIDE DEF lo, hi
      <3>2. QED
        BY <1>1, <1>5, <3>1 DEF Before
    <2>2. aheadW # {} /\ aheadW \subseteq Ids
      <3>1. aheadW # {}
        <4> HIDE DEF lo, hi
        <4>1. Cardinality(aheadW) # 0
          BY <1>1, <2>1
        <4>2. QED
          BY <4>1, FS_EmptySet, Zenon
      <3>2. QED
        BY <1>2, <3>1
    <2>3. PICK v \in aheadW : \A y \in aheadW : v <= y
      BY <2>2, LeastAndGreatest
    <2> DEFINE aheadV == {x \in Listed(c) : x > v}
    <2>4. aheadW = aheadV \union {v} /\ v \notin aheadV /\ v \in Listed(c) /\ v > w
      <3>1. v \in Listed(c) /\ v > w /\ v \in Nat /\ w \in Nat
        BY <1>2, <1>3, <2>3
      <3>2. ASSUME NEW x \in aheadW  PROVE x \in aheadV \union {v}
        BY <1>2, <2>3, <3>1, <3>2
      <3>3. ASSUME NEW x \in aheadV  PROVE x \in aheadW
        BY <1>2, <3>1, <3>3
      <3>4. v \notin aheadV
        BY <3>1
      <3>5. aheadW \subseteq aheadV \union {v} /\ aheadV \union {v} \subseteq aheadW
        BY <2>3, <3>2, <3>3
      <3>6. QED
        BY <3>1, <3>4, <3>5
    <2>5. Cardinality(aheadW) = Cardinality(aheadV) + 1
      <3>1. IsFiniteSet(aheadV)
        BY BeforeType
      <3>2. QED
        BY <2>4, <3>1, FS_AddElement
    <2>6. lo <= Before(c, v)
      <3>1. Before(c, v) \in Nat /\ Before(c, v) = Cardinality(aheadV)
        BY BeforeType DEF Before
      <3> HIDE DEF lo, hi, aheadV, aheadW
      <3>2. QED
        BY <1>1, <2>1, <2>5, <3>1
    <2>7. v \in S /\ v \in Nat /\ w \in Nat
      BY <1>2, <1>3, <2>4, <2>6
    <2>8. QED
      BY <1>3, <2>4, <2>7
  <1>6. QED
    BY <1>4, <1>5

\* A search that has its own row on its page or behind it finds it there, or has
\* a page to turn and the row still ahead.
LEMMA OwnRowAhead ==
  ASSUME TypeOK, SeatsCapped, NEW c \in Clients, NEW m \in Ids, table[m] = OwnRow(c),
         CreateCap[LicenseOf[c]] <= MaxOffset,
         NEW n \in Nat \ {0}, (n - 1) * PageSize <= Before(c, m), ExactMatches(c, n) = {}
  PROVE  ~LastPage(c, n) /\ n * PageSize <= Before(c, m)
  <1> DEFINE l == LicenseOf[c]
             hi == n * PageSize
  <1>1. m \in Listed(c) /\ table[m].fp = FingerprintOf[c]
    BY ConfigOK DEF OwnRow, Listed, SeatsOf
  <1>2. Before(c, m) \in Nat /\ hi \in Nat /\ Cardinality(Listed(c)) \in Nat
    BY BeforeType, PageBounds
  <1>3. hi <= Before(c, m)
    <2>1. ~(Before(c, m) < hi)
      BY <1>1 DEF ExactMatches, PageOf
    <2> HIDE DEF hi
    <2>2. QED
      BY <1>2, <2>1
  <1>4. /\ Before(c, m) < Cardinality(Listed(c))
        /\ Cardinality(Listed(c)) <= Cardinality(SeatsOf(l)) /\ Cardinality(SeatsOf(l)) \in Nat
        /\ Cardinality(SeatsOf(l)) <= CreateCap[l] /\ CreateCap[l] \in Nat /\ MaxOffset \in Nat
    BY <1>1, BeforeListed, BeforeType, ConfigOK DEF SeatsCapped
  <1>5. ~(hi >= Cardinality(Listed(c))) /\ ~(hi > MaxOffset)
    <2> HIDE DEF hi, l
    <2>1. CreateCap[l] <= MaxOffset
      BY DEF l
    <2>2. QED
      BY <1>2, <1>3, <1>4, <2>1
  <1>6. PageOf(c, n) # {}
    BY <1>1, PageNotEmpty
  <1>7. QED
    BY <1>3, <1>5, <1>6 DEF LastPage

LEMMA StepKeepsSeatsCapped ==
  ASSUME Inv, SeatsCapped, [Next]_vars
  PROVE  SeatsCapped'
  <1>1. TypeOK
    BY DEF Inv
  <1>2. SUFFICES ASSUME NEW l \in Licenses
        PROVE  Cardinality(SeatsOf(l)') <= CreateCap[l]
    BY DEF SeatsCapped
  <1>3. IsFiniteSet(SeatsOf(l))
    <2>1. IsFiniteSet(Ids)
      BY FS_Interval, ConfigOK DEF Ids
    <2>2. QED
      BY <2>1, FS_Subset, SeatsAreIds
  <1>4. /\ Cardinality(SeatsOf(l)) <= CreateCap[l]
        /\ Cardinality(SeatsOf(l)) \in Nat /\ CreateCap[l] \in Nat
    BY <1>3, FS_CardinalityType, ConfigOK DEF SeatsCapped
  <1>5. ASSUME SeatsOf(l)' \subseteq SeatsOf(l)
        PROVE  Cardinality(SeatsOf(l)') <= CreateCap[l]
    <2>1. Cardinality(SeatsOf(l)') <= Cardinality(SeatsOf(l)) /\ IsFiniteSet(SeatsOf(l)')
      BY <1>3, <1>5, FS_Subset
    <2>2. QED
      BY <1>4, <2>1, FS_CardinalityType
  <1>6. ASSUME NEW c \in Clients, CanCreate(c), InsertRow(c)
        PROVE  Cardinality(SeatsOf(l)') <= CreateCap[l]
    <2>1. CASE LicenseOf[c] # l
      <3>1. SeatsOf(l)' \subseteq SeatsOf(l)
        BY <1>1, <1>6, <2>1 DEF InsertRow, OwnRow, SeatsOf, TypeOK
      <3>2. QED
        BY <1>5, <3>1
    <2>2. CASE LicenseOf[c] = l
      <3>1. SeatsOf(l)' \subseteq SeatsOf(l) \union {nextId}
        BY <1>1, <1>6 DEF InsertRow, SeatsOf, TypeOK
      <3>2. /\ IsFiniteSet(SeatsOf(l) \union {nextId})
            /\ Cardinality(SeatsOf(l) \union {nextId}) <= Cardinality(SeatsOf(l)) + 1
        <4>1. /\ IsFiniteSet(SeatsOf(l) \union {nextId})
              /\ Cardinality(SeatsOf(l) \union {nextId}) =
                   IF nextId \in SeatsOf(l) THEN Cardinality(SeatsOf(l))
                                           ELSE Cardinality(SeatsOf(l)) + 1
          BY <1>3, FS_AddElement, Zenon
        <4>2. QED
          BY <1>4, <4>1
      <3>3. /\ Cardinality(SeatsOf(l)') <= Cardinality(SeatsOf(l) \union {nextId})
            /\ IsFiniteSet(SeatsOf(l)')
        BY <3>1, <3>2, FS_Subset
      <3>4. Cardinality(SeatsOf(l)) < CreateCap[l]
        BY <1>4, <1>6, <2>2 DEF CanCreate, OverCap
      <3>5. QED
        BY <1>4, <3>2, <3>3, <3>4, FS_CardinalityType
    <2>3. QED
      BY <2>1, <2>2
  <1>7. CASE \E c \in Clients : CanCreate(c) /\ InsertRow(c)
    BY <1>6, <1>7
  <1>8. CASE table' = table \/ \E m \in Ids : table' = [table EXCEPT ![m] = NoRow]
    <2>1. SeatsOf(l)' \subseteq SeatsOf(l)
      <3>1. NoRow.lic # l
        BY ConfigOK DEF NoRow
      <3>2. QED
        BY <1>1, <1>8, <3>1 DEF SeatsOf, TypeOK
    <2>2. QED
      BY <1>5, <2>1
  <1>9. QED
    BY <1>1, <1>7, <1>8, StepsOfTable DEF TableStep

\* Between two calls a flow has no outcome; only a create that is refused by a
\* 409, or a search that misses, ends as "taken".
LEMMA StepKeepsOutcome ==
  ASSUME TypeOK, OutcomeOfLastFlow, [Next]_vars, NEW x \in Clients
  PROVE  /\ pc'[x] # "idle" => outcome'[x] = "none"
         /\ \/ outcome'[x] # "taken" \/ outcome'[x] = outcome[x]
            \/ CreateConflicts(x) /\ steady' = steady
            \/ SearchMisses(x) /\ LastPage(x, page[x]) /\ steady' = steady
  <1> DEFINE Good == /\ pc'[x] # "idle" => outcome'[x] = "none"
                     /\ \/ outcome'[x] # "taken" \/ outcome'[x] = outcome[x]
                        \/ CreateConflicts(x) /\ steady' = steady
                        \/ SearchMisses(x) /\ LastPage(x, page[x]) /\ steady' = steady
  <1>1. ASSUME NEW c \in Clients, pc[c] # "idle", outcome' = outcome,
               \A d \in Clients \ {c} : pc'[d] = pc[d]
        PROVE  Good
    BY <1>1 DEF OutcomeOfLastFlow
  <1>2. ASSUME NEW c \in Clients, NEW label, NEW m, Goto(c, label, m), pc[c] # "idle"
        PROVE  Good
    BY <1>1, <1>2, GotoEffect
  <1>3. ASSUME NEW c \in Clients, NEW m, NEW o, EndFlow(c, m, o), o # "taken" \/ x # c
        PROVE  Good
    BY <1>3, EndFlowEffect DEF OutcomeOfLastFlow
  <1>4. ASSUME NEW c \in Clients, Flow(c)
        PROVE  Good
    <2>1. CASE CreateSucceeds(c) \/ CreateConflictResolved(c) \/ GetAnswers(c) \/ SearchHits(c)
      BY <1>2, <2>1 DEF CreateSucceeds, CreateConflictResolved, GetAnswers, SearchHits, At
    <2>2. CASE ValidateAnswers(c)
      BY <1>2, <1>3, <2>2 DEF ValidateAnswers, Return, At
    <2>3. CASE CreateConflicts(c)
      <3>1. CASE c = x
        BY <2>3, <3>1, EndFlowEffect DEF CreateConflicts, Return
      <3>2. CASE c # x
        BY <1>3, <2>3, <3>2 DEF CreateConflicts, Return
      <3>3. QED
        BY <3>1, <3>2
    <2>4. CASE SearchMisses(c)
      <3>1. CASE NextPage(c)
        BY <1>1, <2>4, <3>1 DEF SearchMisses, NextPage, app, At
      <3>2. CASE LastPage(c, page[c]) /\ Return(c, None, "taken", {}) /\ c = x
        BY <2>4, <3>2, EndFlowEffect DEF SearchMisses, Return
      <3>3. CASE Return(c, None, "taken", {}) /\ c # x
        BY <1>3, <3>3 DEF Return
      <3>4. QED
        BY <2>4, <3>1, <3>2, <3>3 DEF SearchMisses
    <2>5. CASE \/ CreateRefused(c) \/ CreateFails(c)
               \/ ValidateFails(c) \/ RollbackDone(c) \/ RollbackFails(c)
               \/ LookupFails(c) \/ RevalidateFails(c)
      BY <1>3, <2>5
      DEF CreateRefused, CreateFails, ValidateFails, RollbackDone,
          RollbackFails, LookupFails, RevalidateFails, Return
    <2>6. CASE RevalidateAnswers(c)
      <3>1. PICK o \in {"overLimit", "granted", "invalid"} : Return(c, mach[c], o, {})
        BY <2>6 DEF RevalidateAnswers
      <3>2. QED
        BY <1>3, <3>1 DEF Return
    <2>7. QED
      BY <1>4, <2>1, <2>2, <2>3, <2>4, <2>5, <2>6 DEF Flow
  <1>5. ASSUME NEW c \in Clients,
               \/ \E b \in BOOLEAN : Activate(c, b)
               \/ Deactivate(c) \/ LearnsRowIsGone(c)
        PROVE  Good
    BY <1>5 DEF Activate, Deactivate, LearnsRowIsGone, Forget, flow, At, OutcomeOfLastFlow, TypeOK
  <1>6. ASSUME NEW c \in Clients, Crash(c)
        PROVE  Good
    BY <1>3, <1>6 DEF Crash
  <1>7. CASE \/ UNCHANGED vars \/ \E c \in Clients : DeactivateFails(c) \/ LateCreate(c)
             \/ \E m \in Ids : LateDelete(m) \/ Cull(m)
    BY <1>7 DEF vars, DeactivateFails, LateCreate, LateDelete, Cull, flow, app, OutcomeOfLastFlow
  <1>8. QED
    BY <1>4, <1>5, <1>6, <1>7 DEF Next

\* A step that deletes or creates a row is one of these two.
LEMMA RowStep ==
  ASSUME TypeOK, [Next]_vars
  PROVE  \/ table' = table
         \/ \E c \in Clients : CanCreate(c) /\ InsertRow(c)
         \/ \E r \in Ids : RemoveRow(r)
  <1> DEFINE Good == \/ table' = table
                     \/ \E c \in Clients : CanCreate(c) /\ InsertRow(c)
                     \/ \E r \in Ids : RemoveRow(r)
  <1>1. ASSUME NEW c \in Clients, Flow(c)
        PROVE  Good
    <2>1. ASSUME RollbackDone(c)
          PROVE  mach[c] \in Ids /\ RemoveRow(mach[c])
      BY <2>1 DEF RollbackDone, At, TypeOK, WithMachine
    <2>2. QED
      BY <1>1, <2>1
      DEF Flow, CreateSucceeds, CreateRefused, CreateConflicts, CreateConflictResolved,
          CreateFails, ValidateAnswers, ValidateFails, RollbackFails,
          GetAnswers, SearchHits, SearchMisses, LookupFails, RevalidateAnswers,
          RevalidateFails, NoServerChange
  <1>2. ASSUME NEW c \in Clients, Deactivate(c)
        PROVE  Good
    BY <1>2 DEF Deactivate, TypeOK
  <1>3. CASE \/ UNCHANGED vars
             \/ \E c \in Clients :
                  \/ \E b \in BOOLEAN : Activate(c, b)
                  \/ DeactivateFails(c) \/ LearnsRowIsGone(c) \/ Crash(c) \/ LateCreate(c)
             \/ \E r \in Ids : LateDelete(r) \/ Cull(r)
    BY <1>3
    DEF vars, Activate, DeactivateFails, LearnsRowIsGone, Crash, LateCreate, LateDelete,
        Cull, NoServerChange
  <1>4. QED
    BY <1>1, <1>2, <1>3 DEF Next

\* While a flow stays steady its row stays, and no row behind which the search
\* has gone leaves the listing: its own row moves no nearer than the page that
\* is next.
LEMMA SteadyRowStays ==
  ASSUME Inv, [Next]_vars, NEW x \in Clients, x \in steady, x \in steady',
         NEW m \in Ids, table[m] = OwnRow(x),
         At(x, "search") => page[x] >= 1 /\ (page[x] - 1) * PageSize <= Before(x, m)
  PROVE  /\ table'[m] = OwnRow(x)
         /\ At(x, "search") => (page[x] - 1) * PageSize <= Before(x, m)'
  <1> DEFINE k == (page[x] - 1) * PageSize
             A == {y \in Listed(x) : y > m}
  <1>1. TypeOK /\ FreshIds
    BY DEF Inv
  <1>2. OwnRow(x) # NoRow /\ Ids \subseteq Nat
    BY OwnRowType, ConfigOK DEF Ids
  <1>3. /\ Before(x, m) = Cardinality(A) /\ Before(x, m)' = Cardinality(A')
        /\ IsFiniteSet(A) /\ Cardinality(A) \in Nat
    BY BeforeType DEF Before
  <1>4. IsFiniteSet(A') /\ Cardinality(A') \in Nat
    <2>1. A' \subseteq Ids
      BY DEF Listed, SeatsOf
    <2>2. IsFiniteSet(Ids)
      BY FS_Interval, ConfigOK DEF Ids
    <2>3. QED
      BY <2>1, <2>2, FS_Subset, FS_CardinalityType
  <1>5. At(x, "search") => k \in Nat /\ k <= Cardinality(A)
    BY <1>1, <1>3, PageBounds DEF TypeOK
  <1>6. ASSUME A \subseteq A', table'[m] = table[m]
        PROVE  /\ table'[m] = OwnRow(x)
               /\ At(x, "search") => k <= Cardinality(A')
    <2>1. Cardinality(A) <= Cardinality(A')
      BY <1>4, <1>6, FS_Subset
    <2> HIDE DEF k, A
    <2>2. QED
      BY <1>3, <1>4, <1>5, <1>6, <2>1
  <1>7. CASE table' = table
    <2>1. A' = A
      BY <1>7 DEF Listed, SeatsOf
    <2>2. QED
      BY <1>3, <1>6, <1>7, <2>1
  <1>8. ASSUME NEW c \in Clients, CanCreate(c), InsertRow(c)
        PROVE  A \subseteq A' /\ table'[m] = table[m]
    <2>1. \A y \in Ids : table[y] # NoRow => table'[y] = table[y]
      BY <1>1, <1>8 DEF InsertRow, CanCreate, FreshIds, TypeOK
    <2>2. \A y \in Listed(x) : y \in Ids /\ table[y] # NoRow
      BY ConfigOK DEF Listed, SeatsOf, NoRow
    <2>3. QED
      BY <1>2, <2>1, <2>2 DEF Listed, SeatsOf
  <1>9. ASSUME NEW r \in Ids, RemoveRow(r)
        PROVE  /\ table'[m] = OwnRow(x)
               /\ At(x, "search") => k <= Cardinality(A')
    <2>1. r # m /\ r \notin Walked(x)
      BY <1>9 DEF RemoveRow
    <2>2. /\ table'[m] = table[m]
          /\ \A y \in Ids \ {r} : table'[y] = table[y]
      BY <1>1, <1>9, <2>1 DEF RemoveRow, TypeOK
    <2>3. A \ {r} \subseteq A'
      BY <2>2 DEF Listed, SeatsOf
    <2>4. CASE r \notin A
      BY <1>6, <2>2, <2>3, <2>4
    <2>5. CASE r \in A /\ At(x, "search")
      <3> DEFINE R == {y \in Listed(x) : y > r}
      <3>1. ~(Before(x, r) < k) /\ Before(x, r) \in Nat /\ Before(x, r) = Cardinality(R)
        BY <2>1, <2>5, BeforeType DEF Walked, At, Before
      <3>2. R \subseteq A'
        <4>1. SUFFICES ASSUME NEW y \in R  PROVE y \in A'
          OBVIOUS
        <4>2. y \in Listed(x) /\ y > r /\ r > m /\ y \in Nat /\ r \in Nat /\ m \in Nat
          BY <1>2, <2>5, BeforeType
        <4>3. y > m /\ y # r
          BY <4>2
        <4>4. QED
          BY <2>3, <4>2, <4>3
      <3>3. Cardinality(R) <= Cardinality(A')
        BY <1>4, <3>2, FS_Subset
      <3>4. k <= Cardinality(A')
        <4> HIDE DEF k, A, R
        <4>1. QED
          BY <1>4, <1>5, <2>5, <3>1, <3>3
      <3>5. QED
        BY <2>2, <3>4
    <2>6. QED
      BY <2>2, <2>4, <2>5
  <1>10. QED
    BY <1>1, <1>3, <1>6, <1>7, <1>8, <1>9, RowStep

\* The page of a search moves only by NextPage, or starts at one.
LEMMA StepsOfPage ==
  ASSUME TypeOK, [Next]_vars, NEW x \in Clients, At(x, "search")'
  PROVE  \/ page'[x] = 1
         \/ At(x, "search") /\ page'[x] = page[x]
         \/ SearchMisses(x)
  <1>1. ASSUME NEW c \in Clients, NEW label, NEW m, Goto(c, label, m)
        PROVE  page'[x] = 1 \/ (At(x, "search") /\ page'[x] = page[x])
    BY <1>1 DEF Goto, TypeOK, At
  <1>2. ASSUME NEW c \in Clients, NEW m, NEW o, EndFlow(c, m, o)
        PROVE  At(x, "search") /\ page'[x] = page[x]
    BY <1>2 DEF EndFlow, TypeOK, At
  <1>3. ASSUME NEW c \in Clients, Flow(c)
        PROVE  page'[x] = 1 \/ (At(x, "search") /\ page'[x] = page[x]) \/ SearchMisses(x)
    <2>1. CASE SearchMisses(c) /\ c # x
      BY <1>2, <2>1 DEF SearchMisses, NextPage, Return, At, TypeOK
    <2>2. CASE ~SearchMisses(c)
      BY <1>1, <1>2, <1>3, <2>2
      DEF Flow, CreateSucceeds, CreateRefused, CreateConflicts, CreateConflictResolved,
          CreateFails, ValidateAnswers, ValidateFails, RollbackDone, RollbackFails,
          GetAnswers, SearchHits, LookupFails, RevalidateAnswers, RevalidateFails, Return
    <2>3. QED
      BY <2>1, <2>2
  <1>4. ASSUME NEW c \in Clients, (\E b \in BOOLEAN : Activate(c, b)) \/ Crash(c)
        PROVE  At(x, "search") /\ page'[x] = page[x]
    BY <1>2, <1>4 DEF Activate, Crash, At, TypeOK
  <1>5. CASE \/ UNCHANGED vars
             \/ \E c \in Clients :
                  Deactivate(c) \/ DeactivateFails(c) \/ LearnsRowIsGone(c) \/ LateCreate(c)
             \/ \E m \in Ids : LateDelete(m) \/ Cull(m)
    BY <1>5
    DEF vars, Deactivate, DeactivateFails, LearnsRowIsGone, LateCreate, LateDelete, Cull,
        flow, At
  <1>6. QED
    BY <1>3, <1>4, <1>5 DEF Next

LEMMA StepKeepsSteadyInv ==
  ASSUME Inv, SteadyInv, [Next]_vars, \A l \in Licenses : CreateCap[l] <= MaxOffset
  PROVE  SteadyInv'
  <1>1. TypeOK /\ SeatsCapped /\ SteadyAfter409 /\ SteadyIsAhead /\ OutcomeOfLastFlow
          /\ RestartFindsOwnSeat
    BY DEF Inv, SteadyInv
  <1>2. steady' \subseteq Clients
    BY <1>1, StepKeepsTypes DEF TypeOK
  <1>3. SeatsCapped'
    BY <1>1, StepKeepsSeatsCapped
  <1>4. SteadyAfter409'
    BY <1>1, StepsOfSteady DEF SteadyAfter409, SteadyStep
  <1>5. OutcomeOfLastFlow'
    BY <1>1, StepKeepsOutcome DEF OutcomeOfLastFlow
  <1>6. ASSUME NEW c \in steady, SearchMisses(c), NEW m \in Ids, table[m] = OwnRow(c),
               page[c] >= 1 /\ (page[c] - 1) * PageSize <= Before(c, m)
        PROVE  /\ ~LastPage(c, page[c]) /\ page[c] * PageSize <= Before(c, m)
               /\ page'[c] = page[c] + 1 /\ table' = table
    <2>1. c \in Clients /\ page[c] \in Nat \ {0}
      BY <1>1, <1>6 DEF TypeOK
    <2>2. CreateCap[LicenseOf[c]] <= MaxOffset
      BY <2>1, ConfigOK
    <2>3. ~LastPage(c, page[c]) /\ page[c] * PageSize <= Before(c, m)
      BY <1>1, <1>6, <2>1, <2>2, OwnRowAhead DEF SearchMisses
    <2>4. NextPage(c) /\ table' = table
      BY <1>6, <2>3 DEF SearchMisses, NoServerChange
    <2>5. QED
      BY <1>1, <2>1, <2>3, <2>4 DEF NextPage, TypeOK
  <1>7. SteadyIsAhead'
    <2>1. SUFFICES ASSUME NEW c \in steady'
          PROVE  \E m \in Ids :
                   /\ table'[m] = OwnRow(c)
                   /\ pc'[c] = "search" =>
                        page'[c] >= 1 /\ (page'[c] - 1) * PageSize <= Before(c, m)'
      BY DEF SteadyIsAhead, At, OwnRow
    <2>2. c \in Clients /\ SteadyStep(c)
      BY <1>1, <1>2, <2>1, StepsOfSteady
    <2>3. \A m \in Ids : Before(c, m)' \in Nat
      <3>1. IsFiniteSet(Ids)
        BY FS_Interval, ConfigOK DEF Ids
      <3>2. SUFFICES ASSUME NEW m \in Ids  PROVE Before(c, m)' \in Nat
        OBVIOUS
      <3>3. {x \in Listed(c) : x > m}' \subseteq Ids
        BY DEF Listed, SeatsOf
      <3>4. QED
        BY <3>1, <3>3, FS_Subset, FS_CardinalityType DEF Before
    <2>4. (1 - 1) * PageSize = 0
      BY ConfigOK
    <2>5. CASE c \in steady
      <3>1. PICK m \in Ids : /\ table[m] = OwnRow(c)
                             /\ At(c, "search") =>
                                  page[c] >= 1 /\ (page[c] - 1) * PageSize <= Before(c, m)
        BY <1>1, <2>5 DEF SteadyIsAhead
      <3>2. /\ table'[m] = OwnRow(c)
            /\ At(c, "search") => (page[c] - 1) * PageSize <= Before(c, m)'
        BY <2>1, <2>2, <2>5, <3>1, SteadyRowStays
      <3>3. ASSUME pc'[c] = "search"
            PROVE  page'[c] >= 1 /\ (page'[c] - 1) * PageSize <= Before(c, m)'
        <4>1. CASE page'[c] = 1
          BY <2>3, <2>4, <3>1, <4>1
        <4>2. CASE At(c, "search") /\ page'[c] = page[c]
          BY <3>1, <3>2, <4>2
        <4>3. CASE SearchMisses(c)
          <5>1. At(c, "search")
            BY <4>3 DEF SearchMisses
          <5>2. /\ page[c] * PageSize <= Before(c, m) /\ page'[c] = page[c] + 1
                /\ table' = table
            BY <1>6, <2>5, <3>1, <4>3, <5>1
          <5>3. Before(c, m)' = Before(c, m)
            BY <5>2 DEF Before, Listed, SeatsOf
          <5>4. page[c] \in Nat /\ page'[c] - 1 = page[c] /\ page'[c] >= 1
            BY <1>1, <2>2, <5>2 DEF TypeOK
          <5>5. QED
            BY <5>2, <5>3, <5>4
        <4>4. QED
          BY <1>1, <2>2, <3>3, <4>1, <4>2, <4>3, StepsOfPage DEF At
      <3>4. QED
        BY <3>2, <3>3
    <2>6. CASE c \notin steady
      <3>1. OwnRowExists(c) /\ table' = table /\ (pc'[c] = "search" => page'[c] = 1)
        BY <2>2, <2>6 DEF SteadyStep
      <3>2. PICK m \in Ids : table[m] = OwnRow(c)
        BY <3>1 DEF OwnRowExists
      <3>3. pc'[c] = "search" =>
              page'[c] >= 1 /\ (page'[c] - 1) * PageSize <= Before(c, m)'
        BY <2>3, <2>4, <3>1, <3>2
      <3>4. QED
        BY <3>1, <3>2, <3>3
    <2>7. QED
      BY <2>5, <2>6
  <1>8. RestartFindsOwnSeat'
    <2>1. SUFFICES ASSUME NEW c \in steady', At(c, "idle")'
          PROVE  outcome'[c] # "taken"
      BY DEF RestartFindsOwnSeat, At
    <2>2. c \in Clients /\ SteadyStep(c)
      BY <1>1, <1>2, <2>1, StepsOfSteady
    <2>3. c \in steady
      BY <2>1, <2>2 DEF SteadyStep, At
    <2>4. outcome[c] # "taken"
      BY <1>1, <2>2, <2>3 DEF RestartFindsOwnSeat, OutcomeOfLastFlow, At
    <2>5. ~CreateConflicts(c)
      BY <1>1, <2>2, <2>3 DEF CreateConflicts, SteadyAfter409, At
    <2>6. ~(SearchMisses(c) /\ LastPage(c, page[c]))
      BY <1>1, <1>6, <2>3 DEF SearchMisses, SteadyIsAhead
    <2>7. QED
      BY <1>1, <2>2, <2>4, <2>5, <2>6, StepKeepsOutcome
  <1>9. QED
    BY <1>3, <1>4, <1>5, <1>7, <1>8 DEF SteadyInv

\* Re-activating a fingerprint whose row stays re-raises the 409 only if a row
\* was deleted from a page the search had turned, however many pages the listing
\* has and whatever is created meanwhile, when the cap of every license is below
\* the offset ceiling.
THEOREM RestartHolds ==
  ASSUME \A l \in Licenses : CreateCap[l] <= MaxOffset
  PROVE  Spec => []RestartFindsOwnSeat
  <1>1. Init => Inv /\ SteadyInv
    <2>1. SUFFICES ASSUME Init PROVE SteadyInv
      BY InitInv
    <2>2. \A l \in Licenses : SeatsOf(l) = {}
      BY <2>1, ConfigOK DEF Init, SeatsOf, NoRow
    <2>3. SeatsCapped
      <3>1. \A l \in Licenses : Cardinality(SeatsOf(l)) = 0 /\ CreateCap[l] \in Nat
        BY <2>2, FS_EmptySet, ConfigOK
      <3>2. QED
        BY <3>1 DEF SeatsCapped
    <2>4. QED
      BY <2>1, <2>3
      DEF Init, SteadyInv, SteadyAfter409, SteadyIsAhead, OutcomeOfLastFlow, RestartFindsOwnSeat
  <1>2. Inv /\ SteadyInv /\ [Next]_vars => SteadyInv'
    BY StepKeepsSteadyInv
  <1>3. SteadyInv => RestartFindsOwnSeat
    BY DEF SteadyInv
  <1>4. QED
    BY <1>1, <1>2, <1>3, InvHolds, PTL DEF Spec

-----------------------------------------------------------------------------
(* The end of a flow.                                                      *)

\* How many calls a flow has left at most, by where it is: a page beyond the offset
\* ceiling is the last one, though rows appear as fast as the flow turns pages.
CallsFrom(label, n) ==
  CASE label = "create"                     -> MaxOffset + 4
    [] label = "get"                        -> MaxOffset + 3
    [] label = "search"                     -> MaxOffset + 3 - n
    [] label = "validate"                   -> 2
    [] label \in {"rollback", "revalidate"} -> 1
    [] label = "idle"                       -> 0

CallsLeft(c) == CallsFrom(pc[c], page[c])

PageBelowCeiling == \A c \in Clients : At(c, "search") => page[c] \in 1..(MaxOffset + 1)

\* What a step may do to the calls of flow x.
CallStep(x) ==
  \/ pc'[x] = pc[x] /\ page'[x] = page[x]
  \/ pc'[x] = "idle"
  \/ pc[x] = "idle" /\ pc'[x] = "create"
  \/ pc[x] = "create" /\ pc'[x] \in {"validate", "get"}
  \/ pc[x] = "validate" /\ pc'[x] = "rollback"
  \/ pc[x] = "get" /\ pc'[x] = "revalidate"
  \/ pc[x] \in {"create", "get"} /\ pc'[x] = "search" /\ page'[x] = 1
  \/ pc[x] = "search" /\ pc'[x] = "revalidate"
  \/ pc[x] = "search" /\ pc'[x] = "search" /\ page'[x] = page[x] + 1 /\ page[x] <= MaxOffset

\* A flow's own step leaves it neither where it is nor on the page it has.
Moves(x) == pc[x] # "idle" /\ (pc'[x] = pc[x] => page'[x] # page[x])

LEMMA GotoCalls ==
  ASSUME TypeOK, NEW c \in Clients, NEW label, NEW m, Goto(c, label, m)
  PROVE  /\ pc'[c] = label /\ (label = "search" => page'[c] = 1)
         /\ \A x \in Clients \ {c} : pc'[x] = pc[x] /\ page'[x] = page[x]
  BY DEF Goto, TypeOK

LEMMA EndFlowCalls ==
  ASSUME TypeOK, NEW c \in Clients, NEW m, NEW o, EndFlow(c, m, o)
  PROVE  /\ pc'[c] = "idle"
         /\ \A x \in Clients \ {c} : pc'[x] = pc[x] /\ page'[x] = page[x]
  BY DEF EndFlow, TypeOK

LEMMA NextPageCalls ==
  ASSUME TypeOK, NEW c \in Clients, ~LastPage(c, page[c]), NextPage(c)
  PROVE  /\ pc' = pc /\ page'[c] = page[c] + 1 /\ page'[c] # page[c] /\ page[c] <= MaxOffset
         /\ \A x \in Clients \ {c} : page'[x] = page[x]
  <1>1. /\ pc' = pc /\ page'[c] = page[c] + 1 /\ page[c] \in Nat
        /\ \A x \in Clients \ {c} : page'[x] = page[x]
    BY DEF NextPage, TypeOK
  <1>2. ~(page[c] * PageSize > MaxOffset)
    BY DEF LastPage
  <1>3. page[c] <= MaxOffset
    <2>1. \A n \in Nat, s \in Nat \ {0} : n <= n * s
      OBVIOUS
    <2>2. page[c] * PageSize \in Nat /\ page[c] <= page[c] * PageSize
      BY <1>1, <2>1, ConfigOK
    <2>3. QED
      BY <1>1, <1>2, <2>2, ConfigOK
  <1>4. QED
    BY <1>1, <1>3

LEMMA FlowCalls ==
  ASSUME TypeOK, NEW c \in Clients, Flow(c)
  PROVE  Moves(c) /\ \A x \in Clients : CallStep(x)
  <1>1. SUFFICES /\ Moves(c) /\ CallStep(c)
                 /\ \A x \in Clients \ {c} : pc'[x] = pc[x] /\ page'[x] = page[x]
    BY DEF CallStep
  <1>2. CASE CreateSucceeds(c)
    BY <1>2, GotoCalls DEF CreateSucceeds, At, CallStep, Moves
  <1>3. CASE CreateConflictResolved(c)
    <2>1. PICK m \in NamedBy409(c) : Goto(c, IF m = None THEN "search" ELSE "get", m)
      BY <1>3 DEF CreateConflictResolved
    <2>2. CASE m = None
      BY <1>3, <2>1, <2>2, GotoCalls DEF CreateConflictResolved, At, CallStep, Moves
    <2>3. CASE m # None
      BY <1>3, <2>1, <2>3, GotoCalls DEF CreateConflictResolved, At, CallStep, Moves
    <2>4. QED
      BY <2>2, <2>3
  <1>4. CASE ValidateAnswers(c)
    BY <1>4, GotoCalls, EndFlowCalls DEF ValidateAnswers, Return, At, CallStep, Moves
  <1>5. CASE GetAnswers(c)
    <2>1. pc[c] = "get" /\ (Goto(c, "revalidate", mach[c]) \/ Goto(c, "search", None))
      BY <1>5 DEF GetAnswers, At
    <2>2. QED
      BY <2>1, GotoCalls DEF CallStep, Moves
  <1>6. CASE SearchHits(c)
    BY <1>6, GotoCalls DEF SearchHits, At, CallStep, Moves
  <1>7. CASE SearchMisses(c)
    BY <1>7, NextPageCalls, EndFlowCalls DEF SearchMisses, Return, At, CallStep, Moves
  <1>8. CASE \/ CreateRefused(c) \/ CreateConflicts(c) \/ CreateFails(c)
             \/ ValidateFails(c) \/ RollbackDone(c) \/ RollbackFails(c)
             \/ LookupFails(c) \/ RevalidateAnswers(c) \/ RevalidateFails(c)
    <2>1. pc[c] # "idle" /\ \E m, o : EndFlow(c, m, o)
      BY <1>8
      DEF CreateRefused, CreateConflicts, CreateFails, ValidateFails, RollbackDone,
          RollbackFails, LookupFails, RevalidateAnswers, RevalidateFails, Return, At
    <2>2. QED
      BY <2>1, EndFlowCalls DEF CallStep, Moves
  <1>9. QED
    BY <1>2, <1>3, <1>4, <1>5, <1>6, <1>7, <1>8 DEF Flow

LEMMA StepsOfCalls ==
  ASSUME TypeOK, [Next]_vars, NEW x \in Clients
  PROVE  CallStep(x)
  <1>1. ASSUME NEW c \in Clients, Flow(c)
        PROVE  CallStep(x)
    BY <1>1, FlowCalls
  <1>2. ASSUME NEW c \in Clients, (\E b \in BOOLEAN : Activate(c, b)) \/ Crash(c)
        PROVE  CallStep(x)
    BY <1>2, EndFlowCalls DEF Activate, Crash, At, TypeOK, CallStep
  <1>3. ASSUME NEW c \in Clients,
               Deactivate(c) \/ DeactivateFails(c) \/ LearnsRowIsGone(c) \/ LateCreate(c)
        PROVE  CallStep(x)
    BY <1>3 DEF Deactivate, DeactivateFails, LearnsRowIsGone, LateCreate, flow, CallStep
  <1>4. ASSUME NEW m \in Ids, LateDelete(m) \/ Cull(m)
        PROVE  CallStep(x)
    BY <1>4 DEF LateDelete, Cull, flow, CallStep
  <1>5. CASE UNCHANGED vars
    BY <1>5 DEF vars, flow, CallStep
  <1>6. QED
    BY <1>1, <1>2, <1>3, <1>4, <1>5 DEF Next

LEMMA CallsFromValues ==
  ASSUME NEW label \in PCs, NEW n \in Nat
  PROVE  CallsFrom(label, n) = IF label = "create" THEN MaxOffset + 4
                               ELSE IF label = "get" THEN MaxOffset + 3
                               ELSE IF label = "search" THEN MaxOffset + 3 - n
                               ELSE IF label = "validate" THEN 2
                               ELSE IF label = "idle" THEN 0 ELSE 1
  BY DEF CallsFrom, PCs

LEMMA PagesStayBelow == Spec => []PageBelowCeiling
  <1>1. Init => PageBelowCeiling
    BY DEF Init, PageBelowCeiling, At
  <1>2. ASSUME TypeOK, PageBelowCeiling, [Next]_vars
        PROVE  PageBelowCeiling'
    <2>1. SUFFICES ASSUME NEW x \in Clients, pc'[x] = "search"
                   PROVE  page'[x] \in 1..(MaxOffset + 1)
      BY DEF PageBelowCeiling, At
    <2>2. CallStep(x)
      BY <1>2, <2>1, StepsOfCalls
    <2>3. pc[x] = "search" => page[x] \in 1..(MaxOffset + 1)
      BY <1>2, <2>1 DEF PageBelowCeiling, At
    <2>4. QED
      BY <2>1, <2>2, <2>3, ConfigOK DEF CallStep
  <1>3. QED
    BY <1>1, <1>2, TypeCorrect, PTL DEF Spec

\* Every answer brings a flow strictly nearer to its return, and nothing another
\* installation, the application, a late call or the server does takes it back: a
\* flow makes at most MaxOffset + 4 calls (FindMachineByFingerprint's walk ends at
\* the offset ceiling; the recovery never creates again).  With answers that come,
\* this is why FlowReturns holds.
THEOREM FlowAdvances ==
  Spec => [][\A c \in Clients : ~At(c, "idle") =>
               /\ CallsLeft(c) \in Nat /\ CallsLeft(c)' <= CallsLeft(c)
               /\ Flow(c) => CallsLeft(c)' < CallsLeft(c)]_vars
  <1>1. ASSUME TypeOK, TypeOK', PageBelowCeiling, [Next]_vars, NEW c \in Clients, pc[c] # "idle"
        PROVE  /\ CallsLeft(c) \in Nat /\ CallsLeft(c)' <= CallsLeft(c)
               /\ Flow(c) => CallsLeft(c)' < CallsLeft(c)
    <2>1. CallStep(c) /\ (Flow(c) => Moves(c))
      BY <1>1, StepsOfCalls, FlowCalls
    <2>2. /\ pc[c] \in PCs /\ page[c] \in Nat /\ pc'[c] \in PCs /\ page'[c] \in Nat
          /\ pc[c] = "search" => page[c] \in 1..(MaxOffset + 1)
      BY <1>1 DEF TypeOK, PageBelowCeiling, At
    <2> DEFINE here  == CallsFrom(pc[c], page[c])
               there == CallsFrom(pc'[c], page'[c])
    <2>3. /\ here = IF pc[c] = "create" THEN MaxOffset + 4
                    ELSE IF pc[c] = "get" THEN MaxOffset + 3
                    ELSE IF pc[c] = "search" THEN MaxOffset + 3 - page[c]
                    ELSE IF pc[c] = "validate" THEN 2
                    ELSE IF pc[c] = "idle" THEN 0 ELSE 1
          /\ there = IF pc'[c] = "create" THEN MaxOffset + 4
                     ELSE IF pc'[c] = "get" THEN MaxOffset + 3
                     ELSE IF pc'[c] = "search" THEN MaxOffset + 3 - page'[c]
                     ELSE IF pc'[c] = "validate" THEN 2
                     ELSE IF pc'[c] = "idle" THEN 0 ELSE 1
      BY <2>2, CallsFromValues
    <2>4. CallsLeft(c) = here /\ CallsLeft(c)' = there
      BY DEF CallsLeft
    <2> HIDE DEF here, there
    <2>5. here \in Nat /\ here > 0
      BY <1>1, <2>2, <2>3, ConfigOK DEF PCs
    <2>6. CASE pc'[c] = pc[c] /\ page'[c] = page[c]
      <3>1. there = here /\ ~Flow(c)
        BY <2>1, <2>3, <2>6 DEF Moves
      <3>2. QED
        BY <2>4, <2>5, <3>1
    <2>7. CASE ~(pc'[c] = pc[c] /\ page'[c] = page[c])
      <3>1. there < here
        <4>1. CASE pc'[c] = "idle"
          BY <2>3, <2>5, <4>1
        <4>2. CASE pc'[c] # "idle"
          BY <1>1, <2>1, <2>2, <2>3, <2>7, <4>2, ConfigOK DEF CallStep
        <4>3. QED
          BY <4>1, <4>2
      <3>2. there \in Int
        BY <2>2, <2>3, ConfigOK
      <3>3. QED
        BY <2>4, <2>5, <3>1, <3>2
    <2>8. QED
      BY <2>6, <2>7
  <1>2. ASSUME TypeOK, TypeOK', PageBelowCeiling, [Next]_vars
        PROVE  [\A c \in Clients : ~At(c, "idle") =>
                  /\ CallsLeft(c) \in Nat /\ CallsLeft(c)' <= CallsLeft(c)
                  /\ Flow(c) => CallsLeft(c)' < CallsLeft(c)]_vars
    BY <1>1, <1>2 DEF At
  <1>3. QED
    BY <1>2, TypeCorrect, PagesStayBelow, PTL DEF Spec
===============================================================================
