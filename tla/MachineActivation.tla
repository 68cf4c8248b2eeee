-------------------------- MODULE MachineActivation --------------------------
(***************************************************************************)
(* Machine activation: ActivateMachine and ActivateMachineIdempotent       *)
(* (machine.go, machine_read.go), run by several installations against one *)
(* licensing server, with lost and late calls, crashes and restarts, rows  *)
(* deleted behind the client's back and a search that walks pages.         *)
(*                                                                         *)
(* Every HTTP call of a flow is one step, because the SDK keeps no lock    *)
(* and reads nothing shared between two calls: what matters is the order   *)
(* in which the server handles the calls of different installations.  The  *)
(* server (the table of machine rows, its uniqueness check and its limits) *)
(* is not in the repository; it is modelled from what the SDK's doc        *)
(* comments and tests rely on.                                             *)
(***************************************************************************)
EXTENDS Integers, FiniteSets

CONSTANTS
  Clients,           \* installations, each one running one flow at a time
  Licenses,
  Fingerprints,
  LicenseOf,         \* the license each installation runs under
  FingerprintOf,     \* the hardware fingerprint it computes
  Contains,          \* fingerprints that filter[q] lists for a search term
  WideUniqueness,    \* UNIQUE_PER_POLICY/_ACCOUNT, as against _LICENSE
  SeatLimit,         \* per license: above it validate says TOO_MANY_MACHINES
  CreateCap,         \* per license: at it POST /machines answers 422
  PageSize,          \* rows per page of GET /machines
  MaxOffset,         \* maxListMachinesOffset
  MaxIds,            \* bound: rows ever created
  MaxFaults,         \* bound: lost, failed and late calls, and crashes
  None

Ids == 1..MaxIds

ASSUME ConfigOK ==
  /\ LicenseOf \in [Clients -> Licenses]
  /\ FingerprintOf \in [Clients -> Fingerprints]
  /\ Contains \in [Fingerprints -> SUBSET Fingerprints]
  /\ \A f \in Fingerprints : f \in Contains[f]
  /\ None \notin Licenses /\ None \notin Fingerprints /\ None \notin Ids
  /\ WideUniqueness \in BOOLEAN
  /\ SeatLimit \in [Licenses -> Nat] /\ CreateCap \in [Licenses -> Nat]
  /\ PageSize \in Nat \ {0} /\ MaxOffset \in Nat
  /\ MaxIds \in Nat /\ MaxFaults \in Nat

VARIABLES
  \* the server
  table,     \* license and fingerprint of each machine row, NoRow without one
  nextId,
  late,      \* calls a client gave up on that the server may still handle
  \* one flow per client: the locals of the two functions
  pc,
  idem,      \* the flow is ActivateMachineIdempotent
  mach,      \* the machine the flow has in hand
  page,      \* opts.Page of FindMachineByFingerprint
  \* the embedding application
  held,      \* the *Machine of its last flow, None for nil
  outcome,   \* how that flow returned
  \* history
  faults,
  excused,   \* rows whose loss a fault or the application explains
  steady     \* flows whose own row existed at the 409 and ever since, with no
             \* row deleted from a page their search had turned

flow == <<pc, idem, mach, page>>
app  == <<held, outcome>>
vars == <<table, nextId, late, flow, app, faults, excused, steady>>

PCs == {"idle", "create", "validate", "rollback", "get", "search", "revalidate"}

\* Where a flow has a machine in hand.
WithMachine == {"validate", "rollback", "get", "revalidate"}

\* "granted" is (machine, VALID, nil); "invalid" is (machine, meta, nil) with
\* meta.Valid false; the others are the errors of the two functions.
Outcomes == {"none", "granted", "invalid", "overLimit", "taken", "error",
             "validateErr"}

Row      == [lic : Licenses, fp : Fingerprints]
NoRow    == [lic |-> None, fp |-> None]
LateCall == [op : {"create"}, by : Clients] \union [op : {"delete"}, id : Ids]

TypeOK ==
  /\ table \in [Ids -> Row \union {NoRow}]
  /\ nextId \in 1..(MaxIds + 1)
  /\ late \subseteq LateCall
  /\ pc \in [Clients -> PCs]
  /\ idem \in [Clients -> BOOLEAN]
  /\ mach \in [Clients -> Ids \union {None}]
  /\ \A c \in Clients : pc[c] \in WithMachine => mach[c] \in Ids
  /\ page \in [Clients -> Nat]
  /\ held \in [Clients -> Ids \union {None}]
  /\ outcome \in [Clients -> Outcomes]
  /\ faults \in 0..MaxFaults
  /\ excused \subseteq Ids
  /\ steady \subseteq Clients

Init ==
  /\ table = [m \in Ids |-> NoRow] /\ nextId = 1 /\ late = {}
  /\ pc = [c \in Clients |-> "idle"] /\ idem = [c \in Clients |-> FALSE]
  /\ mach = [c \in Clients |-> None] /\ page = [c \in Clients |-> 0]
  /\ held = [c \in Clients |-> None] /\ outcome = [c \in Clients |-> "none"]
  /\ faults = 0 /\ excused = {} /\ steady = {}

-----------------------------------------------------------------------------
(* The server's side of each call. *)

Rows == {m \in Ids : table[m] # NoRow}

SeatsOf(l) == {m \in Ids : table[m].lic = l}

OwnRow(c) == [lic |-> LicenseOf[c], fp |-> FingerprintOf[c]]

OwnRowExists(c) == \E m \in Ids : table[m] = OwnRow(c)

\* The uniqueness pre-check of POST /machines, run before the limits.
Taken(c) ==
  \E m \in Ids : /\ table[m].fp = FingerprintOf[c]
                 /\ WideUniqueness \/ table[m].lic = LicenseOf[c]

OverCap(c) == Cardinality(SeatsOf(LicenseOf[c])) >= CreateCap[LicenseOf[c]]

CanCreate(c) == ~Taken(c) /\ ~OverCap(c) /\ nextId \in Ids

InsertRow(c) ==
  /\ table' = [table EXCEPT ![nextId] = OwnRow(c)]
  /\ nextId' = nextId + 1

\* GET /machines scoped to the license and narrowed by filter[q].
Listed(c) == {m \in SeatsOf(LicenseOf[c]) : table[m].fp \in Contains[FingerprintOf[c]]}

\* The rows listed before m: the newest comes first.
Before(c, m) == Cardinality({x \in Listed(c) : x > m})

\* Page n of that listing.
PageOf(c, n) ==
  {m \in Listed(c) : (n - 1) * PageSize <= Before(c, m) /\ Before(c, m) < n * PageSize}

\* The rows on the pages that a search has turned.
Walked(c) ==
  IF pc[c] = "search" THEN {m \in Listed(c) : Before(c, m) < (page[c] - 1) * PageSize} ELSE {}

\* A deleted row is no longer the steady row of any flow, and moves what is
\* behind it nearer: a search that has turned its page may pass a row by.
RemoveRow(m) ==
  /\ table' = [table EXCEPT ![m] = NoRow]
  /\ steady' = {c \in steady : table[m] # OwnRow(c) /\ m \notin Walked(c)}
  /\ UNCHANGED nextId

NoServerChange == UNCHANGED <<table, nextId>>

\* What a validate call may answer.  A license can be suspended, or over its
\* process limit, at any time; VALID and TOO_MANY_MACHINES follow the count.
Verdicts(l) ==
  {"SUSPENDED", "TOO_MANY_PROCESSES"} \union
    (IF Cardinality(SeatsOf(l)) > SeatLimit[l] THEN {"TOO_MANY_MACHINES"} ELSE {"VALID"})

\* meta.machineId of a 409: named for a same-license conflict only, left out
\* by a server that predates it, and possibly naming the wrong row.
NamedBy409(c) ==
  {None} \union (IF OwnRowExists(c) THEN SeatsOf(LicenseOf[c]) ELSE {})

\* isOverageCode: the verdicts that end in (.., ErrMachineOverLimit).
IsOverageCode(code) ==
  code \in {"TOO_MANY_MACHINES", "TOO_MANY_CORES", "TOO_MUCH_MEMORY",
            "TOO_MUCH_DISK", "TOO_MANY_PROCESSES"}

-----------------------------------------------------------------------------
(* How a flow moves on and returns. *)

At(c, label) == pc[c] = label

\* The rows c is answerable for: the one it holds, the one its flow created.
InHand(c) ==
  {held[c]} \union (IF pc[c] \in {"validate", "rollback"} THEN {mach[c]} ELSE {})

\* The rows in S are lost from view, for a reason outside the flows.
Excuse(S) == excused' = {m \in excused \union S : m \in Ids /\ table'[m] # NoRow}

Fault == faults < MaxFaults /\ faults' = faults + 1

Goto(c, label, m) ==
  /\ pc' = [pc EXCEPT ![c] = label]
  /\ mach' = [mach EXCEPT ![c] = m]
  /\ page' = [page EXCEPT ![c] = IF label = "search" THEN 1 ELSE 0]
  /\ UNCHANGED <<idem, app, excused>>

\* Mutant of NextPage: the walk refetches the page it has.
NextPageStuck(c) == UNCHANGED <<pc, idem, mach, page, app, excused>>

NextPage(c) ==
  /\ page' = [page EXCEPT ![c] = @ + 1]
  /\ UNCHANGED <<pc, idem, mach, app, excused>>

\* The flow is over and the application has machine m and outcome o.
EndFlow(c, m, o) ==
  /\ pc' = [pc EXCEPT ![c] = "idle"]
  /\ idem' = [idem EXCEPT ![c] = FALSE]
  /\ mach' = [mach EXCEPT ![c] = None]
  /\ page' = [page EXCEPT ![c] = 0]
  /\ held' = [held EXCEPT ![c] = m]
  /\ outcome' = [outcome EXCEPT ![c] = o]

\* The result overwrites what the application had: a row it drops that way,
\* and one the flow had to leave behind, are excused.
Return(c, m, o, leaving) ==
  /\ EndFlow(c, m, o)
  /\ Excuse(leaving \union ({held[c]} \ {m}))

-----------------------------------------------------------------------------
(* ActivateMachine. *)

\* The application calls one of the two functions; it does not activate
\* again while it holds a granted seat.
Activate(c, idempotent) ==
  /\ At(c, "idle") /\ outcome[c] # "granted"
  /\ pc' = [pc EXCEPT ![c] = "create"]
  /\ idem' = [idem EXCEPT ![c] = idempotent]
  /\ outcome' = [outcome EXCEPT ![c] = "none"]
  /\ steady' = steady \ {c}
  /\ UNCHANGED <<table, nextId, late, mach, page, held, faults, excused>>

\* Mutant of CreateSucceeds: the machine is granted without a validate.
CreateTrusted(c) ==
  /\ At(c, "create") /\ CanCreate(c)
  /\ InsertRow(c)
  /\ Return(c, nextId, "granted", {})
  /\ UNCHANGED <<late, faults, steady>>

CreateSucceeds(c) ==
  /\ At(c, "create") /\ CanCreate(c)
  /\ InsertRow(c)
  /\ Goto(c, "validate", nextId)
  /\ UNCHANGED <<late, faults, steady>>

\* 422 *_LIMIT_EXCEEDED: createTimeLimitCode, no row, hence no delete.
CreateRefused(c) ==
  /\ At(c, "create") /\ ~Taken(c) /\ OverCap(c)
  /\ NoServerChange
  /\ Return(c, None, "overLimit", {})
  /\ UNCHANGED <<late, faults, steady>>

\* 409 FINGERPRINT_TAKEN: ActivateMachine propagates it.
CreateConflicts(c) ==
  /\ At(c, "create") /\ Taken(c) /\ ~idem[c]
  /\ NoServerChange
  /\ Return(c, None, "taken", {})
  /\ UNCHANGED <<late, faults, steady>>

\* Mutant of CreateConflictResolved: a 409 that names no row is not searched.
CreateConflictFetched(c) ==
  /\ At(c, "create") /\ Taken(c) /\ idem[c]
  /\ \E m \in NamedBy409(c) : Goto(c, "get", m)
  /\ steady' = IF OwnRowExists(c) THEN steady \union {c} ELSE steady
  /\ UNCHANGED <<table, nextId, late, faults>>

\* The idempotent flow fetches the row the 409 names, or else searches.
CreateConflictResolved(c) ==
  /\ At(c, "create") /\ Taken(c) /\ idem[c]
  /\ \E m \in NamedBy409(c) : Goto(c, IF m = None THEN "search" ELSE "get", m)
  /\ steady' = IF OwnRowExists(c) THEN steady \union {c} ELSE steady
  /\ UNCHANGED <<table, nextId, late, faults>>

\* Any other error: a 5xx, a timeout, a connection that broke.  The server
\* never handles the call, or does so later; a lost answer is a call it
\* handles at once.  (The bound on rows shows up as a server in trouble.)
CreateFails(c) ==
  /\ At(c, "create")
  /\ late' \in {late, late \union {[op |-> "create", by |-> c]}}
  /\ NoServerChange
  /\ Return(c, None, "error", {})
  /\ IF nextId \in Ids THEN Fault ELSE UNCHANGED faults
  /\ UNCHANGED steady

\* Mutant of ValidateAnswers: over the limit, the created row is not rolled back.
ValidateLeavesRow(c) ==
  /\ At(c, "validate")
  /\ NoServerChange
  /\ \E code \in Verdicts(LicenseOf[c]) :
       IF IsOverageCode(code) THEN Return(c, None, "overLimit", {})
       ELSE Return(c, mach[c], IF code = "VALID" THEN "granted" ELSE "invalid", {})
  /\ UNCHANGED <<late, faults, steady>>

ValidateAnswers(c) ==
  /\ At(c, "validate")
  /\ NoServerChange
  /\ \E code \in Verdicts(LicenseOf[c]) :
       IF IsOverageCode(code) THEN Goto(c, "rollback", mach[c])
       ELSE Return(c, mach[c], IF code = "VALID" THEN "granted" ELSE "invalid", {})
  /\ UNCHANGED <<late, faults, steady>>

\* The row is kept and returned beside the error.
ValidateFails(c) ==
  /\ At(c, "validate")
  /\ NoServerChange
  /\ Return(c, mach[c], "validateErr", {})
  /\ Fault
  /\ UNCHANGED <<late, steady>>

\* DeleteMachine of the row this flow created; its error is discarded, so a
\* 404, a lost answer and a success all return the same.
RollbackDone(c) ==
  /\ At(c, "rollback")
  /\ RemoveRow(mach[c])
  /\ Return(c, None, "overLimit", {})
  /\ UNCHANGED <<late, faults>>

RollbackFails(c) ==
  /\ At(c, "rollback")
  /\ late' \in {late, late \union {[op |-> "delete", id |-> mach[c]]}}
  /\ NoServerChange
  /\ Return(c, None, "overLimit", {mach[c]})
  /\ Fault
  /\ UNCHANGED steady

-----------------------------------------------------------------------------
(* What ActivateMachineIdempotent adds: resolveTakenFingerprint, then      *)
(* FindMachineByFingerprint, and a second validate that deletes nothing.   *)

\* Mutant of IsNamedRow: the row the 409 names is believed.
AnyNamedRow(c, m) == table[m] # NoRow

\* The row GetMachine returned carries this installation's fingerprint.
IsNamedRow(c, m) == table[m].fp = FingerprintOf[c]

GetAnswers(c) ==
  /\ At(c, "get")
  /\ IF IsNamedRow(c, mach[c]) THEN Goto(c, "revalidate", mach[c])
                               ELSE Goto(c, "search", None)
  /\ UNCHANGED <<table, nextId, late, faults, steady>>

ExactMatches(c, n) == {m \in PageOf(c, n) : table[m].fp = FingerprintOf[c]}

\* Mutant of LastPage: the walk ends one page early.
LastPageButOne(c, n) ==
  \/ (n + 1) * PageSize >= Cardinality(Listed(c))
  \/ PageOf(c, n) = {}
  \/ n * PageSize > MaxOffset

\* Number >= TotalPages, an empty page, or the offset ceiling.
LastPage(c, n) ==
  \/ n * PageSize >= Cardinality(Listed(c))
  \/ PageOf(c, n) = {}
  \/ n * PageSize > MaxOffset

SearchHits(c) ==
  /\ At(c, "search")
  /\ \E m \in ExactMatches(c, page[c]) : Goto(c, "revalidate", m)
  /\ UNCHANGED <<table, nextId, late, faults, steady>>

SearchMisses(c) ==
  /\ At(c, "search")
  /\ ExactMatches(c, page[c]) = {}
  /\ NoServerChange
  /\ IF LastPage(c, page[c]) THEN Return(c, None, "taken", {}) ELSE NextPage(c)
  /\ UNCHANGED <<late, faults, steady>>

LookupFails(c) ==
  /\ pc[c] \in {"get", "search"}
  /\ NoServerChange
  /\ Return(c, None, "error", {})
  /\ Fault
  /\ UNCHANGED <<late, steady>>

\* Mutant of RevalidateAnswers: the recovered row is rolled back like a new one.
RevalidateRollsBack(c) ==
  /\ At(c, "revalidate")
  /\ \E code \in Verdicts(LicenseOf[c]) :
       IF IsOverageCode(code)
       THEN RemoveRow(mach[c]) /\ Return(c, None, "overLimit", {})
       ELSE /\ NoServerChange /\ UNCHANGED steady
            /\ Return(c, mach[c], IF code = "VALID" THEN "granted" ELSE "invalid", {})
  /\ UNCHANGED <<late, faults>>

RevalidateAnswers(c) ==
  /\ At(c, "revalidate")
  /\ NoServerChange
  /\ \E code \in Verdicts(LicenseOf[c]) :
       Return(c, mach[c],
              CASE IsOverageCode(code) -> "overLimit"
                [] code = "VALID"      -> "granted"
                [] OTHER               -> "invalid", {})
  /\ UNCHANGED <<late, faults, steady>>

RevalidateFails(c) ==
  /\ At(c, "revalidate")
  /\ NoServerChange
  /\ Return(c, mach[c], "validateErr", {})
  /\ Fault
  /\ UNCHANGED <<late, steady>>

Flow(c) ==
  \/ CreateSucceeds(c) \/ CreateRefused(c) \/ CreateConflicts(c)
  \/ CreateConflictResolved(c) \/ CreateFails(c)
  \/ ValidateAnswers(c) \/ ValidateFails(c) \/ RollbackDone(c) \/ RollbackFails(c)
  \/ GetAnswers(c) \/ SearchHits(c) \/ SearchMisses(c) \/ LookupFails(c)
  \/ RevalidateAnswers(c) \/ RevalidateFails(c)

-----------------------------------------------------------------------------
(* The embedding application, its crashes, and the rest of the world. *)

\* The application no longer has the machine it held.
Forget(c) ==
  /\ held' = [held EXCEPT ![c] = None]
  /\ outcome' = [outcome EXCEPT ![c] = "none"]

\* DeleteMachine of the held machine; on an error the application keeps it.
Deactivate(c) ==
  /\ At(c, "idle") /\ held[c] # None
  /\ RemoveRow(held[c])
  /\ Forget(c) /\ Excuse({})
  /\ UNCHANGED <<late, flow, faults>>

DeactivateFails(c) ==
  /\ At(c, "idle") /\ held[c] # None
  /\ late' = late \union {[op |-> "delete", id |-> held[c]]}
  /\ Fault
  /\ UNCHANGED <<table, nextId, flow, app, excused, steady>>

\* A heartbeat ping answers 404, the one signal that the row is gone.
LearnsRowIsGone(c) ==
  /\ At(c, "idle") /\ held[c] # None /\ held[c] \notin Rows
  /\ Forget(c)
  /\ UNCHANGED <<table, nextId, late, flow, faults, excused, steady>>

\* What the server may still receive from a flow that dies.
Unanswered(c) ==
  CASE At(c, "create")   -> {[op |-> "create", by |-> c]}
    [] At(c, "rollback") -> {[op |-> "delete", id |-> mach[c]]}
    [] OTHER             -> {}

\* The process dies and restarts; nothing is persisted.
Crash(c) ==
  /\ ~At(c, "idle") \/ held[c] # None
  /\ late' \in {late, late \union Unanswered(c)}
  /\ NoServerChange
  /\ EndFlow(c, None, "none")
  /\ Excuse(InHand(c))
  /\ Fault
  /\ steady' = steady \ {c}

LateCreate(c) ==
  /\ [op |-> "create", by |-> c] \in late
  /\ late' = late \ {[op |-> "create", by |-> c]}
  /\ IF CanCreate(c) THEN InsertRow(c) /\ Excuse({nextId})
                     ELSE UNCHANGED <<table, nextId, excused>>
  /\ UNCHANGED <<flow, app, faults, steady>>

LateDelete(m) ==
  /\ [op |-> "delete", id |-> m] \in late
  /\ late' = late \ {[op |-> "delete", id |-> m]}
  /\ RemoveRow(m) /\ Excuse({})
  /\ UNCHANGED <<flow, app, faults>>

\* An administrator deletes a row, or the server culls a dead one.
Cull(m) ==
  /\ m \in Rows
  /\ RemoveRow(m) /\ Excuse({})
  /\ UNCHANGED <<late, flow, app, faults>>

Next ==
  \/ \E c \in Clients :
       \/ \E b \in BOOLEAN : Activate(c, b)
       \/ Flow(c)
       \/ Deactivate(c) \/ DeactivateFails(c) \/ LearnsRowIsGone(c)
       \/ Crash(c) \/ LateCreate(c)
  \/ \E m \in Ids : LateDelete(m) \/ Cull(m)

\* Every call of a flow ends: the server answers, or the client's timeout
\* (DefaultTimeout) makes it an error.
Spec == Init /\ [][Next]_vars /\ \A c \in Clients : WF_vars(Flow(c))

-----------------------------------------------------------------------------
(* Properties. *)

GrantedSeats(l) ==
  {m \in SeatsOf(l) : \E c \in Clients : held[c] = m /\ outcome[c] = "granted"}

\* "Reject over-limit activation": however the flows of several installations
\* interleave, the machines whose activation returned VALID never outnumber
\* what the license allows, though every create may pass the create-time
\* check (ActivateMachine's validate and rollback, machine.go).
SeatsWithinLimit ==
  \A l \in Licenses : Cardinality(GrantedSeats(l)) <= SeatLimit[l]

\* No flow ever hands the application a machine of another license or of
\* another fingerprint: not by the row a 409 names, not by the substring
\* search (resolveTakenFingerprint, FindMachineByFingerprint).
HoldsOwnSeat ==
  \A c \in Clients : held[c] \in Rows => table[held[c]] = OwnRow(c)

\* A row that exists is known to an application or to a flow that will return
\* or roll it back, unless a fault, a crash or the application itself lost
\* it: the flows leave no orphaned row behind (ActivateMachine's rollback).
NoSilentOrphan ==
  \A m \in Rows : m \in excused \/ \E c \in Clients : m \in InHand(c)

\* A flow in the recovery of a 409 deletes nothing, whatever the verdict: only
\* a machine the same call created is rolled back (ActivateMachineIdempotent's
\* doc comment).
RecoveryDestroysNothing ==
  [][\A c \in Clients : pc[c] # pc'[c] /\ pc[c] \in {"get", "search", "revalidate"}
                           => Rows \subseteq Rows']_vars

\* Re-activating a fingerprint whose row exists on the caller's own license,
\* and keeps existing, re-raises the 409 only if a row was deleted from a page
\* the search had turned: not because the 409 named another row or none, nor
\* because rows are created while it walks (FindMachineByFingerprint: "a
\* genuine re-activation of this license's own machine is found").
RestartFindsOwnSeat ==
  \A c \in steady : At(c, "idle") => outcome[c] # "taken"

\* Every activation returns: no page walk and no call sequence runs forever.
FlowReturns == \A c \in Clients : []<>At(c, "idle")

-----------------------------------------------------------------------------
(* The inductive invariants (proved in MachineActivation_proofs).          *)

\* Ids from nextId on are unused and unknown to every client.
FreshIds ==
  /\ \A m \in Ids : m >= nextId => table[m] = NoRow
  /\ \A c \in Clients : /\ held[c] \in Ids => held[c] < nextId
                        /\ mach[c] \in Ids => mach[c] < nextId

\* The row a flow is about to validate or delete is its own; the row a 409
\* named is at least of its license.
FlowOwnsItsMachine ==
  \A c \in Clients : mach[c] \in Rows =>
    /\ pc[c] \in {"validate", "rollback", "revalidate"} => table[mach[c]] = OwnRow(c)
    /\ pc[c] = "get" => table[mach[c]].lic = LicenseOf[c]

Inv == TypeOK /\ FreshIds /\ FlowOwnsItsMachine /\ HoldsOwnSeat /\ SeatsWithinLimit

\* The create-time check keeps the rows of a license within its cap.
SeatsCapped == \A l \in Licenses : Cardinality(SeatsOf(l)) <= CreateCap[l]

\* Only a 409 makes a flow steady, so one that creates, or rolls back what it
\* created, is not.
SteadyAfter409 ==
  \A c \in Clients : pc[c] \in {"create", "validate", "rollback"} => c \notin steady

\* A steady flow's row exists and its search has not passed it by: it is on the
\* page to fetch or behind it.
SteadyIsAhead ==
  \A c \in steady : \E m \in Ids :
    /\ table[m] = OwnRow(c)
    /\ At(c, "search") => page[c] >= 1 /\ (page[c] - 1) * PageSize <= Before(c, m)

\* No earlier outcome lasts into a flow.
OutcomeOfLastFlow == \A c \in Clients : pc[c] # "idle" => outcome[c] = "none"

\* The invariant behind RestartFindsOwnSeat, when every cap is below the offset
\* ceiling.
SteadyInv ==
  /\ SeatsCapped /\ SteadyAfter409 /\ SteadyIsAhead /\ OutcomeOfLastFlow
  /\ RestartFindsOwnSeat
=============================================================================
