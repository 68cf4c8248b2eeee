----------------------------- MODULE ProcessSlots -----------------------------
(***************************************************************************)
(* The life of a process row: CreateProcess, the scheduler that pings it,  *)
(* DeleteProcess and Dispose (machine.go, process_read.go), for the        *)
(* processes of several machines under one license.                        *)
(*                                                                         *)
(* Nothing on the server deletes a row whose process is gone, and each row *)
(* counts against max_processes, so what matters is which rows outlive     *)
(* their process: a process dies, its create or its delete is lost, or it  *)
(* never disposes.  The operating system gives a pid to one live process   *)
(* of a machine at a time, and again after that process is gone.           *)
(***************************************************************************)
EXTENDS PolicyLimits, FiniteSets

CONSTANTS
  Procs,        \* programs, each started again and again
  Machines,
  MachineOf,    \* the machine each program runs on
  Pids,
  MaxProcesses, \* max_processes of the policy
  OverageRaw,   \* overage_strategy of the policy, as it is stored
  MaxIds,       \* bound: rows ever created
  MaxFaults,    \* bound: crashes, failed calls, shutdowns without Dispose
  None

Ids == 1..MaxIds

ASSUME ConfigOK ==
  /\ MachineOf \in [Procs -> Machines]
  /\ MaxProcesses \in Nat /\ OverageRaw \in RawStrategies
  /\ MaxIds \in Nat /\ MaxFaults \in Nat
  /\ None \notin Machines /\ None \notin Pids /\ None \notin Ids

VARIABLES
  \* the server
  table,    \* machine and pid of each row, NoRow without one
  nextId,
  late,     \* calls a process gave up on that the server may still handle
  \* the processes
  pc,
  pid,
  row,      \* the process row in hand: the scheduler's processID
  \* history
  faults,
  culled    \* rows an operator deleted

local == <<pc, pid, row>>
vars  == <<table, nextId, late, local, faults, culled>>

\* "run" is Run's loop, "stopped" follows its return, before Dispose.
PCs == {"off", "create", "run", "stopped", "dispose"}

\* Where a process has a row in hand.
WithRow == {"run", "stopped", "dispose"}

Row      == [machine : Machines, pid : Pids]
NoRow    == [machine |-> None, pid |-> None]
LateCall == [op : {"create"}, row : Row] \union [op : {"delete"}, id : Ids]

TypeOK ==
  /\ table \in [Ids -> Row \union {NoRow}]
  /\ nextId \in 1..(MaxIds + 1)
  /\ late \subseteq LateCall
  /\ pc \in [Procs -> PCs]
  /\ pid \in [Procs -> Pids \union {None}]
  /\ row \in [Procs -> Ids \union {None}]
  /\ \A p \in Procs : /\ pc[p] # "off" => pid[p] \in Pids
                      /\ pc[p] \in WithRow <=> row[p] \in Ids
  /\ faults \in 0..MaxFaults
  /\ culled \subseteq Ids

Init ==
  /\ table = [m \in Ids |-> NoRow] /\ nextId = 1 /\ late = {}
  /\ pc = [p \in Procs |-> "off"]
  /\ pid = [p \in Procs |-> None] /\ row = [p \in Procs |-> None]
  /\ faults = 0 /\ culled = {}

-----------------------------------------------------------------------------
(* The server's side of each call. *)

Rows == {m \in Ids : table[m] # NoRow}

\* Mutant of OwnRow: every process is registered under one machine.
OwnRowOneMachine(p) == [machine |-> CHOOSE m \in Machines : TRUE, pid |-> pid[p]]

\* What CreateProcess sends.
OwnRow(p) == [machine |-> MachineOf[p], pid |-> pid[p]]

\* A pid is unique per machine.
Taken(r) == \E m \in Rows : table[m] = r

OverLimit ==
  ~Allows(EffectiveOverageStrategy(OverageRaw), Cardinality(Rows) + 1, MaxProcesses)

CanCreate(r) == ~Taken(r) /\ ~OverLimit /\ nextId \in Ids

InsertRow(r) ==
  /\ table' = [table EXCEPT ![nextId] = r]
  /\ nextId' = nextId + 1

\* Deleting a row that is gone changes nothing: a 404.
RemoveRow(m) ==
  /\ table' = [table EXCEPT ![m] = NoRow]
  /\ UNCHANGED nextId

NoServerChange == UNCHANGED <<table, nextId>>

Fault == faults < MaxFaults /\ faults' = faults + 1

Goto(p, label) ==
  /\ pc' = [pc EXCEPT ![p] = label]
  /\ UNCHANGED <<pid, row>>

\* The process is over; nothing it knew survives.
Exit(p) ==
  /\ pc' = [pc EXCEPT ![p] = "off"]
  /\ pid' = [pid EXCEPT ![p] = None]
  /\ row' = [row EXCEPT ![p] = None]

-----------------------------------------------------------------------------
(* The start of a process: CreateProcess. *)

\* The pid is one no live process of the machine has.
Start(p) ==
  /\ pc[p] = "off"
  /\ \E i \in Pids :
       /\ \A q \in Procs : MachineOf[q] = MachineOf[p] => pid[q] # i
       /\ pid' = [pid EXCEPT ![p] = i]
  /\ pc' = [pc EXCEPT ![p] = "create"]
  /\ UNCHANGED <<table, nextId, late, row, faults, culled>>

CreateSucceeds(p) ==
  /\ pc[p] = "create" /\ CanCreate(OwnRow(p))
  /\ InsertRow(OwnRow(p))
  /\ pc' = [pc EXCEPT ![p] = "run"]
  /\ row' = [row EXCEPT ![p] = nextId]
  /\ UNCHANGED <<late, pid, faults, culled>>

\* Mutant of CreateRefused: the error is ignored, and a scheduler started without
\* a process.
CreateErrorIgnored(p) ==
  /\ pc[p] = "create" /\ (Taken(OwnRow(p)) \/ OverLimit)
  /\ Goto(p, "run")
  /\ UNCHANGED <<table, nextId, late, faults, culled>>

\* 409 PID_TAKEN or 422 TOO_MANY_PROCESSES: the process has no row.
CreateRefused(p) ==
  /\ pc[p] = "create" /\ (Taken(OwnRow(p)) \/ OverLimit)
  /\ Exit(p)
  /\ UNCHANGED <<table, nextId, late, faults, culled>>

\* Any other error: the server never handles the call, or does so later.
\* (The bound on rows shows up as a server in trouble.)
CreateFails(p) ==
  /\ pc[p] = "create"
  /\ late' \in {late, late \union {[op |-> "create", row |-> OwnRow(p)]}}
  /\ Exit(p)
  /\ IF nextId \in Ids THEN Fault ELSE UNCHANGED <<faults, late>>
  /\ UNCHANGED <<table, nextId, culled>>

-----------------------------------------------------------------------------
(* The scheduler and the end of a process. *)

\* A ping answers 404: the callback learns that the row is gone and cancels.
\* (A ping of a row that exists changes nothing these properties read.)
PingNotFound(p) ==
  /\ pc[p] = "run" /\ row[p] \notin Rows
  /\ Goto(p, "stopped")
  /\ UNCHANGED <<table, nextId, late, faults, culled>>

\* The shutdown signal: the context is cancelled and Run returns.
RunReturns(p) ==
  /\ pc[p] = "run"
  /\ Goto(p, "stopped")
  /\ UNCHANGED <<table, nextId, late, faults, culled>>

\* Mutant of Dispose: it reuses Run's context, which is cancelled, so the
\* delete never reaches the network.
DisposeOnRunContext(p) ==
  /\ pc[p] = "stopped"
  /\ Exit(p)
  /\ UNCHANGED <<table, nextId, late, faults, culled>>

\* Dispose with a context of its own.
Dispose(p) ==
  /\ pc[p] = "stopped"
  /\ Goto(p, "dispose")
  /\ UNCHANGED <<table, nextId, late, faults, culled>>

\* Mutant of DisposeAnswers: every row of the machine is deleted.
DisposeSweepsMachine(p) ==
  /\ pc[p] = "dispose"
  /\ table' = [m \in Ids |-> IF table[m].machine = MachineOf[p] THEN NoRow ELSE table[m]]
  /\ Exit(p)
  /\ UNCHANGED <<nextId, late, faults, culled>>

\* 204 or 404.
DisposeAnswers(p) ==
  /\ pc[p] = "dispose"
  /\ RemoveRow(row[p])
  /\ Exit(p)
  /\ UNCHANGED <<late, faults, culled>>

\* The delete fails, or its answer is lost; the caller may dispose again.
DisposeFails(p) ==
  /\ pc[p] = "dispose"
  /\ late' \in {late, late \union {[op |-> "delete", id |-> row[p]]}}
  /\ Goto(p, "stopped")
  /\ Fault
  /\ UNCHANGED <<table, nextId, culled>>

\* The program ends without Dispose, or passes it a context that is done.
NeverDisposed(p) ==
  /\ pc[p] = "stopped"
  /\ Exit(p)
  /\ Fault
  /\ UNCHANGED <<table, nextId, late, culled>>

\* What the server may still receive from a process that dies.
Unanswered(p) ==
  CASE pc[p] = "create"  -> {[op |-> "create", row |-> OwnRow(p)]}
    [] pc[p] = "dispose" -> {[op |-> "delete", id |-> row[p]]}
    [] OTHER             -> {}

Crash(p) ==
  /\ pc[p] # "off"
  /\ late' \in {late, late \union Unanswered(p)}
  /\ Exit(p)
  /\ Fault
  /\ UNCHANGED <<table, nextId, culled>>

Step(p) ==
  \/ CreateSucceeds(p) \/ CreateRefused(p) \/ CreateFails(p)
  \/ Dispose(p) \/ DisposeAnswers(p) \/ DisposeFails(p)

-----------------------------------------------------------------------------
(* The rest of the world. *)

LateCreate(r) ==
  /\ [op |-> "create", row |-> r] \in late
  /\ late' = late \ {[op |-> "create", row |-> r]}
  /\ IF CanCreate(r) THEN InsertRow(r) ELSE NoServerChange
  /\ UNCHANGED <<local, faults, culled>>

LateDelete(m) ==
  /\ [op |-> "delete", id |-> m] \in late
  /\ late' = late \ {[op |-> "delete", id |-> m]}
  /\ RemoveRow(m)
  /\ UNCHANGED <<local, faults, culled>>

\* An operator deletes a row: DeleteProcess of an id from ListMachineProcesses.
OperatorDeletes(m) ==
  /\ m \in Rows
  /\ RemoveRow(m)
  /\ culled' = culled \union {m}
  /\ UNCHANGED <<late, local, faults>>

Next ==
  \/ \E p \in Procs :
       \/ Start(p) \/ Step(p) \/ PingNotFound(p) \/ RunReturns(p)
       \/ NeverDisposed(p) \/ Crash(p)
  \/ \E r \in Row : LateCreate(r)
  \/ \E m \in Ids : LateDelete(m) \/ OperatorDeletes(m)

\* Every call ends, and a program that shut down goes on to dispose; when a
\* program starts or shuts down, and when late calls arrive, is anybody's.
Spec == Init /\ [][Next]_vars /\ \A p \in Procs : WF_vars(Step(p))

-----------------------------------------------------------------------------
(* Properties. *)

\* The rows no process has in hand.
Leaked == {m \in Rows : \A p \in Procs : row[p] # m}

\* Every row that outlives its process is owed to a crash, a lost call or a
\* shutdown without Dispose of its own: processes that end as the documentation
\* asks leave nothing behind, however often they restart (DeleteProcess: "the
\* only cleanup that happens").
LeaksCounted == Cardinality(Leaked) <= faults

\* A new process is refused with PID_TAKEN only by a row that outlived an
\* earlier process with its pid: never by a neighbour that is running, and
\* never while nothing leaked (CreateProcess: "Unique PID per machine").
TakenOnlyByLeak ==
  \A p \in Procs : pc[p] = "create" /\ Taken(OwnRow(p)) =>
    \E m \in Leaked : table[m] = OwnRow(p)

\* A running process keeps its row, unless an operator deletes it: no delete of
\* another process, late ones included, and no reuse of its pid takes it away
\* (DeleteProcess names the row, Dispose the scheduler's own).
RunningKeepsRow ==
  \A p \in Procs : pc[p] = "run" => row[p] \in culled \/ (row[p] \in Rows /\ table[row[p]] = OwnRow(p))

\* Without a fault, the row of a program that shut down is deleted in the end:
\* again and again every row is gone or has a running process, so restarts never
\* use the slots up (Dispose).
SlotFreed ==
  \A m \in Ids :
    []<>(m \in Rows /\ faults = 0 => \E p \in Procs : row[p] = m /\ pc[p] = "run")

-----------------------------------------------------------------------------
(* The inductive invariant (proved in ProcessSlots_proofs). *)

LateCreates == {r \in Row : [op |-> "create", row |-> r] \in late}

\* Live processes of a machine have different pids, and no row is in two hands.
Apart ==
  \A p, q \in Procs : p # q =>
    /\ pid[p] \in Pids /\ MachineOf[p] = MachineOf[q] => pid[p] # pid[q]
    /\ row[p] \in Ids => row[p] # row[q]

\* A row in hand is the process's own or gone, and gone only by its own delete or
\* an operator's.
InHand(p) ==
  row[p] \in Ids =>
    /\ row[p] < nextId
    /\ table[row[p]] \in {NoRow, OwnRow(p)}
    /\ pc[p] = "run" =>
         /\ table[row[p]] = OwnRow(p) \/ row[p] \in culled
         /\ [op |-> "delete", id |-> row[p]] \notin late

\* No row and no delete is ahead of the counter.
Numbered ==
  \A m \in Ids : m >= nextId =>
    table[m] = NoRow /\ [op |-> "delete", id |-> m] \notin late

\* What may still outlive its process is paid for as well.
Paid ==
  /\ IsFiniteSet(LateCreates)
  /\ Cardinality(Leaked) + Cardinality(LateCreates) <= faults

Hands == Apart /\ (\A p \in Procs : InHand(p)) /\ Numbered

Inv == TypeOK /\ Hands /\ Paid
=============================================================================
