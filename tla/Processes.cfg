\* Three programs on two machines, two pids per machine; one row licensed and
\* two allowed.
CONSTANTS
  a = a  b = b  c = c  m1 = m1  m2 = m2  i1 = i1  i2 = i2
  None = None
  Procs = {a, b, c}
  Machines = {m1, m2}
  MachineOf <- ThreeMachineOf
  Pids = {i1, i2}
  MaxProcesses = 1
  OverageRaw = "ALLOW_2X_OVERAGE"
  MaxIds = 3
  MaxFaults = 1
SPECIFICATION Spec
INVARIANTS
  TypeOK
  LeaksCounted
  TakenOnlyByLeak
  RunningKeepsRow
PROPERTIES
  SlotFreed
