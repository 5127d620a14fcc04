\* Two messages, a Stop and a Delete, one failed write, one restart: safety.
SPECIFICATION Spec
CONSTANTS
  a1 = a1
  r1 = r1
  r2 = r2
  r3 = r3
  o1 = o1
  o2 = o2
  None = None
  Agents = {a1}
  Runs = {r1, r2}
  Ops = {o1, o2}
  AgentOf <- AllToOne
  OpAgent <- OpsToOne
  OpKind <- StopAndDelete
  MaxFaults = 1
  MaxRestarts = 1
INVARIANTS
  TypeOK
  LiveTokenHasRun
  BusyHasRun
  StopFindsTheRun
  OneRunUnlessOutlived
  StopSeesRunOut
PROPERTIES
  RevokedStaysRevoked
  TerminalIsFinal
  DeletedStaysDeleted
  StoppedStays
\* Calls may all have returned, and a deleted agent accepts no other.
CHECK_DEADLOCK FALSE
