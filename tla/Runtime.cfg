\* Two messages, a Stop, one failed write, one restart, with either runner.
SPECIFICATION RSpec
CONSTANTS
  a1 = a1
  r1 = r1
  r2 = r2
  o1 = o1
  None = None
  Agents = {a1}
  Runs = {r1, r2}
  Ops = {o1}
  AgentOf <- AllToOne
  OpAgent <- OpsToOne
  OpKind <- StopsOnly
  MaxFaults = 1
  MaxRestarts = 1
INVARIANTS
  RTypeOK
  WorkHasRun
  StopSeesWorkGone
PROPERTIES
  AnswerWasNotForced
  BusyEnds
  StopReturns
\* Calls may all have returned, and a deleted agent accepts no other.
CHECK_DEADLOCK FALSE
