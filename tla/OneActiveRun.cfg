\* Two messages and a Stop, no fault: two active runs of one agent.
SPECIFICATION Spec
CONSTANTS
  a1 = a1
  r1 = r1
  r2 = r2
  r3 = r3
  o1 = o1
  o2 = o2
  None = None
  Agents = {a1}
  Runs = {r1, r2}
  Ops = {o1}
  AgentOf <- AllToOne
  OpAgent <- OpsToOne
  OpKind <- StopsOnly
  MaxFaults = 0
  MaxRestarts = 0
INVARIANTS
  OneActiveRun
\* Calls may all have returned, and a deleted agent accepts no other.
CHECK_DEADLOCK FALSE
