\* One message and a restart, no fault: the run ends and its token does not.
SPECIFICATION Spec
CONSTANTS
  a1 = a1
  r1 = r1
  r2 = r2
  r3 = r3
  o1 = o1
  o2 = o2
  None = None
  Agents = {a1}
  Runs = {r1}
  Ops = {o1}
  AgentOf <- AllToOne
  OpAgent <- OpsToOne
  OpKind <- StopsOnly
  MaxFaults = 0
  MaxRestarts = 1
INVARIANTS
  EndedRunHasNoToken
\* Calls may all have returned, and a deleted agent accepts no other.
CHECK_DEADLOCK FALSE
