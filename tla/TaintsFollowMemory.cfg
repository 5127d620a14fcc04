\* Three messages of which the estimator delays one, one borrowed read.
SPECIFICATION Spec
CONSTANTS
  r1 = r1
  r2 = r2
  r3 = r3
  hook = hook
  b1 = b1
  m1 = m1
  s1 = s1
  g1 = g1
  h1 = h1
  None = None
  OwnCrm = OwnCrm
  Runs = {r1, r2, r3}
  Borrowed = {g1}
  Standing = {}
  Egress <- Classes
  Dests = {hook}
  ClassOf <- MCClassOf
  Outbound = {hook}
  Calls = {b1}
  ToolOf <- MCToolOf
  DestOf <- MCDestOf
  Offers <- DefaultOrExternal
INVARIANTS
  TaintsFollowMemory
