\* Two runs, a read and a send: of another agent's workspace under one grant, or
\* of the owner's CRM under none or under one standing grant.
SPECIFICATION Spec
CONSTANTS
  r1 = r1
  r2 = r2
  r3 = r3
  hook = hook
  b1 = b1
  m1 = m1
  s1 = s1
  g1 = g1
  h1 = h1
  None = None
  OwnCrm = OwnCrm
  Runs = {r1, r2}
  Borrowed = {g1}
  Standing = {h1}
  Egress <- Classes
  Dests = {hook}
  ClassOf <- MCClassOf
  Outbound = {hook}
  Calls = {b1, m1, s1}
  ToolOf <- MCToolOf
  DestOf <- MCDestOf
  Offers <- DefaultOrExternal
CONSTRAINT OneSource
SYMMETRY RunSymmetry
INVARIANTS
  TypeOK
  OnlyLicensedFlows
  OnlyBelievedActs
PROPERTIES
  RevokedStopsFlow
  ApprovalStaysWithItsRun
