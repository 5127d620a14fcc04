\* Two runs or two scopes, two cards, one call, one answer and killAgent at a time, one kill.
SPECIFICATION Spec
CONSTANTS
  Scopes = {s1, s2}
  Runs = {r1, r2}
  Cards = {k1, k2}
  Calls = {c1}
  Humans = {h1}
  Killer = Killer
  None = None
  MaxKills = 1
CONSTRAINT OneRunOrScope
SYMMETRY Symmetry
INVARIANTS
  TypeOK
  NarrowingHolds
  AllowedRunMayRetry
  DenyChangesNothing
  KillHolds
\* Messages and cards run out.
CHECK_DEADLOCK FALSE
