\* Two users, an agent of each and one the first may create, two cards.
SPECIFICATION Spec
CONSTANTS
  u1 = u1
  u2 = u2
  a1 = a1
  a2 = a2
  b1 = b1
  c1 = c1
  c2 = c2
  Users = {u1, u2}
  Agents = {a1, a2, b1}
  Owner <- MCOwner
  AtFirst = {a1, b1}
  Cards = {c1, c2}
  About <- MCAbout
  None = None
  MaxRows = 1
  Paths = {p1, p2}
  MaxNet = 2
  MaxFailures = 1
CONSTRAINT Few
INVARIANTS
  OnlyOwnData
  DecidedStaysDecided
PROPERTIES
  TrailMovesForward
  RunStaysWatched
CHECK_DEADLOCK FALSE
