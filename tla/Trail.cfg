\* One run, two calls; a secret file of its own, a short secret and a plain one of another agent.
SPECIFICATION Spec
CONSTANTS
  own = own
  notes = notes
  plain = plain
  Runs = {r1}
  Calls = {c1, c2}
  Docs = {own, notes, plain}
  Secret = {own, notes}
  Short = {notes}
  Borrowed = {notes, plain}
  None = None
  Cap = 2
  MaxFailures = 2
  MaxRestarts = 1
SYMMETRY Symmetry
CONSTRAINT Few
INVARIANTS
  SecretsStayOut
  AnsweredIsOnRecord
  RowsTellTheTruth
CHECK_DEADLOCK FALSE
