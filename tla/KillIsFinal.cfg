\* One run, one scope, one card, one kill: the smallest instance that shows it.
SPECIFICATION Spec
CONSTANTS
  Scopes = {s1}
  Runs = {r1}
  Cards = {k1}
  Calls = {c1}
  Humans = {h1}
  Killer = Killer
  None = None
  MaxKills = 1
PROPERTY KillIsFinal
\* Messages and cards run out.
CHECK_DEADLOCK FALSE
