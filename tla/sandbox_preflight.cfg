\* An agent without a default catalog produces an unsupported family.
CONSTANTS
  Procs = {p1}
  RunIds = {r1}
  Files = {f1, f2}
  Cases = {c1, c2, c3}
  NoRun = NoRun
  Plans = {{c1, c3}}
  Preflighted = {c1}
  Supported = {c1, c2}
  Reuse = "fresh"
  Restores = FALSE
  MaxEdits = 0
  MaxAttempts = 1
  MaxDeaths = 0
SPECIFICATION Spec
INVARIANT UnsupportedFailsBeforeCopy
CHECK_DEADLOCK FALSE
