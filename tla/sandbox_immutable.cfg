\* A run id used twice.
CONSTANTS
  Procs = {p1}
  RunIds = {r1}
  Files = {f1, f2}
  Cases = {c1, c2, c3}
  NoRun = NoRun
  Plans = {{c1}}
  Preflighted = {c1}
  Supported = {c1, c2}
  Reuse = "serial"
  Restores = FALSE
  MaxEdits = 0
  MaxAttempts = 2
  MaxDeaths = 0
SPECIFICATION Spec
PROPERTY SealedReceiptsAreFinal
CHECK_DEADLOCK FALSE
