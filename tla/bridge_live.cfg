\* Nobody is killed, and edits may put an earlier version back.
CONSTANTS
  Procs = {p1}
  RunIds = {r1, r2}
  Files = {f1}
  Cases = {c1}
  NoRun = NoRun
  Plans = {{c1}}
  Preflighted = {c1}
  Supported = {c1}
  Reuse = "fresh"
  Restores = TRUE
  MaxEdits = 2
  MaxAttempts = 2
  MaxDeaths = 0
  Catalog = {c1}
  MaxPushes = 1
  MaxLate = 1
SPECIFICATION BridgeFairSpec
PROPERTIES EveryRunConcludes EveryPushConcludes
CHECK_DEADLOCK FALSE
