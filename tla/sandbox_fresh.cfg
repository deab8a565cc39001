\* Run ids are never used twice; two processes share the directory.
CONSTANTS
  Procs = {p1, p2}
  RunIds = {r1, r2}
  Files = {f1, f2}
  Cases = {c1, c2, c3}
  NoRun = NoRun
  Plans = {{c1, c2}, {c3}}
  Preflighted = {c1, c2, c3}
  Supported = {c1, c2}
  Reuse = "fresh"
  Restores = FALSE
  MaxEdits = 2
  MaxAttempts = 2
  MaxDeaths = 1
SYMMETRY Symmetry
SPECIFICATION Spec
INVARIANTS TypeOK EvidenceFromRecordedSource FailClosed ExitStatusAgrees ReportMatchesRun
PROPERTIES SealedReceiptsAreFinal ImplementsLedger
CHECK_DEADLOCK FALSE
