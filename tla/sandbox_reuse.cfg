\* One run id used again and again, never by two processes at a time.
CONSTANTS
  Procs = {p1}
  RunIds = {r1}
  Files = {f1, f2}
  Cases = {c1, c2, c3}
  NoRun = NoRun
  Plans = {{c1, c2}, {c1}, {c2, c3}}
  Preflighted = {c1}
  Supported = {c1, c2}
  Reuse = "serial"
  Restores = FALSE
  MaxEdits = 2
  MaxAttempts = 3
  MaxDeaths = 2
SYMMETRY Symmetry
SPECIFICATION Spec
INVARIANTS CompletedRunHasItsEvidence ExitCodeAgrees EvidenceFromRecordedSource
CHECK_DEADLOCK FALSE
