\* Two runs and two pushes; the source may be edited and a request may arrive
\* late; nobody is killed, and c2 is not a case of the default catalog.
CONSTANTS
  Procs = {p1}
  RunIds = {r1, r2}
  Files = {f1}
  Cases = {c1, c2}
  NoRun = NoRun
  Plans = {{c1}, {c2}}
  Preflighted = {c1}
  Supported = {c1, c2}
  Reuse = "fresh"
  Restores = FALSE
  MaxEdits = 1
  MaxAttempts = 2
  MaxDeaths = 0
  Catalog = {c1}
  MaxPushes = 2
  MaxLate = 1
SYMMETRY Symmetry
SPECIFICATION BridgeSpec
INVARIANTS BridgeTypeOK ServiceMirrorsDisk AcceptedBundleIsComplete ServedEvidenceIsAccepted
CHECK_DEADLOCK FALSE
