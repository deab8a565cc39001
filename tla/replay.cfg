\* Two replays of one receipt or of two, at the same time or after one another;
\* the second edit of the source may undo the first.
CONSTANTS
  Procs = {p1, p2}
  RunIds = {r1}
  Cases = {c1, c2}
  Catalog = {c1}
  Failing <- Defects
  NoReceipt = NoReceipt
  MaxVersion = 1
  MaxEdits = 2
  MaxReplays = 2
  MaxDeaths = 1
  c1 = c1
  c2 = c2
SPECIFICATION FairSpec
INVARIANTS TypeOK VerdictIsAboutTheRecordedSource ExitCodeAgrees ExitStatusMatchesArtifacts
PROPERTY EveryReplayConcludes
CHECK_DEADLOCK FALSE
