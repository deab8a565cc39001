\* A failure case of another lane than edge_case is replayed.
CONSTANTS
  Procs = {p1}
  RunIds = {r1}
  Cases = {c1, c2}
  Catalog = {c1}
  Failing <- Defects
  NoReceipt = NoReceipt
  MaxVersion = 1
  MaxEdits = 1
  MaxReplays = 1
  MaxDeaths = 0
  c1 = c1
  c2 = c2
SPECIFICATION Spec
INVARIANT EveryReceiptReplays
CHECK_DEADLOCK FALSE
