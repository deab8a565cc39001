\* One attack, three of the lanes that make it, three providers.
CONSTANTS
  Attacks <- OneAttack
  Lanes <- SomeLanes
  Providers = {m1, m2, m3}
  Proposals <- SomeProposals
  NoJob = NoJob
  MaxReceipts = 3
  MaxEvents = 4
SYMMETRY Symmetry
SPECIFICATION Spec
INVARIANTS TypeOK FindingsRefineClusters GateImpliesClusterGate OrderDecidesOnlyTheRepresentative StaleJobNeverOverstates SeedAgreesWithGate ExportPreservesClassification
PROPERTIES MoreEvidenceNeverLowersAScore OneVoteNeverOverturns
CHECK_DEADLOCK FALSE
