\* The mutations of the example target.
CONSTANTS
  missing_field = missing_field
  bad_path = bad_path
  Targets <- OnlyExample
  Attacks = {missing_field, bad_path}
  Mutations = {missing_field, bad_path}
  ChaosAttacks = {partial_write}
  NoAttack = NoAttack
  Flaky = {}
  Repeats = 2
  MaxAgents = 1
  MaxRuns = 1
SPECIFICATION Spec
INVARIANT SlippedThroughMeansSlipped
CHECK_DEADLOCK FALSE
