\* Two runs of one process, every list of at most two agents.
CONSTANTS
  missing_field = missing_field
  bad_path = bad_path
  Targets <- AllTargets
  Attacks = {missing_field, bad_path, flaky}
  Mutations = {missing_field, bad_path}
  ChaosAttacks = {partial_write}
  NoAttack = NoAttack
  Flaky = {flaky}
  Repeats = 2
  MaxAgents = 2
  MaxRuns = 2
SPECIFICATION Spec
INVARIANTS TypeOK LanesSeeCleanWorkspace WorkspaceRestored VerdictsFollowTheGuards MutationFollowsTheGuards ReproducibleNeverRejected
CHECK_DEADLOCK FALSE
