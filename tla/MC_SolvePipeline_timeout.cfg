CONSTANTS
  N = 3
  Plans <- MCPlans
  Modes <- MCModes
  MaxRetries = 1
  Policies <- MCPolicies
  MaxHistory = 1
  MaxShown = 1
  MaxGoals = 2
SPECIFICATION Spec
INVARIANT TimeoutEnforced
CHECK_DEADLOCK FALSE
