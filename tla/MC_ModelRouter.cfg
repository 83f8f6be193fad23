SPECIFICATION FairSpec
CONSTANTS
  N = 2
  Weight <- MCWeight
  Clients = {c1, c2}
  MaxRetries = 1
  MaxFailures = 3
  HealthChecks = TRUE
INVARIANTS HealthyBelowThreshold
PROPERTIES KeepsPromise BestHealthyFirst GivesUpOnlyExhausted CallsEnd ProbedOnceQuiet
