CONSTANTS
  M = 3
  Inputs <- MCInputs
  Dedupers <- MCDedupers
  Batch = 3
SPECIFICATION MCFairSpec
INVARIANT CoveredBySurvivor
PROPERTIES RowsOnlyRise PromotedEventually
