CONSTANTS
  Phases <- MC_Phases
  Interval <- MC_Interval
  MaxLag = 2
  MaxGoals = 1
  Plugins <- MC_Plugins
  Provides <- MC_Provides
SPECIFICATION FairSpec
INVARIANTS OverdueBounded RegisteredWhole
PROPERTY PhasesRecur
CHECK_DEADLOCK FALSE
