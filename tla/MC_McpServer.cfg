CONSTANT MaxRequests = 3
SPECIFICATION FairSpec
INVARIANTS AnsweredInOrder OnlyTheGapStrands
PROPERTY BusyLosesNothing
CHECK_DEADLOCK FALSE
