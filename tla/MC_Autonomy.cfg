SPECIFICATION FairSpec
CONSTANTS
  Cycles = {c1, c2}
  Requests = {r1}
  Tasks <- MCTasks
  Priority <- MCPriority
  MaxGaps = 2
  Budget = 2
  MaxPushes = 2
INVARIANTS BudgetOverrunBounded PushOverrunBounded OnePushPerCaller
PROPERTIES NothingDropped TasksLearned
