CONSTANTS
  NumTasks = 6
  NeedsResult <- AllTasks
  Workers = {w1}
  TaskQueueCapacity = 2
  ResultQueueCapacity = 2
  SameThread = TRUE
  MaxOutstanding = 2
SPECIFICATION Spec
INVARIANTS SingleWorkerInOrder
PROPERTIES EveryTaskRuns JoinReturns
