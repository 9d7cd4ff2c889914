CONSTANTS
  NumTasks = 4
  NeedsResult <- EvenTasks
  Workers = {w1, w2}
  TaskQueueCapacity = 2
  ResultQueueCapacity = 1
  SameThread = FALSE
  MaxOutstanding = 4
SPECIFICATION SpecWithReaper
INVARIANTS TypeOK RunsOnce ResultInOnePlace JoinDrains
PROPERTIES EveryTaskRuns ReapReturns JoinReturns ImplementsService
