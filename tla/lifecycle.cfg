SPECIFICATION LifecycleFairSpec
CONSTANTS
  QueueNames <- MCQueueNames
  Stops = {1, 2, 3}
  MaxJobs = 2
  MaxStarts = 2
INVARIANTS
  JobsUndisturbed
PROPERTIES
  StopEnds
CHECK_DEADLOCK FALSE
