SPECIFICATION FairSpec
CONSTANTS
  o1 = o1
  s1 = s1
  s2 = s2
  Orders = {o1}
  Steps <- MCSteps
  Stamped = {"activity"}
  Slots = {s1, s2}
  Serves <- MCServes
  MaxAttempts = 2
  MaxStalls = 1
  MaxRetries = 1
  MaxFaults = 2
INVARIANTS
  TypeOK
  RepeatsExplained
  MarkedIsDone
PROPERTIES
  OrderServed
CHECK_DEADLOCK FALSE
