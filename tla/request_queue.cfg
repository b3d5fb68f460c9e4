SPECIFICATION FairSpec
CONSTANTS
  r1 = r1
  r2 = r2
  r3 = r3
  w1 = w1
  w2 = w2
  p1 = p1
  Requests = {r1, r2, r3}
  Workers = {w1, w2}
  Polls = {p1}
  MaxRequests = 1
  MaxFaults = 1
INVARIANTS
  TypeOK
  RunOnce
  WindowLimit
  WindowEnds
  AcceptedIsServed
PROPERTIES
  Drained
CHECK_DEADLOCK FALSE
