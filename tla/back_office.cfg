SPECIFICATION Spec
CONSTANTS
  q1 = q1
  q2 = q2
  q3 = q3
  root = root
  ann = ann
  eve = eve
  Eve = Eve
  milk = milk
  eggs = eggs
  Nothing = Nothing
  Requests = {q1, q2, q3}
  Seed <- MCSeed
  Names = {root, ann, eve}
  Spellings = {eve, Eve}
  Normal <- MCNormal
  Texts = {milk, eggs}
  Bodies <- MCBodies
SYMMETRY Anyone
INVARIANTS
  RegisteredCanLogIn
  EveryChangePermitted
  TakenByRival
  UndoneOnlyByRivals
CHECK_DEADLOCK FALSE
