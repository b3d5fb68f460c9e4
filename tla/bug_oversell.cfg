SPECIFICATION Spec
CONSTANTS
  ann = ann
  root = root
  hat = hat
  pen = pen
  r1 = r1
  r2 = r2
  r3 = r3
  a1 = a1
  a2 = a2
  a3 = a3
  e1 = e1
  e2 = e2
  Users = {ann, root}
  Products = {hat, pen}
  Role <- MCRole
  InitStock <- MCInitStock
  Carts <- SmallCart
  StockEdits = {}
  CreateReqs = {r1, r2, r3}
  AdminReqs = {}
  EditReqs = {}
INVARIANTS
  NoOversell
CHECK_DEADLOCK FALSE
