SPECIFICATION FairSpec
CONSTANTS
  hat = hat
  pen = pen
  r1 = r1
  r2 = r2
  r3 = r3
  c1 = c1
  Nobody = Nobody
  Products = {hat, pen}
  InitStock <- MCInitStock
  Carts <- MCCarts
  Creates = {r1, r2, r3}
  Cancels = {c1}
  PoolSize = 3
INVARIANTS
  CodesFollowIds
PROPERTIES
  BookSpec
  RequestsEnd
CHECK_DEADLOCK FALSE
