SPECIFICATION Spec
CONSTANTS
  t1 = t1
  t2 = t2
  soap = soap
  tea = tea
  Tabs = {t1, t2}
  Products = {soap, tea}
  Stock <- MCStock
  MaxUnits = 2
  MaxLines = 2
  MaxCheckouts = 2
SYMMETRY AnyTab
PROPERTIES
  AgainOnlyWhileStale
  NotOrderedOnceOut
  WipesOnlyNewer
CHECK_DEADLOCK FALSE
