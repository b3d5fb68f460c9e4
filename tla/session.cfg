SPECIFICATION SessionSpec
CONSTANTS
  t1 = t1
  t2 = t2
  root = root
  ann = ann
  Nobody = Nobody
  Unread = Unread
  Tabs = {t1, t2}
  Accounts = {root, ann}
  InitRole <- MCInitRole
  Roles = {"user", "superadmin"}
  MaxLogins = 2
  MaxPicks = 2
SYMMETRY AnyTab
INVARIANTS
  PageIsOfItsAccount
  OwnRoleChangeShown
CHECK_DEADLOCK FALSE
