SPECIFICATION Spec
CONSTANTS
  t1 = t1
  t2 = t2
  Thread = {t1, t2}
  NULL = NULL
  Cell <- MCCell
  Zero <- MCZero
  DirEntries = 2
  TableEntries = 2
  PageSize = 4
  Clients <- MCClients
  Value = {0, 1}
  Capacity = 4
  Period = 1
  MaxSlots = 8
INVARIANTS
  MemTypeOK
  PagesAccounted
  ReportsExact
  TotalsExact
  SlotsPaired
PROPERTIES
  ActsAsMap
  Finishes
CHECK_DEADLOCK FALSE
