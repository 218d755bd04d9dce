SPECIFICATION Spec
CONSTANTS
  t1 = t1
  t2 = t2
  Thread = {t1}
  NULL = NULL
  Cell <- MCCell
  Zero <- MCZero
  DirEntries = 2
  TableEntries = 2
  PageSize = 4
  Clients <- PeriodClients
  Value = {0, 1}
  Capacity = 20
  Period = 2
  MaxSlots = 8
INVARIANT
  SlotsFit
CHECK_DEADLOCK FALSE
