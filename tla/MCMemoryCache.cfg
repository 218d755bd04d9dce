SPECIFICATION Spec
CONSTANTS
  Thread = {t1, t2, t3}
  NoThread = NoThread
  PageNum = 2
  PageSize = 8
  MinNum = 3
  DebrisMin = 2
INVARIANTS
  RefillFits
  PiecesDisjoint
PROPERTY
  Implements
CHECK_DEADLOCK FALSE
