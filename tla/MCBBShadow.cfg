SPECIFICATION BBSpec
CONSTANTS
  Thread = {t1, t2}
  NoThread = NoThread
  PageNum = 2
  PageSize = 2
  BlockStart <- MCBlock
  SlotNum <- MCSlotNum
  Modes <- MCModes
  AnalysisMax = 7
INVARIANTS
  KeysBacked
  OneKeyPerBlock
  CompleteWhenQuiet
  QuerySlotFound
PROPERTIES
  KeysKept
  Served
CHECK_DEADLOCK FALSE
