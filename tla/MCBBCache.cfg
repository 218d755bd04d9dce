SPECIFICATION Spec
CONSTANTS
  Block <- MCBlock
  EndState <- MCEndState
  MemRefs <- MCMemRefs
  NoAddr <- MCNoAddr
  NoBlock = NoBlock
  RootBlock = RootBlock
  BB_CACHE_MESSAGE_MAX_NUM = 4
  INNER_MEM_REF_CACHE_MAX = 5
  NoRef = NoRef
  Fresh = {NoRef, Garbage}
  RunMax = 6
INVARIANTS
  InBounds
  CaughtUpExact
  EveryBlockReported
  RefsExact
CHECK_DEADLOCK FALSE
