SPECIFICATION SignalSpec
CONSTANTS
  Block <- MCBlock
  EndState <- MCEndState
  Slots <- MCSlots
  RootKey <- MCRootKey
  Node <- MCNode
  NoNode = NoNode
  Thread = {t1}
  ContextHandleMax = 9
  DepthMax = 3
  NestingMax = 1
INVARIANTS
  FullCallingContext
CHECK_DEADLOCK FALSE
