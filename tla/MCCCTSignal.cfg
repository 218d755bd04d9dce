SPECIFICATION SignalSpec
CONSTANTS
  Block <- MCBlock
  EndState <- MCEndState
  Slots <- MCSlots
  RootKey <- MCRootKey
  Node <- MCNode
  NoNode = NoNode
  Thread = {t1, t2}
  ContextHandleMax = 9
  DepthMax = 2
  NestingMax = 2
INVARIANTS
  TreeSurvivesSignals
PROPERTIES
  ReturnRestoresNode
CHECK_DEADLOCK FALSE
