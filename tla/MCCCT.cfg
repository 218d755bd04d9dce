SPECIFICATION Spec
CONSTANTS
  Block <- MCBlock
  EndState <- MCEndState
  Slots <- MCSlots
  RootKey <- MCRootKey
  Node <- MCNode
  NoNode = NoNode
  Thread = {t1, t2}
  ContextHandleMax = 9
INVARIANTS
  TypeOK
  HandlesDisjoint
  HandleResolves
  BacktraceExact
  ContextExact
  OneNodePerContext
PROPERTIES
  HandlesStable
  Implements
CHECK_DEADLOCK FALSE
