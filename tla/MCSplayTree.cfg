SPECIFICATION Spec
CONSTANTS
  c1 = c1
  c2 = c2
  Caller <- MCCaller
  Key <- MCKey
  Callees <- MCCallees
  NULL = NULL
INVARIANT
  Findable
PROPERTIES
  Returns
  Implements
