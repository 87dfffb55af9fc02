CONSTANTS
  r1 = r1  r2 = r2  r3 = r3  r4 = r4
  t1 = t1  t2 = t2  t3 = t3  t4 = t4  t5 = t5  t6 = t6
  None = None
  Parsers <- MCParsers
  TrieStates <- MCTrieStates
  DepthWidth = 256
  Constant = FALSE
SYMMETRY MemorySymmetry
SPECIFICATION Spec
INVARIANTS MemoryTypeOK NoDangling ChainSound NoneLost
PROPERTY ChainImplementsStack
CHECK_DEADLOCK FALSE
