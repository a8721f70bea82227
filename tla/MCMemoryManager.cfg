CONSTANTS
  Base <- MCBase
  Size <- MCSize
  Requests <- MCRequests
SPECIFICATION Spec
INVARIANTS TypeOK Accounted Linked NoFreeNeighbours
PROPERTIES DoubleReleaseCaught RefinesAllocator
CHECK_DEADLOCK FALSE
