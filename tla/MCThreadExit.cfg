SPECIFICATION Spec
CONSTANTS
  Main = main
  w1 = w1
  w2 = w2
  w3 = w3
  Workers = {w1, w2}
  Returning = {w1, w2}
  NoContext = NoContext
INVARIANTS
  CriticalSectionsExclude
PROPERTIES
  ContextsSurvive
CHECK_DEADLOCK FALSE
