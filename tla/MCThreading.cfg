SPECIFICATION Spec
CONSTANTS
  Main = main
  w1 = w1
  w2 = w2
  w3 = w3
  Workers = {w1, w2, w3}
  Returning = {}
  NoContext = NoContext
INVARIANTS
  TypeOK
  CriticalSectionsExclude
  InterruptsComeBack
  OneSlotPerThread
  NeverOverlaps
PROPERTIES
  EveryThreadRuns
  RefinesRoundRobin
