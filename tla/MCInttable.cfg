CONSTANTS
  Keys <- MCKeys
  Values = {u, v}
  Default = none
  PrimeTbl <- MCPrimeTbl
  Overwriting = FALSE
SPECIFICATION Spec
INVARIANTS TypeOK ChainsIntact CountRight EnumerationExact
PROPERTY RefinesDictionary
