CONSTANTS
  Keys <- MCKeys
  Values = {u, v}
  Default = none
  Blank = blank
  Removable <- MCFlat
SPECIFICATION Spec
INVARIANT Compressed
PROPERTY RefinesDictionary
