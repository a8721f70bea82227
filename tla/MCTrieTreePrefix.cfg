CONSTANTS
  Keys <- MCPrefix
  Values = {u, v}
  Default = none
  Blank = blank
  Removable <- MCPrefix
SPECIFICATION Spec
PROPERTY RemovedCanBeAdded
