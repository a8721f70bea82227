CONSTANTS
  UserKeys <- MCUserKeys
  MaxPresses <- MCMaxPresses
  Block <- MCBlock
SPECIFICATION Spec
INVARIANT HeapNotReentered
CHECK_DEADLOCK FALSE
