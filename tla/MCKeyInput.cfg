CONSTANTS
  UserKeys <- MCUserKeys
  MaxPresses <- MCMaxPresses
  Block <- MCBlock
SPECIFICATION Spec
INVARIANTS TypeOK KeysInOrder
PROPERTY EveryKeyHandled
CHECK_DEADLOCK FALSE
