\* Puts and deletes in any order; a deleted node may be filled again.
CONSTANTS
  Keys <- ThreeKeys
  Values = {1, 2}
  MaxNodes = 5
  KeyRoom = 4
SPECIFICATION Spec
INVARIANTS TypeOK NoDangling
PROPERTY PutBinds
