SPECIFICATION Spec
CONSTANTS
  Clients = {c1, c2}
  Keys <- ThreeKeys
  MaxNodes = 4
  KeyRoom = 2
  Versions = {1}
  None = none
  MaxRequests = 5
  Descriptors = 2
INVARIANTS TypeOK AnswersTruthful
PROPERTY WaitersServed
CHECK_DEADLOCK FALSE
