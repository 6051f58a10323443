SPECIFICATION Spec
CONSTANTS
  Servers = {s1, s2}
  Zoo = zoo
  None = none
  Lines = {"put", "get", "quit", "blank"}
  Descriptors = 4
  MaxEvents = 2
INVARIANTS TypeOK RequestsArrive
PROPERTIES FollowsNodes CommandsReturn
CHECK_DEADLOCK FALSE
