\* A table that fills up, its array clean or not.
CONSTANTS
  Clients = {c1, c2, c3}
  MAX_NUM_CLIENTS = 4
  MaxRequests = 1
  InitialRevents <- AnyStack
SPECIFICATION Spec
INVARIANTS TypeOK EveryConnectionPolled
PROPERTIES OnlyLeaversDropped 
CHECK_DEADLOCK FALSE
