\* Any memory from malloc, which may fail, and a main loop that may end.
CONSTANTS
  MaxOps = 3
  FreshTask <- AnyMemory
  OutOfMemory = TRUE
  PollFails = TRUE
SPECIFICATION Spec
INVARIANTS TypeOK QueueInv ExecutedInOrder
PROPERTIES VerifyTruthful ImplementsWriteLog
\* The process may have crashed, and pthread_join or a kept lock may block it.
CHECK_DEADLOCK FALSE
