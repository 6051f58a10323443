\* A server that keeps running: memory without stray pointers, no failure.
CONSTANTS
  MaxOps = 2
  FreshTask <- UsableMemory
  OutOfMemory = FALSE
  PollFails = FALSE
SPECIFICATION Spec
PROPERTIES LocksProtect EventuallyExecuted InvokeReturns
