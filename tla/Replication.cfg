\* A primary, its backup, and a server that joins after one of them died.
CONSTANTS
  N = 3
  MaxWrites = 2
  KeyFound <- OneKeyFound
SPECIFICATION Spec
INVARIANTS TypeOK NothingInvented FinishedIsOnBackup FollowersAgree
PROPERTIES TasksFinished
\* All servers may have died.
CHECK_DEADLOCK FALSE
