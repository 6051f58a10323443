\* Two servers: a backup is left without a primary.
CONSTANTS
  Procs = {s1, s2}
SPECIFICATION RolesSpec
PROPERTY BackupTakesOver
\* All servers may have died.
CHECK_DEADLOCK FALSE
