\* A primary, a backup and a third server.
CONSTANTS
  Procs = {s1, s2, s3}
SPECIFICATION RolesSpec
INVARIANTS RolesTypeOK OnePrimary NodesOwned
PROPERTIES LinkFollowsNodes TakesOver
\* All servers may have died.
CHECK_DEADLOCK FALSE
