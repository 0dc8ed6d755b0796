CONSTANTS
  p1 = p1
  p2 = p2
  p3 = p3
  Procs <- MCProcs
  JobSeq <- MCRestartOnly

SPECIFICATION Spec

PROPERTY RestartLeavesServerUp

\* One job; afterwards nothing more happens.
CHECK_DEADLOCK FALSE
