CONSTANTS
  p1 = p1
  p2 = p2
  p3 = p3
  Procs <- MCProcs
  JobSeq <- MCJobSeq

SPECIFICATION Spec

INVARIANT TypeOK

PROPERTIES
  InterruptDrainsJobs


\* The loop hands the adapter finitely many jobs; after the last one only
\* the server processes move, and then nothing does.
CHECK_DEADLOCK FALSE
