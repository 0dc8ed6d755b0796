CONSTANTS
  p1 = p1
  p2 = p2
  Procs <- MCProcs
  JobSeq <- MCJobSeq
  ServerPassword = TRUE

SPECIFICATION Spec

INVARIANTS
  TypeOK

PROPERTIES
  InterruptEndsCommandWaits

\* The loop hands the adapter finitely many jobs; after the last one only
\* the server processes move, and then nothing does.
CHECK_DEADLOCK FALSE
