CONSTANTS
  j1 = j1
  j2 = j2
  j3 = j3
  NoJob = NoJob
  JobOrder <- MCJobOrder
  ExecOutcomes <- MCExecOutcomes

SPECIFICATION Spec

INVARIANT TypeOK

PROPERTIES
  DispatchRefined
  LoopRunsUntilCancelled
  ReceivedJobSubmitted
  HeartbeatsUntilCancelled

\* After SIGINT main returns and the process ends; nothing runs after that.
CHECK_DEADLOCK FALSE
