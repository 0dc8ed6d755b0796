CONSTANTS
  Responses <- MCResponses
  ServerFrag = 3
  Threshold = 2
  MaxBody = 19
  ServerStyle = "minecraft"
  Segmenting = TRUE

SPECIFICATION Spec

INVARIANT ExecReturnsAnswerPrefix

\* One session: after Close nothing more happens.
CHECK_DEADLOCK FALSE
