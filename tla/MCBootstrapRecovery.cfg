CONSTANTS
  TokenReusable = TRUE
  MaxCrashes = 1

SPECIFICATION Spec

PROPERTY
  EventuallyHealthy

\* "running" is where boot ends (the loops of JobLoop take over); with the
\* crash budget spent nothing more happens in this module.
CHECK_DEADLOCK FALSE
