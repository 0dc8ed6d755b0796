CONSTANTS
  NoopNames <- MCNoopNames
  Slugs <- MCSlugs
  MaxRegistrations = 2
  MaxIdLen = 3
  MaxReasonLen = 1

SPECIFICATION Spec

INVARIANTS
  NoMetacharacterOnWire

\* A caller can always make another call; deadlock is checked.
