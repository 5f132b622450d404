SPECIFICATION RetentionSpec
CONSTANTS
  MaxAttempts = 2
  MaxAborts = 2
INVARIANTS
  PurgedMeansGone
  CurrentAttemptKeepsItsArtifacts
  NoVerdictWithoutInputs
PROPERTIES
  EventuallyReclaimed
CHECK_DEADLOCK FALSE
