SPECIFICATION SweepSpec
CONSTANTS
  MaxSha = 1
  MaxRequests = 1
  MaxSweeps = 1
  Events = {"cancel", "expire", "release", "launch_failure", "lost_launch"}
INVARIANTS
  OneOutcomePerAttempt
  EndsAreAnnounced
PROPERTIES
  ImplementsLifecycle
  EveryJobEnds
  NamedJobsAreReleased
CHECK_DEADLOCK FALSE
