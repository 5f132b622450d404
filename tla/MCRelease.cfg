SPECIFICATION Spec
CONSTANTS
  MaxSha = 2
  MaxRequests = 1
  MaxSweeps = 1
  Events = {"release", "slow_pool"}
INVARIANTS
  ReleaseSparesLiveAttempt
PROPERTIES
  NamesOnlyAdvance
CHECK_DEADLOCK FALSE
