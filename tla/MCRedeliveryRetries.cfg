SPECIFICATION Spec
CONSTANTS
  MaxSha = 1
  MaxRequests = 1
  MaxSweeps = 0
  Events = {"redeliver"}
PROPERTIES
  RedeliveryRetries
CHECK_DEADLOCK FALSE
