SPECIFICATION Spec
CONSTANTS
  MaxSha = 2
  MaxRequests = 2
  MaxSweeps = 0
  Events = {"redeliver"}
INVARIANTS
  LogExplainsRow
  AttemptsMatchRow
  ResultBelongsToStatus
  VerdictIsEarned
  OneOutcomePerAttempt
PROPERTIES
  StaleRunnersIgnored
  OutcomeIsFinal
CHECK_DEADLOCK FALSE
