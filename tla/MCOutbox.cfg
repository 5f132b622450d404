SPECIFICATION FairSpec
CONSTANTS
  Deliverers = {d1, d2}
  MaxAttempts = 4
  MaxSubmitted = 2
INVARIANTS DeadIsEarned DeliveredIsTrue
PROPERTIES SettledStays EveryNoticeSettles
CHECK_DEADLOCK FALSE
