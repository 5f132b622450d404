SPECIFICATION FairSpec
CONSTANTS
  Jobs = {a, b, c}
  Stuck = {c}
  Limit = 2
  MaxDeaths = 1
PROPERTIES NoneOvertakesOverdue ReleaseListsGetOn OverdueJobsEnd FinishedJobsAreReleased
CHECK_DEADLOCK FALSE
