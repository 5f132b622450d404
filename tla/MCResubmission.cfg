SPECIFICATION FairSpec
CONSTANTS
  Requests = {r1, r2}
  Tasks = {t1}
  Callbacks = {c1}
  None = None
PROPERTIES ResubmissionRetries
CHECK_DEADLOCK FALSE
