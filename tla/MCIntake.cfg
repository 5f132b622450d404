SPECIFICATION FairSpec
CONSTANTS
  Requests = {r1, r2, r3}
  Tasks = {t1, t2}
  Callbacks = {c1, c2}
  None = None
INVARIANTS SameJobForAll LaunchesAreBacked
PROPERTIES ImplementsIntake EveryRequestEnds
CHECK_DEADLOCK FALSE
