SPECIFICATION TimedSpec
CONSTANTS
  MaxCalls = 2
  MaxOutput = 2
INVARIANTS ResultIsWhole
PROPERTIES EveryCallEnds
CHECK_DEADLOCK FALSE
