SPECIFICATION FairSpec
CONSTANTS
  Allowed <- ExampleAllowed
  Denied <- ExampleDenied
  Permitted = {"edit", "new"}
  MaxFiles = 2
  Classes <- ExampleClasses
  Patches <- GeneratedPatches
  Configurations <- AnyOfTheSlots
  AllowSkipped = FALSE
  None = None
INVARIANTS PassedIsEarned VerdictNamesItsReason ValidatedIsNotRefused
PROPERTIES RunEnds
CHECK_DEADLOCK FALSE
