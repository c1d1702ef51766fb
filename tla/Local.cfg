SPECIFICATION Spec
CONSTANTS
  Now = 9
  Ample = 99
  STREAMING_THRESHOLD = 4
  Scenarios <- MCScenarios
INVARIANTS
  TypeOK
  Mirrored
  HardLinksShare
  DeletesBounded
  SourcesSafe
  SecondRunIdle
  DryRunPredicts
