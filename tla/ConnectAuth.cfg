CONSTANTS
  AddrBits = 3
  Scenarios <- MCScenarios
SPECIFICATION Spec
INVARIANTS
  RightPasswordAccepted
