CONSTANTS
  AddrBits = 3
  Scenarios <- MCScenarios
SPECIFICATION Spec
INVARIANTS
  TypeOK
  Agreement
  OptionsCarried
  Admitted
  ListingFaithful
PROPERTIES
  Connects
