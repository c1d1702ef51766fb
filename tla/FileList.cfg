SPECIFICATION Spec
CONSTANTS
    Scenarios <- MCScenarios
    CVS_EXCLUDE_PATTERNS <- CvsPatterns
    MaxLinks = 2
    MaxVanish = 1
    LongDir = 200
    LongFile = 99
INVARIANTS
    ListIsWanted
    CanonicalOrder
    ListArrives
    SubListsNamed
PROPERTIES
    ScanAndExchangeEnd
