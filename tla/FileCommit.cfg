SPECIFICATION Spec
CONSTANTS
    Files = 2
    Options <- AllOptions
    Faults = {"crash", "io", "drop", "times"}
    MaxFaults = 2
INVARIANTS TypeOK ReportedIsStored NoTornFile VersionKept
PROPERTIES Recovers
CHECK_DEADLOCK FALSE
