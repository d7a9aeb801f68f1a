CONSTANTS
    Cred = {home, office}
    Device = device
    Absent = absent
    MaxFaults = 3
    Serialized = TRUE
SPECIFICATION Spec
INVARIANTS TypeOK SaveIsFailSafe SingleFaultKeepsPair
PROPERTIES CleanDeleteUnconfigures OneErrorLeavesNoInfo FinishedSaveIsDurable StoresAsOne
CHECK_DEADLOCK TRUE
