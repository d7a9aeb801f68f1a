CONSTANTS
    Cred = {home, office}
    Device = device
    Absent = absent
    MaxFaults = 0
    Serialized = FALSE
SPECIFICATION Spec
INVARIANT InfoImpliesCredentials
