CONSTANTS
    Cred = {home, office}
    Device = device
    Absent = absent
    MaxFaults = 0
    Serialized = TRUE
SPECIFICATION Spec
PROPERTY SuccessfulCredentialsStored
