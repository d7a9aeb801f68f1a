CONSTANTS
    home = home
    braced = braced
    huge = huge
    phone = phone
    tablet = tablet
    Client = {phone}
    Cred = {home, huge}
    Size <- MCSize
    Opening <- MCOpening
    Closing <- MCClosing
    Mtu = 2
    Cap = 4
    None = none
    Gap = gap
    MaxMessages = 2
    MaxFaults = 0
SPECIFICATION Spec
PROPERTY AcknowledgedIsDetected
CHECK_DEADLOCK FALSE
