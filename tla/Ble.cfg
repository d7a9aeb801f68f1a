CONSTANTS
    home = home
    braced = braced
    huge = huge
    phone = phone
    tablet = tablet
    Client = {phone, tablet}
    Cred = {home, braced, huge}
    Size <- MCSize
    Opening <- MCOpening
    Closing <- MCClosing
    Mtu = 2
    Cap = 4
    None = none
    Gap = gap
    MaxMessages = 3
    MaxFaults = 1
SPECIFICATION Spec
INVARIANTS TypeOK ReportPends StackUnwinds ServiceComplete Reachable
PROPERTIES CleanMessageDetected OnlyWrittenIsDetected
CHECK_DEADLOCK FALSE
