SPECIFICATION PSpec
CONSTANTS
    App = {phone, tablet}
    Cred = {home}
    Accepted = {home}
    Unusable = unusable
    None = none
    MaxRetry = 1
    QueueLen = 3
    MaxMessages = 1
    MaxLosses = 1
    MaxReports = 1
    MaxErrors = 0
    Prioritized = TRUE
INVARIANTS PTypeOK SubscriberIsTold HiddenIsClosable
SYMMETRY AppSymmetry
VIEW ProvisioningView
CHECK_DEADLOCK FALSE
