SPECIFICATION Spec
CONSTANTS
    Cred = {home, wrong}
    Accepted = {home}
    Unusable = unusable
    None = none
    MaxRetry = 2
    QueueLen = 3
    MaxMessages = 2
    MaxLosses = 0
    MaxErrors = 0
    Prioritized = TRUE
    MaxReports = 0
PROPERTY MessageIsProcessed
CHECK_DEADLOCK FALSE
