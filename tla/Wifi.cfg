SPECIFICATION FairSpec
CONSTANTS
    Cred = {home, wrong}
    Accepted = {home}
    Unusable = unusable
    None = none
    MaxRetry = 2
    QueueLen = 3
    MaxMessages = 2
    MaxLosses = 1
    MaxErrors = 1
    Prioritized = TRUE
    MaxReports = 1
INVARIANTS
    TypeOK
    ConnectedIsTrue
    UpIsServed
    DownIsUnserved
PROPERTIES
    SavedWasAccepted
    HttpStopsAfterLoss
CHECK_DEADLOCK FALSE
