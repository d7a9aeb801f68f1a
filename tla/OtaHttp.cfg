CONSTANTS
    factory = factory
    newer = newer
    corrupt = corrupt
    Slot = {ota_0, ota_1}
    Image = {factory, newer, corrupt}
    Valid = {factory, newer}
    Size <- MCSize
    NoImage = none
    HeaderLen = 2
    BufLen = 2
    MaxLen = 3
    Task = {t1, t2}
    Callers = {"httpd"}
SPECIFICATION FairSpec
INVARIANTS TypeOK BootImageWhole OneUpdateAtATime FlagCoversUpdate
    SuccessMeansInstalled NothingLeaks EndIsReported
PROPERTIES InstallsWhole UpdateAdvances UpdateEnds
