CONSTANTS
    Routes = 6
    Toggle = 3
    Update = 5
    MaxFaults = 2
SPECIFICATION FairSpec
INVARIANTS TypeOK RunningIsTrue ServesAllRoutes LightIsMirrored
PROPERTY OnlyAClientHoldsIt
