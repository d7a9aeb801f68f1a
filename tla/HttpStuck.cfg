CONSTANTS
    Routes = 6
    Toggle = 3
    Update = 5
    MaxFaults = 2
SPECIFICATION FairSpec
PROPERTY CallbackReturns
