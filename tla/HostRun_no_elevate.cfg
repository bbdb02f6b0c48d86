SPECIFICATION Spec
CONSTANTS
    Configurations <- Accepted
    MaxRuns = 2
    MaxFaults = 2
INVARIANT NoElevateObeyed
