\* Two launches of the application, two cores, one fault of the helper.
CONSTANTS
    Cores = {c1, c2}
    Apps = {a1, a2}
    NoApp = NoApp
    NoSession = NoSession
    NoRequest = NoRequest
    MaxQueue = 1
    MaxFaults = 1
SPECIFICATION FairSpec
INVARIANTS TypeOK NoStrayCore OverrideHasAKeeper
PROPERTIES StoppedMeansNoCore DeadCallerLeavesNothing
CHECK_DEADLOCK FALSE
