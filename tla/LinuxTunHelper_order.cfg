\* The order of a stop: the smallest instance that has a session.
CONSTANTS
    Cores = {c1}
    Apps = {a1}
    NoApp = NoApp
    NoSession = NoSession
    NoRequest = NoRequest
    MaxQueue = 1
    MaxFaults = 0
SPECIFICATION FairSpec
PROPERTIES StopRestoresFirst
CHECK_DEADLOCK FALSE
