\* Two launches of two versions, two interfaces, one fault.
CONSTANTS
    Apps = {a1, a2}
    NoApp = NoApp
    Versions = {1, 2}
    wifi = wifi
    lan = lan
    Ifaces <- MCIfaces
    Own <- MCOwn
    NoIface = NoIface
    NoSnapshot = NoSnapshot
    MaxFaults = 1
SPECIFICATION FairSpec
INVARIANTS TypeOK UserDnsIsKnown
PROPERTIES StartedIsOurs DeadOwnerLeavesNothing
CHECK_DEADLOCK FALSE
