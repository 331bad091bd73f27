\* Two network services, two cores, one failure: a call given up or
\* interrupted, a write that fails, or a crash.
CONSTANTS
    Cores = {c1, c2}
    NoCore = NoCore
    Services = {wifi, lan}
    NoService = NoService
    NoThread = NoThread
    MaxChanges = 1
    MaxFaults = 1
SPECIFICATION Spec
INVARIANT OverrideHasAKeeper
PROPERTY StopIsExact
