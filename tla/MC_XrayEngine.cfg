\* Two concurrent callers, two generations of sidecars, every interleaving.
CONSTANTS
    c1 = c1
    c2 = c2
    Callers = {c1, c2}
    MaxGen = 2
SPECIFICATION FairSpec
INVARIANTS TypeOK NoOrphanCore OneOwnedCore CancelledStaysDown
PROPERTIES StopReturnsAfterCoreDied NoEventAfterStopReturned
    SupersededCoreDies CallsReturn
