\* Two subscriptions, three bytes, one reply that is lost for each.
CONSTANTS
    NoSub = NoSub
    Subs <- MCSubs
    MaxBytes <- MCBytes
    MaxLost = 1
SPECIFICATION FairSpec
INVARIANTS TypeOK TrafficIsConserved
PROPERTIES CachedTotalNeverGoesBack GatesAreReleased
