\* One desktop whose helper answers a stop only with the session torn down.
CONSTANT Platform = "linux"
SPECIFICATION FairSpec
INVARIANTS TypeOK MarkerCoversProxy MarkerCoversTun NoSidecarBesideTun ConnectedIsBacked
PROPERTIES IdleIsClean FailureOnlyOfConnected ImplementsIntent
    StartSettles DeadCoreIsHandled GateIsReleased
