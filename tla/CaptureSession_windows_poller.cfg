\* Expected violation.
CONSTANT Platform = "windows"
SPECIFICATION FairSpec
PROPERTY PollerFailsOnlyDeadTun
