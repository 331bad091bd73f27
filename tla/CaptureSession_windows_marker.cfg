\* Expected violation.
CONSTANT Platform = "windows"
SPECIFICATION FairSpec
INVARIANT MarkerCoversTun
