\* Expected violation.
CONSTANT Platform = "linux"
SPECIFICATION FairSpec
INVARIANT ShownIsCurrent
