\* A cancel between a run command and its start.
SPECIFICATION Spec
CONSTANTS
    r1 = r1
    r2 = r2
    c1 = c1
    Runners <- MCRunners
    Cleaners <- MCCleaners
    N = 2
    NoOwner = NoOwner
PROPERTIES
    CancelledNeedsResume
CHECK_DEADLOCK FALSE
