\* A run that is killed.
SPECIFICATION Spec
CONSTANTS
    r1 = r1
    r2 = r2
    c1 = c1
    Runners <- MCRunners
    Cleaners <- MCCleaners
    N = 2
    NoOwner = NoOwner
INVARIANTS
    KilledJobCanBeResumed
CHECK_DEADLOCK FALSE
