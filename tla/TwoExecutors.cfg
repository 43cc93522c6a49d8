\* Two run commands of one planned job.
SPECIFICATION Spec
CONSTANTS
    r1 = r1
    r2 = r2
    c1 = c1
    Runners <- MCRunners
    Cleaners <- MCCleaners
    N = 2
    NoOwner = NoOwner
INVARIANTS
    OneExecutor
CHECK_DEADLOCK FALSE
