\* Two overlapping runs, a cleanup and cancels of one job of two tables.
SPECIFICATION Spec
CONSTANTS
    r1 = r1
    r2 = r2
    c1 = c1
    Runners <- MCRunners
    Cleaners <- MCCleaners
    N = 2
    NoOwner = NoOwner
INVARIANTS
    TypeOK
    RunningWillBeSettled
    DoneAgreesWithRecords
    DeletedIsGone
    NoLockWhileLoading
PROPERTIES
    DoneIsEarned
    EveryCommandEnds
    ImplementsJobRow
    ImplementsEngineCall
CHECK_DEADLOCK FALSE
