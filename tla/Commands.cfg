\* Every pair of commands, over two jobs and two endpoints.
SPECIFICATION CommandsSpec
CONSTANTS
    t1 = t1
    t2 = t2
    r1 = r1
    j1 = j1
    j2 = j2
    e1 = e1
    e2 = e2
    Terminals <- MCTerminals
    Given <- MCGiven
    Runners <- MCRunners
    Jobs <- MCJobs
    JobOf <- MCJobOf
    Source = e1
    Target = e2
INVARIANTS
    CommandsTypeOK
    EntryNamesAJob
    OnlyOverlapsLoseUpdates
PROPERTIES
    EveryWaitEnds
    SettledWhileAsleepIsReported
    WatchersEndOnceSettled
