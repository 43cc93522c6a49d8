\* Two runs over a schema of three tables, two rows each.
SPECIFICATION Spec
CONSTANTS
    region = region
    city = city
    visit = visit
    cityFk = cityFk
    visitFk = visitFk
    Tables <- MCTables
    N = 2
    Order <- MCOrder
    FKs <- MCFKs
    Child <- MCChild
    Parent <- MCParent
    Rows = {r1, r2}
    SeqTables = {region}
    Configs <- MCConfigs
    Snapshots <- MCSnapshots
    MaxRuns = 2
INVARIANTS
    TypeOK
    EnabledFksHold
    ReturnedRunRestoresFks
    OkIsDurable
    SuccessMeansSnapshot
    EveryTableIsReported
PROPERTIES
    DryRunTouchesNothing
    EnablesOnlyItsOwn
    ImplementsTargetSchema
    ImplementsEngineCall
    RunsMoveForward
    EveryRunEnds
