\* defer_insert_commits runs.
SPECIFICATION FreshSpec
CONSTANTS
    region = region
    city = city
    visit = visit
    cityFk = cityFk
    visitFk = visitFk
    Tables <- MCTables
    N = 2
    Order <- MCOrder
    FKs <- MCFKs
    Child <- MCChild
    Parent <- MCParent
    Rows = {r1, r2}
    SeqTables = {region}
    Configs <- Deferred
    Snapshots <- MCSnapshots
    MaxRuns = 2
INVARIANTS
    DeferredBatchIsAtomic
