\* One run over two tables, with every strategy and every failure inside it.
SPECIFICATION MCSpec
CONSTANTS
    region = region
    city = city
    cityFk = cityFk
    Tables <- MCTables
    N = 2
    Order <- MCOrder
    FKs <- MCFKs
    Child <- MCChild
    Parent <- MCParent
    Rows = {1, 2}
    SeqTables = {region}
    Configs <- MCConfigs
    Snapshots <- MCSnapshots
    MaxRuns = 1
    NChunks = 2
    Hash <- MCHash
    Key <- MCKey
    Profiles <- MCProfiles
    Overrides <- MCOverrides
INVARIANTS
    LoadTypeOK
    ChunksPartitionSnapshot
    OkLeavesNothing
    RestartedIsAhead
    HeavierTableHeavierStrategy
PROPERTIES
    Implements
    EveryLoadEnds
