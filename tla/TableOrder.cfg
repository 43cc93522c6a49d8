\* Every set of FKs among four tables that MCTableOrder describes.
SPECIFICATION Spec
CONSTANTS
    a = a
    b = b
    c = c
    d = d
    Tables <- MCTables
    Catalogs <- MCCatalogs
    Requests <- MCRequests
INVARIANTS
    TypeOK
    ParentsFirst
    OrderIsComplete
    RefusedIffCyclic
    DiscoveryIsExact
PROPERTIES
    PlanningEnds
