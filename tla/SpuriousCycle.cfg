\* A parent of another schema that has the name of a table of this one.
SPECIFICATION Spec
CONSTANTS
    a = a
    b = b
    c = c
    d = d
    Tables <- MCTables
    Catalogs <- MCCatalogs
    Requests <- MCRequests
INVARIANTS
    OnlyOwnCyclesRefuse
