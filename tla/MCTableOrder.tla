----------------------------- MODULE MCTableOrder -----------------------------
(* Four tables.  Any of the six FKs that make a chain, a diamond or a fork, *)
(* with or without one that closes a cycle and one of a table to itself.    *)
EXTENDS TableOrder, TLC

CONSTANTS a, b, c, d

MCTables == {a, b, c, d}
Forward == {<<b, a>>, <<c, a>>, <<d, a>>, <<c, b>>, <<d, b>>, <<d, c>>}
Backward == {<<a, c>>, <<b, b>>}

Fks(edges) == [t \in MCTables |-> {p \in MCTables : <<t, p>> \in edges}]

(* Another schema has tables of the same names, at most one of them a       *)
(* parent of a table of this schema: none, a namesake, one further up or    *)
(* one further down.                                                        *)
MCCatalogs ==
    {"own" :> Fks(own) @@ "other" :> Fks(other) :
        own \in SUBSET (Forward \cup Backward),
        other \in {{}, {<<c, c>>}, {<<c, a>>}, {<<b, d>>}}}

(* A leaf, the root, two tables, and one that is named twice.               *)
MCRequests ==
    {a :> 0 @@ b :> 0 @@ c :> 0 @@ d :> 1,
     a :> 1 @@ b :> 0 @@ c :> 0 @@ d :> 0,
     a :> 0 @@ b :> 1 @@ c :> 1 @@ d :> 0,
     a :> 1 @@ b :> 1 @@ c :> 2 @@ d :> 1}
=============================================================================
