----------------------------- MODULE MCCatalog -----------------------------
(* Instances of Catalog for TLC: two tables of one database with a foreign *)
(* key between them, and what they may be altered to.                      *)
EXTENDS Catalog, TLC

CONSTANTS db1, db2, t1, t2, c1, c2, f1, int, text, dsn1, dsn2

MCHomeOf  == [t \in Tables |-> db1]
MCTableOf == [c \in Columns |-> IF c = c1 THEN t1 ELSE t2]
MCSourceColumn == [f \in ForeignKeys |-> c1]
MCTargetColumn == [f \in ForeignKeys |-> c2]
MCDatabaseIn == [d \in DSNs |-> IF d = dsn1 THEN db1 ELSE db2]
MCNotDotted == {}

MCDesign(tables, views, columns, keys) ==
    [tables |-> tables, views |-> views, columns |-> columns, keys |-> keys]

\* Both tables with the foreign key between them ...
MCBoth == MCDesign(t1 :> text @@ t2 :> text, {}, c1 :> int @@ c2 :> int, {f1})
\* ... the second table dropped ...
MCDropped == MCDesign(t1 :> text, {}, c1 :> int, {})
\* ... and the second a view.
MCWithView == MCDesign(t1 :> text, {t2}, c1 :> int @@ c2 :> int, {})

MCTwo == {MCBoth, MCDropped}
MCViews == {MCWithView}

MCAnyScope == {{}, {t1}, {t2}}
MCFullScope == {{}}

MCRegistrySymmetry == Permutations(Runs) \cup Permutations(Sources)
                          \cup Permutations(Names) \cup Permutations(Admins)
=============================================================================
