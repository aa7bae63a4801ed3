--------------------------- MODULE MetadataReader ---------------------------
(***************************************************************************)
(* What a scan reads from a MySQL database (internal/ingestion/mysql) and  *)
(* which of the snapshots it reads the catalog accepts (validateSnapshot). *)
(* A node is known by its stable key, which the scanner builds from the    *)
(* kind and the qualified name; the kind and the parent follow from it.    *)
(* The scanner's transaction is REPEATABLE READ, so all its queries see    *)
(* one design of the database.                                             *)
(***************************************************************************)
EXTENDS FiniteSets, Naturals

CONSTANTS
    Databases,      \* names of the databases of the MySQL servers
    Tables,         \* tables and views that may exist
    Columns,        \* columns that may exist
    HomeOf,         \* the database of each table and view
    TableOf,        \* the table or view of each column
    DottedUnder,    \* <<t, u>>: the name of t is the name of u, a dot and more
    ForeignKeys,    \* constraints that may be declared
    SourceColumn,   \* the referencing column of each constraint
    TargetColumn,   \* the column it references
    Definitions,    \* data types of columns, comments and indexes of tables
    MaximumSnapshotNodes,
    MaximumSnapshotForeignKeys,
    None

Kinds == {"Database", "Schema", "Table", "Column"}

\* database:<name>, schema:<name>, table:<name>, column:<name>.
StableKeys == ({"Database", "Schema"} \X Databases)
                  \cup ({"Table"} \X Tables) \cup ({"Column"} \X Columns)

Kind(key) == key[1]

\* A database's schema is the database again: MySQL has no level between.
Parent(key) ==
    CASE Kind(key) = "Database" -> None
      [] Kind(key) = "Schema"   -> <<"Database", key[2]>>
      [] Kind(key) = "Table"    -> <<"Schema", HomeOf[key[2]]>>
      [] Kind(key) = "Column"   -> <<"Table", TableOf[key[2]]>>

\* The contents of information_schema for one database: its base tables and
\* views, all their columns, and the constraints between them.
IsDesign(d) ==
    /\ DOMAIN d = {"tables", "views", "columns", "keys"}
    /\ DOMAIN d.tables \subseteq Tables /\ d.views \subseteq Tables
    /\ DOMAIN d.tables \cap d.views = {}
    /\ DOMAIN d.columns \subseteq Columns
    /\ \A t \in DOMAIN d.tables : d.tables[t] \in Definitions
    /\ \A c \in DOMAIN d.columns :
          /\ d.columns[c] \in Definitions
          /\ TableOf[c] \in DOMAIN d.tables \cup d.views
    /\ d.keys \subseteq ForeignKeys
    /\ \A f \in d.keys : /\ {SourceColumn[f], TargetColumn[f]} \subseteq DOMAIN d.columns
                         /\ SourceColumn[f] # TargetColumn[f]

ASSUME ReaderAssumption ==
    /\ HomeOf \in [Tables -> Databases]
    /\ TableOf \in [Columns -> Tables]
    /\ SourceColumn \in [ForeignKeys -> Columns]
    /\ TargetColumn \in [ForeignKeys -> Columns]
    /\ DottedUnder \subseteq Tables \X Tables
    /\ None \notin Definitions
    /\ MaximumSnapshotNodes \in Nat
    /\ MaximumSnapshotForeignKeys \in Nat

Dotted(t) == \E u \in Tables : <<t, u>> \in DottedUnder

InDatabase(t, database) == HomeOf[t] = database

\* Only base tables become nodes ...
ReadTables(d, database, names) ==
    {<<"Table", t>> : t \in {u \in DOMAIN d.tables : InDatabase(u, database) /\ u \in names}}

\* ... but information_schema.COLUMNS also lists the columns of views.
ReadColumns(d, database, names) ==
    {<<"Column", c>> :
        c \in {b \in DOMAIN d.columns : InDatabase(TableOf[b], database) /\ TableOf[b] \in names}}

\* Constraints declared by the named tables; a reference into another database
\* of the server is left out.
ReadForeignKeys(d, database, names) ==
    {f \in d.keys : /\ InDatabase(TableOf[SourceColumn[f]], database)
                    /\ TableOf[SourceColumn[f]] \in names
                    /\ InDatabase(TableOf[TargetColumn[f]], database)}

Definition(d, key) ==
    CASE Kind(key) = "Table"  -> d.tables[key[2]]
      [] Kind(key) = "Column" -> d.columns[key[2]]
      [] OTHER                -> None

DefinitionsOf(key) == IF Kind(key) \in {"Table", "Column"} THEN Definitions ELSE {None}

\* What a scan hands over: a definition for every node it read, and the keys.
Snapshot(d, database, names, keys) ==
    [nodes |-> [key \in {<<"Database", database>>, <<"Schema", database>>}
                            \cup ReadTables(d, database, names)
                            \cup ReadColumns(d, database, names) |-> Definition(d, key)],
     keys  |-> keys]

Scan(d, database) == Snapshot(d, database, Tables, ReadForeignKeys(d, database, Tables))

\* mutated form: the tables that foreign keys refer to are not read.
ExpandedTablesAsNamed(scope, keys) == scope
\* An incremental scan also reads the tables its foreign keys refer to, so that
\* their target columns are nodes of the snapshot.  A column is split at its
\* dots to find its table, which fails for a table whose name has one.
ExpandedTables(scope, keys) ==
    scope \cup {t \in {TableOf[TargetColumn[f]] : f \in keys} : ~ Dotted(t)}

ScanTables(d, database, scope) ==
    LET keys == ReadForeignKeys(d, database, scope)
    IN Snapshot(d, database, ExpandedTables(scope, keys), keys)

\* incrementalTableNames refuses a table of another database than the DSN's.
ScannableScope(database, scope) ==
    \A t \in scope : InDatabase(t, database) /\ ~ Dotted(t)

ReadSnapshot(d, database, scope) ==
    IF scope = {} THEN Scan(d, database) ELSE ScanTables(d, database, scope)

WithinBudget(snapshot) ==
    /\ Cardinality(DOMAIN snapshot.nodes) <= MaximumSnapshotNodes
    /\ Cardinality(snapshot.keys) <= MaximumSnapshotForeignKeys

\* validateSnapshot.  Distinct keys and names, and databases being the only
\* nodes without a parent, follow from how keys are formed here.
ValidSnapshot(snapshot) ==
    /\ DOMAIN snapshot.nodes # {}
    /\ WithinBudget(snapshot)
    /\ \A key \in DOMAIN snapshot.nodes :
          Kind(key) = "Database" \/ Parent(key) \in DOMAIN snapshot.nodes
    /\ \A f \in snapshot.keys :
          /\ <<"Column", SourceColumn[f]>> \in DOMAIN snapshot.nodes
          /\ <<"Column", TargetColumn[f]>> \in DOMAIN snapshot.nodes
          /\ SourceColumn[f] # TargetColumn[f]

\* The objects of a design that a scan is meant to import, stated without the
\* queries: a database, its schema, its base tables and their columns.
Exists(d, database, key) ==
    CASE Kind(key) \in {"Database", "Schema"} -> key[2] = database
      [] Kind(key) = "Table"  -> key[2] \in DOMAIN d.tables /\ HomeOf[key[2]] = database
      [] Kind(key) = "Column" ->
            /\ key[2] \in DOMAIN d.columns
            /\ TableOf[key[2]] \in DOMAIN d.tables
            /\ HomeOf[TableOf[key[2]]] = database
=============================================================================
