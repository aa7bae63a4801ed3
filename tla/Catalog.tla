------------------------------ MODULE Catalog ------------------------------
(***************************************************************************)
(* The registry of data sources and the catalog of their nodes             *)
(* (internal/catalog, catalog_repository.go), with the runner that scans a *)
(* source (ingestion/mysql/runner.go): it reads the registry, starts a     *)
(* scan run, reads the source database and publishes what it saw, each a   *)
(* step of its own.  Administrators create, change and delete sources, and *)
(* the source database changes, between any two of them.  The job worker   *)
(* runs one scan at a time.                                                *)
(***************************************************************************)
EXTENDS MetadataReader, Sequences

CONSTANTS
    Sources,      \* ids of data sources, allocated once
    Names,        \* names of data sources
    DSNs,         \* connection strings, as sealed in the registry
    DatabaseIn,   \* the database each connection string names
    Environment,  \* the connection string of the environment variable, or None
    Admins,       \* administrators with a change of a source under way
    Designs,      \* designs the source databases go through
    Scopes,       \* scopes of scans: {} for a full one, or the tables named
    Runs,         \* ids of scan runs, allocated once
    MaxLooks      \* bound on the publications

ASSUME CatalogAssumption ==
    /\ DatabaseIn \in [DSNs -> Databases]
    /\ Environment \in DSNs \cup {None}
    /\ None \notin DSNs \cup Names \cup Sources \cup Runs
    /\ \A d \in Designs : IsDesign(d)
    /\ Scopes \subseteq SUBSET Tables
    /\ MaxLooks \in Nat

VARIABLES
    dataSources,  \* data_sources: [name, secret], or None
    deleted,      \* the ids that were deleted
    nodes,        \* nodes with node_current: [status, definition], or None
    search,       \* node_search: <<key, definition>>
    scanRuns,     \* schema_scan_runs: [source, status], or None
    scan,         \* the runner's progress
    changes,      \* changes of sources between the read and the write
    referenced,   \* sources that members of binding revisions refer to
    design,       \* the source databases as they are now
    lastSet,      \* the connection string last given for each source
    looks         \* the publications so far, with what the scan looked at

registryVars == <<dataSources, deleted, changes, lastSet>>
scanVars     == <<scan, scanRuns>>
nodeVars     == <<nodes, search, looks>>
catalogVars  == <<registryVars, scanVars, nodeVars, referenced, design>>

Row      == [name : Names, secret : DSNs \cup {None}]
Version(key) == [status : {"Active", "Stale"}, definition : DefinitionsOf(key)]
RunRow   == [source : Sources, status : {"Running", "Succeeded", "Failed"}]
Change   == [source : Sources, name : Names, secret : DSNs \cup {None}, existing : Row]
Idle     == [phase |-> "Idle"]

ASSUME CatalogNoneAssumption ==
    /\ None \notin Row
    /\ None \notin RunRow
    /\ \A key \in StableKeys : None \notin Version(key)

Registered == {s \in Sources : dataSources[s] # None}

Init ==
    /\ dataSources = [s \in Sources |-> None]
    /\ deleted = {}
    /\ nodes = [s \in Sources |-> [key \in StableKeys |-> None]]
    /\ search = [s \in Sources |-> {}]
    /\ scanRuns = [r \in Runs |-> None]
    /\ scan = Idle
    /\ changes = [a \in Admins |-> None]
    /\ referenced = {}
    /\ design \in Designs
    /\ lastSet = [s \in Sources |-> None]
    /\ looks = <<>>

-----------------------------------------------------------------------------
(* The registry.                                                           *)

\* data_sources.name is UNIQUE.
NameFree(name, s) == \A t \in Registered \ {s} : dataSources[t].name # name

CreateDataSource(s, name, secret) ==
    /\ s \notin Registered \cup deleted
    /\ NameFree(name, s)
    /\ dataSources' = [dataSources EXCEPT ![s] = [name |-> name, secret |-> secret]]
    /\ lastSet' = [lastSet EXCEPT ![s] = secret]
    /\ UNCHANGED <<deleted, changes, scanVars, nodeVars, referenced, design>>

\* UpdateDataSourceAsAdmin reads the source first; without a connection string
\* the change leaves the stored one alone.
ReadDataSource(a, s, name, secret) ==
    /\ changes[a] = None
    /\ s \in Registered
    /\ changes' = [changes EXCEPT ![a] =
          [source |-> s, name |-> name, secret |-> secret, existing |-> dataSources[s]]]
    /\ UNCHANGED <<dataSources, deleted, lastSet, scanVars, nodeVars, referenced, design>>

\* mutated form: the row is written back as it was read.
SecretWrittenBack(change) ==
    IF change.secret = None THEN change.existing.secret ELSE change.secret
SecretWritten(change) ==
    IF change.secret = None THEN dataSources[change.source].secret ELSE change.secret

UpdateDataSource(a) ==
    LET change == changes[a]
    IN /\ change # None
       /\ change.source \in Registered
       /\ NameFree(change.name, change.source)
       /\ dataSources' = [dataSources EXCEPT ![change.source] =
             [name |-> change.name, secret |-> SecretWritten(change)]]
       /\ lastSet' = [lastSet EXCEPT ![change.source] =
             IF change.secret = None THEN @ ELSE change.secret]
       /\ changes' = [changes EXCEPT ![a] = None]
       /\ UNCHANGED <<deleted, scanVars, nodeVars, referenced, design>>

\* The source was deleted meanwhile, or the name is taken.
RefuseUpdate(a) ==
    /\ changes[a] # None
    /\ \/ changes[a].source \notin Registered
       \/ ~ NameFree(changes[a].name, changes[a].source)
    /\ changes' = [changes EXCEPT ![a] = None]
    /\ UNCHANGED <<dataSources, deleted, lastSet, scanVars, nodeVars, referenced, design>>

Referenced(s) == s \in referenced

\* mutated form: only tables count.
ImportedTables(s) == \E key \in StableKeys : nodes[s][key] # None /\ Kind(key) = "Table"
Imported(s) == \E key \in StableKeys : nodes[s][key] # None

RunsWithout(s) ==
    [r \in Runs |-> IF scanRuns[r] # None /\ scanRuns[r].source = s THEN None ELSE scanRuns[r]]

DeleteDataSource(s) ==
    /\ s \in Registered
    /\ ~ Imported(s)
    /\ ~ Referenced(s)
    /\ scanRuns' = RunsWithout(s)
    /\ dataSources' = [dataSources EXCEPT ![s] = None]
    /\ deleted' = deleted \cup {s}
    /\ UNCHANGED <<changes, lastSet, scan, nodeVars, referenced, design>>

-----------------------------------------------------------------------------
(* A scan.                                                                 *)

\* A stored connection string goes before the environment variable.
ResolveDSN(s) ==
    IF dataSources[s].secret # None THEN dataSources[s].secret ELSE Environment

StartScan(s, scope) ==
    /\ scan = Idle
    /\ s \in Registered
    /\ ResolveDSN(s) # None
    /\ Len(looks) < MaxLooks
    /\ scan' = [phase |-> "Resolved", source |-> s, scope |-> scope,
                database |-> DatabaseIn[ResolveDSN(s)]]
    /\ UNCHANGED <<registryVars, scanRuns, nodeVars, referenced, design>>

BeginSchemaScan(r) ==
    /\ scan.phase = "Resolved"
    /\ scanRuns[r] = None
    /\ IF scan.source \in Registered
         THEN /\ scanRuns' = [scanRuns EXCEPT ![r] =
                    [source |-> scan.source, status |-> "Running"]]
              /\ scan' = [phase |-> "Begun", source |-> scan.source, scope |-> scan.scope,
                          database |-> scan.database, run |-> r]
         ELSE scan' = Idle /\ UNCHANGED scanRuns
    /\ UNCHANGED <<registryVars, nodeVars, referenced, design>>

\* The snapshot is the design at the moment of the scanner's transaction.
ReadSource ==
    /\ scan.phase = "Begun"
    /\ ScannableScope(scan.database, scan.scope)
    /\ WithinBudget(ReadSnapshot(design, scan.database, scan.scope))
    /\ scan' = [phase |-> "Read", source |-> scan.source, scope |-> scan.scope,
                database |-> scan.database, run |-> scan.run, design |-> design,
                snapshot |-> ReadSnapshot(design, scan.database, scan.scope)]
    /\ UNCHANGED <<registryVars, scanRuns, nodeVars, referenced, design>>

\* The connection or a query fails, the scope names another database, or the
\* budget is exceeded.
ReadFails ==
    /\ scan.phase = "Begun"
    /\ scan' = [phase |-> "Failed", source |-> scan.source, run |-> scan.run]
    /\ UNCHANGED <<registryVars, scanRuns, nodeVars, referenced, design>>

VerifyRunning(r, s) == scanRuns[r] = [source |-> s, status |-> "Running"]

\* mutated form: every column lies within every scope.
WithinTableScopeColumns(key, scope) ==
    \/ scope = {}
    \/ Kind(key) = "Table" /\ key[2] \in scope
    \/ Kind(key) = "Column"
\* nodeWithinTableScope compares names: a column is within the scope of a table
\* when its qualified name starts with the table's and a dot.
WithinTableScope(key, scope) ==
    \/ scope = {}
    \/ Kind(key) = "Table" /\ key[2] \in scope
    \/ /\ Kind(key) = "Column"
       /\ \/ TableOf[key[2]] \in scope
          \/ \E t \in scope : <<TableOf[key[2]], t>> \in DottedUnder

\* loadMissingCurrentNodes: the active nodes the snapshot should hold and does not.
Missing(s, present, scope) ==
    {key \in StableKeys \ present :
        /\ nodes[s][key] # None
        /\ nodes[s][key].status = "Active"
        /\ WithinTableScope(key, scope)}

Versions(s, snapshot, stale) ==
    [key \in StableKeys |->
        CASE key \in DOMAIN snapshot.nodes ->
                [status |-> "Active", definition |-> snapshot.nodes[key]]
          [] key \in stale -> [nodes[s][key] EXCEPT !.status = "Stale"]
          [] OTHER -> nodes[s][key]]

\* mutated form: a record leaves the index only when a new one replaces it.
SearchRecordsKept(s, snapshot, stale) ==
    {e \in search[s] : e[1] \notin DOMAIN snapshot.nodes}
        \cup {<<key, snapshot.nodes[key]>> : key \in DOMAIN snapshot.nodes}
\* Every node with a new version loses its record; active ones get a new one.
SearchRecords(s, snapshot, stale) ==
    {e \in search[s] : e[1] \notin DOMAIN snapshot.nodes \cup stale}
        \cup {<<key, snapshot.nodes[key]>> : key \in DOMAIN snapshot.nodes}

\* The scan in hand may be published: the source exists and the run is running.
Publishable ==
    /\ ValidSnapshot(scan.snapshot)
    /\ scan.source \in Registered
    /\ VerifyRunning(scan.run, scan.source)

Publish ==
    LET s     == scan.source
        stale == Missing(s, DOMAIN scan.snapshot.nodes, scan.scope)
    IN /\ scan.phase = "Read"
       /\ Publishable
       /\ nodes' = [nodes EXCEPT ![s] = Versions(s, scan.snapshot, stale)]
       /\ search' = [search EXCEPT ![s] = SearchRecords(s, scan.snapshot, stale)]
       /\ scanRuns' = [scanRuns EXCEPT ![scan.run] =
             [source |-> s, status |-> "Succeeded"]]
       /\ scan' = Idle
       /\ looks' = Append(looks, [source |-> s, scope |-> scan.scope,
                                  database |-> scan.database, design |-> scan.design])
       /\ UNCHANGED <<registryVars, referenced, design>>

\* The snapshot is refused, or the transaction rolls back.
PublicationFails ==
    /\ scan.phase = "Read"
    /\ scan' = [phase |-> "Failed", source |-> scan.source, run |-> scan.run]
    /\ UNCHANGED <<registryVars, scanRuns, nodeVars, referenced, design>>

\* FailSchemaScan changes a running run of the source; the runner tries it once.
FailSchemaScan ==
    /\ scan.phase = "Failed"
    /\ scan' = Idle
    /\ \/ /\ VerifyRunning(scan.run, scan.source)
          /\ scanRuns' = [scanRuns EXCEPT ![scan.run] =
                [source |-> scan.source, status |-> "Failed"]]
       \/ UNCHANGED scanRuns
    /\ UNCHANGED <<registryVars, nodeVars, referenced, design>>

\* The process ends and another starts, which first ends the runs left running.
ProcessEnds ==
    /\ scan' = Idle
    /\ changes' = [a \in Admins |-> None]
    /\ scanRuns' = [r \in Runs |->
          IF scanRuns[r] # None /\ scanRuns[r].status = "Running"
            THEN [scanRuns[r] EXCEPT !.status = "Failed"] ELSE scanRuns[r]]
    /\ UNCHANGED <<dataSources, deleted, lastSet, nodeVars, referenced, design>>

Restart ==
    /\ scan # Idle \/ \E a \in Admins : changes[a] # None
    /\ ProcessEnds

\* Somebody changes the source databases.
AlterSource ==
    /\ design' \in Designs \ {design}
    /\ UNCHANGED <<registryVars, scanVars, nodeVars, referenced>>

Next ==
    \/ \E s \in Sources, name \in Names, secret \in DSNs \cup {None} :
          \/ CreateDataSource(s, name, secret)
          \/ \E a \in Admins : ReadDataSource(a, s, name, secret)
    \/ \E a \in Admins : UpdateDataSource(a) \/ RefuseUpdate(a)
    \/ \E s \in Sources : DeleteDataSource(s) \/ \E scope \in Scopes : StartScan(s, scope)
    \/ \E r \in Runs : BeginSchemaScan(r)
    \/ ReadSource \/ ReadFails \/ Publish \/ PublicationFails \/ FailSchemaScan
    \/ Restart \/ AlterSource

Spec == Init /\ [][Next]_catalogVars

-----------------------------------------------------------------------------
(* What readers are told.                                                  *)

CurrentStatus(s, key) == nodes[s][key].status

\* SearchCurrentNodes joins the index with the current versions that are active.
SearchCurrentNodes(s) ==
    {key \in StableKeys : /\ \E e \in search[s] : e[1] = key
                          /\ nodes[s][key] # None
                          /\ CurrentStatus(s, key) = "Active"}

-----------------------------------------------------------------------------
(* Properties.                                                             *)

TypeOK ==
    /\ dataSources \in [Sources -> Row \cup {None}]
    /\ deleted \subseteq Sources
    /\ DOMAIN nodes = Sources
    /\ \A s \in Sources : /\ DOMAIN nodes[s] = StableKeys
                          /\ \A key \in StableKeys : nodes[s][key] \in Version(key) \cup {None}
    /\ search \in [Sources -> SUBSET (StableKeys \X (Definitions \cup {None}))]
    /\ scanRuns \in [Runs -> RunRow \cup {None}]
    /\ scan.phase \in {"Idle", "Resolved", "Begun", "Read", "Failed"}
    /\ scan.phase # "Idle" => scan.source \in Sources
    /\ scan.phase \in {"Begun", "Read", "Failed"} => scan.run \in Runs
    /\ changes \in [Admins -> Change \cup {None}]
    /\ referenced \subseteq Sources
    /\ design \in Designs
    /\ lastSet \in [Sources -> DSNs \cup {None}]
    /\ Len(looks) \in 0..MaxLooks

\* What a publication tells about a node.  A full scan tells of every node of
\* the source; an incremental one of the tables it names and their columns, and
\* that the database and the tables its foreign keys refer to are there.
Tells(look, key) ==
    \/ look.scope = {}
    \/ Kind(key) = "Table" /\ key[2] \in look.scope
    \/ Kind(key) = "Column" /\ TableOf[key[2]] \in look.scope
    \/ /\ Exists(look.design, look.database, key)
       /\ \/ Kind(key) \in {"Database", "Schema"}
          \/ \E f \in look.design.keys :
                /\ TableOf[SourceColumn[f]] \in look.scope
                /\ TableOf[TargetColumn[f]] =
                      IF Kind(key) = "Table" THEN key[2] ELSE TableOf[key[2]]

\* The publications of a source that tell of a node, and those that saw it.
Telling(s, key) == {i \in DOMAIN looks : looks[i].source = s /\ Tells(looks[i], key)}
Seeing(s, key)  == {i \in Telling(s, key) : Exists(looks[i].design, looks[i].database, key)}

Last(I) == CHOOSE i \in I : \A j \in I : j <= i

\* The catalog says of every table and column what the last scan that looked
\* at it saw in the source database: the node is there when some scan saw it,
\* active when the last one that looked did, with the definition it had when
\* it was last seen.  This is across full and incremental scans that failed,
\* were cut off or read the database long before they published, and across a
\* connection string that came to name another database.
CatalogTellsSource ==
    \A s \in Sources, key \in StableKeys :
        IF Seeing(s, key) = {} THEN nodes[s][key] = None
        ELSE LET seen == looks[Last(Seeing(s, key))]
             IN nodes[s][key] =
                  [status |-> IF Last(Telling(s, key)) = Last(Seeing(s, key))
                                THEN "Active" ELSE "Stale",
                   definition |-> Definition(seen.design, key)]

\* The search index holds exactly the active nodes, each with the words of its
\* current version: no search misses a node of the catalog, and none is found
\* by words it no longer has.
SearchTellsCatalog ==
    \A s \in Sources :
        /\ search[s] = {<<key, nodes[s][key].definition>> :
                           key \in {k \in StableKeys : nodes[s][k] # None
                                                 /\ CurrentStatus(s, k) = "Active"}}
        /\ \A e \in search[s] : e[1] \in SearchCurrentNodes(s)

\* Nothing outlives the data source it belongs to: not the nodes or scan runs
\* of a scan that was under way when the source was deleted, and not the
\* members of a binding revision.
NothingWithoutSource ==
    /\ \A s \in Sources, key \in StableKeys : nodes[s][key] # None => s \in Registered
    /\ \A r \in Runs : scanRuns[r] # None => scanRuns[r].source \in Registered
    /\ referenced \subseteq Registered

\* A source is scanned with the connection string last given for it: a rename
\* that began before a rotation of the credential does not undo it.
RotationKept ==
    \A s \in Registered : dataSources[s].secret = lastSet[s]

\* A snapshot that was read can be published: every database within the limits
\* can be imported.
ReadIsPublishable ==
    scan.phase = "Read" => ValidSnapshot(scan.snapshot)
=============================================================================
