--------------------------- MODULE CatalogProofs ---------------------------
(***************************************************************************)
(* Proofs about the registry of data sources and the catalog, for every    *)
(* set of sources, designs and runs: what belongs to a source goes with    *)
(* it, a rotated credential stays rotated, the search index is the active  *)
(* part of the catalog, and the catalog says what the last scan that       *)
(* looked saw.                                                             *)
(***************************************************************************)
EXTENDS Catalog, TLAPS

\* A publication, with what the scan looked at.
Look == [source : Sources, scope : Scopes, database : Databases, design : Designs]

\* What the runner knows in each phase of a scan.  The snapshot it publishes is the one
\* it read, from the database of the connection string it resolved.
ScanOK ==
    /\ scan.phase \in {"Idle", "Resolved", "Begun", "Read", "Failed"}
    /\ scan.phase # "Idle" => scan.source \in Sources
    /\ scan.phase \in {"Begun", "Read", "Failed"} => scan.run \in Runs
    /\ scan.phase \in {"Resolved", "Begun", "Read"} =>
         /\ scan.scope \in Scopes
         /\ scan.database \in Databases
         /\ Len(looks) < MaxLooks
    /\ scan.phase = "Read" =>
         /\ scan.design \in Designs
         /\ scan.snapshot = ReadSnapshot(scan.design, scan.database, scan.scope)
         /\ ScannableScope(scan.database, scan.scope)
         /\ WithinBudget(scan.snapshot)

\* The search records of a source are its active nodes.
SearchMatches ==
    \A s \in Sources :
        search[s] = {<<key, nodes[s][key].definition>> :
                        key \in {k \in StableKeys : nodes[s][k] # None
                                              /\ CurrentStatus(s, k) = "Active"}}

CatalogInv ==
    /\ TypeOK
    /\ looks \in Seq(Look)
    /\ ScanOK
    /\ NothingWithoutSource
    /\ RotationKept
    /\ SearchMatches

-----------------------------------------------------------------------------
(* What a scan reads.                                                      *)

\* A stable key is a kind and a name of that kind.
LEMMA KeyKinds ==
    ASSUME NEW key \in StableKeys
    PROVE  \/ Kind(key) \in {"Database", "Schema"} /\ key[2] \in Databases
           \/ Kind(key) = "Table" /\ key[2] \in Tables /\ key = <<"Table", key[2]>>
           \/ Kind(key) = "Column" /\ key[2] \in Columns /\ key = <<"Column", key[2]>>
BY DEF StableKeys, Kind

\* What is read are nodes of the catalog with a definition of their kind.
LEMMA SnapshotNodes ==
    ASSUME NEW d, IsDesign(d), NEW database \in Databases, NEW names, NEW keys
    PROVE  LET snapshot == Snapshot(d, database, names, keys)
           IN  /\ DOMAIN snapshot.nodes \subseteq StableKeys
               /\ \A key \in DOMAIN snapshot.nodes :
                     /\ snapshot.nodes[key] = Definition(d, key)
                     /\ snapshot.nodes[key] \in DefinitionsOf(key)
<1> DEFINE read == {<<"Database", database>>, <<"Schema", database>>}
                      \cup ReadTables(d, database, names) \cup ReadColumns(d, database, names)
           snapshot == Snapshot(d, database, names, keys)
<1>1. /\ DOMAIN snapshot.nodes = read
      /\ \A key \in read : snapshot.nodes[key] = Definition(d, key)
  BY DEF Snapshot
<1>2. ASSUME NEW key \in read
      PROVE  key \in StableKeys /\ Definition(d, key) \in DefinitionsOf(key)
  <2>1. CASE key \in {<<"Database", database>>, <<"Schema", database>>}
    BY <2>1 DEF StableKeys, Definition, DefinitionsOf, Kind
  <2>2. CASE key \in ReadTables(d, database, names)
    <3>1. PICK t \in DOMAIN d.tables : key = <<"Table", t>>
      BY <2>2 DEF ReadTables
    <3>2. t \in Tables /\ d.tables[t] \in Definitions
      BY <3>1 DEF IsDesign
    <3> QED
      BY <3>1, <3>2 DEF StableKeys, Definition, DefinitionsOf, Kind
  <2>3. CASE key \in ReadColumns(d, database, names)
    <3>1. PICK c \in DOMAIN d.columns : key = <<"Column", c>>
      BY <2>3 DEF ReadColumns
    <3>2. c \in Columns /\ d.columns[c] \in Definitions
      BY <3>1 DEF IsDesign
    <3> QED
      BY <3>1, <3>2 DEF StableKeys, Definition, DefinitionsOf, Kind
  <2> QED
    BY <2>1, <2>2, <2>3
<1> HIDE DEF read, snapshot
<1> QED
  BY <1>1, <1>2 DEF snapshot

\* So a snapshot that was read has versions of nodes.
LEMMA ReadNodes ==
    ASSUME NEW d \in Designs, NEW database \in Databases, NEW scope
    PROVE  LET snapshot == ReadSnapshot(d, database, scope)
           IN  /\ DOMAIN snapshot.nodes \subseteq StableKeys
               /\ \A key \in DOMAIN snapshot.nodes :
                     /\ snapshot.nodes[key] = Definition(d, key)
                     /\ snapshot.nodes[key] \in DefinitionsOf(key)
<1>1. IsDesign(d)
  BY CatalogAssumption
<1> QED
  BY <1>1, SnapshotNodes DEF ReadSnapshot, Scan, ScanTables

-----------------------------------------------------------------------------
(* A publication, source by source.                                        *)

\* What a publication writes to a node of its source.
LEMMA PublishedNode ==
    ASSUME CatalogInv, Publish, NEW key \in StableKeys
    PROVE  LET s == scan.source
               present == DOMAIN scan.snapshot.nodes
               v == nodes[s][key]
           IN  /\ key \in present =>
                    nodes'[s][key] = [status |-> "Active",
                                      definition |-> Definition(scan.design, key)]
               /\ key \notin present /\ v # None /\ v.status = "Active"
                    /\ WithinTableScope(key, scan.scope) =>
                    nodes'[s][key] = [status |-> "Stale", definition |-> v.definition]
               /\ key \notin present
                    /\ ~ (v # None /\ v.status = "Active" /\ WithinTableScope(key, scan.scope))
                    => nodes'[s][key] = v
<1> DEFINE s == scan.source
           present == DOMAIN scan.snapshot.nodes
           stale == Missing(s, present, scan.scope)
           v == nodes[s][key]
<1>1. /\ scan.phase = "Read" /\ s \in Sources
      /\ nodes' = [nodes EXCEPT ![s] = Versions(s, scan.snapshot, stale)]
  BY DEF Publish, CatalogInv, ScanOK
<1>2. DOMAIN nodes = Sources /\ v \in Version(key) \cup {None}
  BY <1>1 DEF CatalogInv, TypeOK
<1>3. nodes'[s][key] = CASE key \in present ->
                              [status |-> "Active", definition |-> scan.snapshot.nodes[key]]
                         [] key \in stale -> [v EXCEPT !.status = "Stale"]
                         [] OTHER -> v
  BY <1>1, <1>2 DEF Versions
<1>4. key \in stale <=> /\ key \notin present /\ v # None /\ v.status = "Active"
                        /\ WithinTableScope(key, scan.scope)
  BY DEF Missing
<1>5. key \in present => scan.snapshot.nodes[key] = Definition(scan.design, key)
  BY <1>1, ReadNodes DEF CatalogInv, ScanOK
<1>6. v # None => [v EXCEPT !.status = "Stale"] = [status |-> "Stale", definition |-> v.definition]
  BY <1>2 DEF Version
<1> HIDE DEF present, stale, v, s
<1>7. /\ key \in present => nodes'[s][key] = [status |-> "Active",
                                           definition |-> Definition(scan.design, key)]
      /\ key \in stale => nodes'[s][key] = [status |-> "Stale", definition |-> v.definition]
      /\ key \notin present /\ key \notin stale => nodes'[s][key] = v
  BY <1>3, <1>4, <1>5, <1>6
<1> QED
  BY <1>4, <1>7 DEF present, v, s

-----------------------------------------------------------------------------
(* The invariant, action by action.                                        *)

\* The registry and the catalog start empty.
LEMMA InitCatalogInv == Init => CatalogInv
<1> SUFFICES ASSUME Init PROVE CatalogInv
  OBVIOUS
<1>1. TypeOK
  BY CatalogAssumption DEF Init, TypeOK, Idle
<1>2. looks \in Seq(Look)
  BY DEF Init
<1>3. ScanOK
  BY DEF Init, ScanOK, Idle
<1>4. NothingWithoutSource /\ RotationKept
  BY DEF Init, NothingWithoutSource, RotationKept, Registered
<1>5. SearchMatches
  BY DEF Init, SearchMatches
<1> QED
  BY <1>1, <1>2, <1>3, <1>4, <1>5 DEF CatalogInv

\* A step that leaves the catalog and its scan alone.
LEMMA RegistryStep ==
    ASSUME CatalogInv, UNCHANGED <<scan, nodeVars>>,
           TypeOK', NothingWithoutSource', RotationKept'
    PROVE  CatalogInv'
<1>1. ScanOK' /\ looks' \in Seq(Look) /\ SearchMatches'
  BY DEF CatalogInv, nodeVars, ScanOK, SearchMatches, CurrentStatus
<1> QED
  BY <1>1 DEF CatalogInv

\* A row of the registry is written.
LEMMA RowWritten ==
    ASSUME CatalogInv, NEW s \in Sources, NEW row \in Row, NEW secret,
           dataSources' = [dataSources EXCEPT ![s] = row],
           lastSet' = [lastSet EXCEPT ![s] = secret], secret = row.secret
    PROVE  /\ dataSources' \in [Sources -> Row \cup {None}]
           /\ lastSet' \in [Sources -> DSNs \cup {None}]
           /\ Registered' = Registered \cup {s}
           /\ RotationKept'
<1>1. TypeOK /\ RotationKept /\ row # None /\ secret \in DSNs \cup {None}
  BY CatalogNoneAssumption DEF CatalogInv, Row
<1>2. /\ dataSources'[s] = row /\ lastSet'[s] = secret
      /\ \A t \in Sources \ {s} : dataSources'[t] = dataSources[t] /\ lastSet'[t] = lastSet[t]
  BY <1>1 DEF TypeOK
<1>3. Registered' = Registered \cup {s}
  BY <1>1, <1>2 DEF Registered
<1>4. RotationKept'
  BY <1>1, <1>2, <1>3 DEF RotationKept, Registered
<1> QED
  BY <1>1, <1>3, <1>4 DEF TypeOK

\* A source is created under an id that was never used.
LEMMA CreateInv ==
    ASSUME CatalogInv, NEW s \in Sources, NEW name \in Names, NEW secret \in DSNs \cup {None},
           CreateDataSource(s, name, secret)
    PROVE  CatalogInv'
<1> DEFINE row == [name |-> name, secret |-> secret]
<1>1. row \in Row /\ row.secret = secret
  BY DEF Row
<1>2. /\ dataSources' = [dataSources EXCEPT ![s] = row]
      /\ lastSet' = [lastSet EXCEPT ![s] = secret]
      /\ UNCHANGED <<deleted, changes, scan, scanRuns, nodes, search, looks, referenced, design>>
  BY DEF CreateDataSource, scanVars, nodeVars
<1> HIDE DEF row
<1>3. /\ dataSources' \in [Sources -> Row \cup {None}]
      /\ lastSet' \in [Sources -> DSNs \cup {None}]
      /\ Registered' = Registered \cup {s} /\ RotationKept'
  BY <1>1, <1>2, RowWritten
<1>4. TypeOK'
  BY <1>2, <1>3 DEF CatalogInv, TypeOK
<1>5. NothingWithoutSource'
  BY <1>2, <1>3 DEF CatalogInv, NothingWithoutSource
<1> QED
  BY <1>2, <1>3, <1>4, <1>5, RegistryStep DEF nodeVars

\* The first half of a change reads.
LEMMA ReadDataSourceInv ==
    ASSUME CatalogInv, NEW a \in Admins, NEW s \in Sources, NEW name \in Names,
           NEW secret \in DSNs \cup {None}, ReadDataSource(a, s, name, secret)
    PROVE  CatalogInv'
<1> DEFINE change == [source |-> s, name |-> name, secret |-> secret,
                      existing |-> dataSources[s]]
<1>1. change \in Change
  BY DEF Change, ReadDataSource, CatalogInv, TypeOK, Registered
<1>2. /\ changes' = [changes EXCEPT ![a] = change]
      /\ UNCHANGED <<dataSources, deleted, lastSet, scan, scanRuns, nodes, search, looks,
                     referenced, design>>
  BY DEF ReadDataSource, scanVars, nodeVars
<1> HIDE DEF change
<1>3. TypeOK'
  BY <1>1, <1>2 DEF CatalogInv, TypeOK
<1>4. NothingWithoutSource' /\ RotationKept'
  BY <1>2 DEF CatalogInv, NothingWithoutSource, RotationKept, Registered
<1> QED
  BY <1>2, <1>3, <1>4, RegistryStep DEF nodeVars

\* The second half writes, or is refused.
LEMMA UpdateInv ==
    ASSUME CatalogInv, NEW a \in Admins, UpdateDataSource(a) \/ RefuseUpdate(a)
    PROVE  CatalogInv'
<1>1. UNCHANGED <<deleted, scan, scanRuns, nodes, search, looks, referenced, design>>
      /\ changes' = [changes EXCEPT ![a] = None]
  BY DEF UpdateDataSource, RefuseUpdate, scanVars, nodeVars
<1>2. CASE RefuseUpdate(a)
  <2>1. UNCHANGED <<dataSources, lastSet>>
    BY <1>2 DEF RefuseUpdate
  <2>2. TypeOK'
    BY <1>1, <2>1 DEF CatalogInv, TypeOK
  <2>3. NothingWithoutSource' /\ RotationKept'
    BY <1>1, <2>1 DEF CatalogInv, NothingWithoutSource, RotationKept, Registered
  <2> QED
    BY <1>1, <2>2, <2>3, RegistryStep DEF nodeVars
<1>3. CASE UpdateDataSource(a)
  <2> DEFINE change == changes[a]
             s == change.source
             row == [name |-> change.name, secret |-> SecretWritten(change)]
             secret == IF change.secret = None THEN lastSet[s] ELSE change.secret
  <2>1. change \in Change /\ s \in Sources /\ s \in Registered
    BY <1>3 DEF UpdateDataSource, CatalogInv, TypeOK, Change, Registered
  <2>2. dataSources[s] \in Row /\ dataSources[s].secret = lastSet[s]
    BY <2>1 DEF CatalogInv, TypeOK, RotationKept, Registered
  <2>3. row \in Row /\ secret = row.secret
    BY <2>1, <2>2 DEF Change, Row, SecretWritten
  <2>4. /\ dataSources' = [dataSources EXCEPT ![s] = row]
        /\ lastSet' = [lastSet EXCEPT ![s] = secret]
    BY <1>3 DEF UpdateDataSource
  <2> HIDE DEF row, secret, s
  <2>5. /\ dataSources' \in [Sources -> Row \cup {None}]
        /\ lastSet' \in [Sources -> DSNs \cup {None}]
        /\ Registered' = Registered \cup {s} /\ RotationKept'
    BY <2>1, <2>3, <2>4, RowWritten
  <2>6. TypeOK'
    BY <1>1, <2>5 DEF CatalogInv, TypeOK
  <2>7. NothingWithoutSource'
    BY <1>1, <2>5 DEF CatalogInv, NothingWithoutSource
  <2> QED
    BY <1>1, <2>5, <2>6, <2>7, RegistryStep DEF nodeVars
<1> QED
  BY <1>2, <1>3

\* A source that nothing was imported from and nothing refers to goes with its runs.
LEMMA DeleteInv ==
    ASSUME CatalogInv, NEW s \in Sources, DeleteDataSource(s)
    PROVE  CatalogInv'
<1>1. /\ dataSources' = [dataSources EXCEPT ![s] = None]
      /\ scanRuns' = RunsWithout(s) /\ deleted' = deleted \cup {s}
      /\ UNCHANGED <<changes, lastSet, scan, nodes, search, looks, referenced, design>>
  BY DEF DeleteDataSource, nodeVars
<1>2. TypeOK
  BY DEF CatalogInv
<1>3. Registered' = Registered \ {s}
      /\ \A t \in Registered' : dataSources'[t] = dataSources[t]
  BY <1>1, <1>2 DEF Registered, TypeOK
<1>4. \A r \in Runs : /\ scanRuns'[r] \in {scanRuns[r], None}
                      /\ scanRuns'[r] # None => scanRuns'[r].source # s
  BY <1>1 DEF RunsWithout
<1>5. TypeOK'
  <2>1. scanRuns' \in [Runs -> RunRow \cup {None}]
    BY <1>1, <1>2, <1>4 DEF TypeOK, RunsWithout
  <2>2. dataSources' \in [Sources -> Row \cup {None}]
    BY <1>1, <1>2 DEF TypeOK
  <2> QED
    BY <1>1, <1>2, <2>1, <2>2 DEF TypeOK
<1>6. NothingWithoutSource'
  <2>1. \A x \in Sources, key \in StableKeys : nodes[x][key] # None => x \in Registered'
    BY <1>3 DEF DeleteDataSource, Imported, CatalogInv, NothingWithoutSource
  <2>2. \A r \in Runs : scanRuns'[r] # None => scanRuns'[r].source \in Registered'
    BY <1>3, <1>4 DEF CatalogInv, NothingWithoutSource
  <2>3. referenced \subseteq Registered'
    BY <1>3 DEF DeleteDataSource, Referenced, CatalogInv, NothingWithoutSource
  <2> QED
    BY <1>1, <2>1, <2>2, <2>3 DEF NothingWithoutSource
<1>7. RotationKept'
  BY <1>1, <1>3 DEF CatalogInv, RotationKept
<1> QED
  BY <1>1, <1>5, <1>6, <1>7, RegistryStep DEF nodeVars

-----------------------------------------------------------------------------
(* The steps of a scan.                                                    *)

\* A step that leaves the registered sources and the catalog alone.
LEMMA ScanStep ==
    ASSUME CatalogInv, UNCHANGED <<dataSources, deleted, lastSet, nodeVars, referenced>>,
           ScanOK', design' \in Designs,
           changes' \in [Admins -> Change \cup {None}],
           scanRuns' \in [Runs -> RunRow \cup {None}],
           \A r \in Runs : scanRuns'[r] # None => scanRuns'[r].source \in Registered
    PROVE  CatalogInv'
<1>1. TypeOK'
  BY DEF CatalogInv, TypeOK, ScanOK, nodeVars
<1>2. looks' \in Seq(Look) /\ SearchMatches' /\ RotationKept' /\ NothingWithoutSource'
  BY DEF CatalogInv, nodeVars, SearchMatches, CurrentStatus, RotationKept,
         NothingWithoutSource, Registered
<1> QED
  BY <1>1, <1>2 DEF CatalogInv

\* A step of the runner that writes nothing.
LEMMA RunnerStep ==
    ASSUME CatalogInv, UNCHANGED <<registryVars, scanRuns, nodeVars, referenced, design>>,
           ScanOK'
    PROVE  CatalogInv'
BY ScanStep DEF CatalogInv, TypeOK, NothingWithoutSource, registryVars

\* The connection string that is resolved names a database.
LEMMA StartScanInv ==
    ASSUME CatalogInv, NEW s \in Sources, NEW scope \in Scopes, StartScan(s, scope)
    PROVE  CatalogInv'
<1>1. dataSources[s] \in Row
  BY DEF StartScan, Registered, CatalogInv, TypeOK
<1>2. ResolveDSN(s) \in DSNs
  BY <1>1, CatalogAssumption DEF StartScan, ResolveDSN, Row
<1>3. DatabaseIn[ResolveDSN(s)] \in Databases
  BY <1>2, CatalogAssumption
<1>4. ScanOK'
  BY <1>3 DEF StartScan, ScanOK, nodeVars
<1> QED
  BY <1>4, RunnerStep DEF StartScan

\* A run is recorded for a source that is still registered.
LEMMA BeginSchemaScanInv ==
    ASSUME CatalogInv, NEW r \in Runs, BeginSchemaScan(r)
    PROVE  CatalogInv'
<1>1. ScanOK /\ scan.phase = "Resolved" /\ TypeOK
  BY DEF CatalogInv, BeginSchemaScan
<1>2. CASE scan.source \in Registered
  <2> DEFINE row == [source |-> scan.source, status |-> "Running"]
  <2>1. row \in RunRow /\ row.source \in Registered
    BY <1>1, <1>2 DEF RunRow, ScanOK
  <2>2. /\ scanRuns' = [scanRuns EXCEPT ![r] = row]
        /\ scan' = [phase |-> "Begun", source |-> scan.source, scope |-> scan.scope,
                    database |-> scan.database, run |-> r]
    BY <1>2 DEF BeginSchemaScan
  <2>3. ScanOK'
    BY <1>1, <2>2 DEF ScanOK, BeginSchemaScan, nodeVars
  <2> HIDE DEF row
  <2>4. scanRuns' \in [Runs -> RunRow \cup {None}]
    BY <1>1, <2>1, <2>2 DEF TypeOK
  <2>5. \A q \in Runs : scanRuns'[q] # None => scanRuns'[q].source \in Registered
    BY <1>1, <2>1, <2>2 DEF TypeOK, CatalogInv, NothingWithoutSource
  <2> QED
    BY <1>1, <2>3, <2>4, <2>5, ScanStep DEF BeginSchemaScan, registryVars, TypeOK
<1>3. CASE scan.source \notin Registered
  <2>1. scan' = Idle /\ UNCHANGED scanRuns
    BY <1>3 DEF BeginSchemaScan
  <2>2. ScanOK'
    BY <2>1 DEF ScanOK, Idle
  <2> QED
    BY <2>1, <2>2, RunnerStep DEF BeginSchemaScan
<1> QED
  BY <1>2, <1>3

\* The runner reads the source, or fails, or is refused.
LEMMA ReadInv ==
    ASSUME CatalogInv, ReadSource \/ ReadFails \/ PublicationFails
    PROVE  CatalogInv'
<1>1. ScanOK /\ TypeOK
  BY DEF CatalogInv
<1>2. ScanOK'
  <2>1. CASE ReadSource
    BY <1>1, <2>1 DEF ReadSource, ScanOK, nodeVars, TypeOK
  <2>2. CASE ReadFails \/ PublicationFails
    BY <1>1, <2>2 DEF ReadFails, PublicationFails, ScanOK
  <2> QED
    BY <2>1, <2>2
<1> QED
  BY <1>2, RunnerStep DEF ReadSource, ReadFails, PublicationFails

\* The run of a failed scan ends.
LEMMA FailSchemaScanInv ==
    ASSUME CatalogInv, FailSchemaScan
    PROVE  CatalogInv'
<1>1. ScanOK /\ TypeOK /\ NothingWithoutSource /\ scan.source \in Sources /\ scan.run \in Runs
  BY DEF CatalogInv, FailSchemaScan, ScanOK
<1>2. ScanOK'
  BY DEF ScanOK, FailSchemaScan, Idle
<1>3. CASE UNCHANGED scanRuns
  BY <1>2, <1>3, RunnerStep DEF FailSchemaScan
<1>4. ASSUME VerifyRunning(scan.run, scan.source),
             scanRuns' = [scanRuns EXCEPT ![scan.run] =
                             [source |-> scan.source, status |-> "Failed"]]
      PROVE  CatalogInv'
  <2> DEFINE row == [source |-> scan.source, status |-> "Failed"]
             was == [source |-> scan.source, status |-> "Running"]
  <2>1. row \in RunRow /\ was \in RunRow /\ row.source = was.source
    BY <1>1 DEF RunRow
  <2>2. scanRuns[scan.run] = was /\ scanRuns' = [scanRuns EXCEPT ![scan.run] = row]
    BY <1>4 DEF VerifyRunning
  <2> HIDE DEF row, was
  <2>3. was.source \in Registered
    BY <1>1, <2>1, <2>2, CatalogNoneAssumption DEF NothingWithoutSource
  <2>4. scanRuns' \in [Runs -> RunRow \cup {None}]
    BY <1>1, <2>1, <2>2 DEF TypeOK
  <2>5. \A q \in Runs : scanRuns'[q] # None => scanRuns'[q].source \in Registered
    BY <1>1, <2>1, <2>2, <2>3 DEF TypeOK, NothingWithoutSource
  <2> QED
    BY <1>1, <1>2, <2>4, <2>5, ScanStep DEF FailSchemaScan, registryVars, TypeOK
<1> QED
  BY <1>3, <1>4 DEF FailSchemaScan

\* The process ends, and the next one ends the runs left running.
LEMMA ProcessEndsInv ==
    ASSUME CatalogInv, ProcessEnds
    PROVE  CatalogInv'
<1>1. TypeOK /\ NothingWithoutSource
  BY DEF CatalogInv
<1>2. ScanOK'
  BY DEF ScanOK, ProcessEnds, Idle
<1>3. ASSUME NEW r \in Runs
      PROVE  /\ scanRuns'[r] \in RunRow \cup {None}
             /\ scanRuns'[r] # None => scanRuns'[r].source \in Registered
  <2>1. scanRuns[r] \in RunRow \cup {None}
    BY <1>1 DEF TypeOK
  <2>2. CASE scanRuns[r] # None /\ scanRuns[r].status = "Running"
    <3>1. /\ scanRuns'[r] = [scanRuns[r] EXCEPT !.status = "Failed"]
          /\ scanRuns[r] \in RunRow /\ scanRuns[r].source \in Registered
      BY <1>1, <2>1, <2>2 DEF ProcessEnds, NothingWithoutSource
    <3>2. scanRuns'[r] \in RunRow /\ scanRuns'[r].source = scanRuns[r].source
      BY <3>1 DEF RunRow
    <3> QED
      BY <3>1, <3>2
  <2>3. CASE ~ (scanRuns[r] # None /\ scanRuns[r].status = "Running")
    <3>1. scanRuns'[r] = scanRuns[r]
      BY <2>3 DEF ProcessEnds
    <3> QED
      BY <1>1, <2>1, <3>1 DEF NothingWithoutSource
  <2> QED
    BY <2>2, <2>3
<1>4. scanRuns' \in [Runs -> RunRow \cup {None}] /\ changes' \in [Admins -> Change \cup {None}]
  BY <1>3 DEF ProcessEnds
<1> QED
  BY <1>1, <1>2, <1>3, <1>4, ScanStep DEF ProcessEnds, TypeOK

\* Members of a binding revision refer to registered sources, or no longer do.
LEMMA ReferencedInv ==
    ASSUME CatalogInv, UNCHANGED <<registryVars, scanVars, nodeVars, design>>,
           referenced' \subseteq Registered
    PROVE  CatalogInv'
<1>1. TypeOK'
  BY DEF CatalogInv, TypeOK, registryVars, scanVars, nodeVars, Registered
<1>2. NothingWithoutSource' /\ RotationKept'
  BY DEF CatalogInv, NothingWithoutSource, RotationKept, Registered, registryVars, scanVars,
         nodeVars
<1> QED
  BY <1>1, <1>2, RegistryStep DEF scanVars

\* A publication: the nodes, their search records, the run and the look.
LEMMA PublishInv ==
    ASSUME CatalogInv, Publish
    PROVE  CatalogInv'
<1> DEFINE s == scan.source
           present == DOMAIN scan.snapshot.nodes
           stale == Missing(s, present, scan.scope)
           row == [source |-> s, status |-> "Succeeded"]
           look == [source |-> s, scope |-> scan.scope,
                    database |-> scan.database, design |-> scan.design]
<1>1. TypeOK /\ ScanOK /\ NothingWithoutSource /\ SearchMatches /\ looks \in Seq(Look)
  BY DEF CatalogInv
<1>2. /\ scan.phase = "Read" /\ s \in Sources /\ scan.run \in Runs /\ s \in Registered
      /\ scan.design \in Designs /\ scan.database \in Databases
      /\ Len(looks) < MaxLooks
      /\ scan.snapshot = ReadSnapshot(scan.design, scan.database, scan.scope)
  BY <1>1 DEF Publish, ScanOK, Publishable
<1>3. /\ nodes' = [nodes EXCEPT ![s] = Versions(s, scan.snapshot, stale)]
      /\ search' = [search EXCEPT ![s] = SearchRecords(s, scan.snapshot, stale)]
      /\ scanRuns' = [scanRuns EXCEPT ![scan.run] = row]
      /\ scan' = Idle
      /\ looks' = Append(looks, look)
      /\ UNCHANGED <<dataSources, deleted, changes, lastSet, referenced, design>>
  BY DEF Publish, registryVars
<1>4. /\ present \subseteq StableKeys
      /\ \A key \in present : /\ scan.snapshot.nodes[key] = Definition(scan.design, key)
                              /\ scan.snapshot.nodes[key] \in DefinitionsOf(key)
  BY <1>2, ReadNodes
<1>5. look \in Look /\ row \in RunRow
  BY <1>1, <1>2 DEF Look, ScanOK, RunRow
<1>6. stale \subseteq StableKeys \ present
  BY DEF Missing
<1>7. ASSUME NEW key \in StableKeys
      PROVE  /\ nodes'[s][key] \in Version(key) \cup {None}
             /\ key \in present => nodes'[s][key] = [status |-> "Active",
                                              definition |-> scan.snapshot.nodes[key]]
             /\ key \in stale => /\ nodes'[s][key].status = "Stale"
                                 /\ nodes'[s][key].definition = nodes[s][key].definition
             /\ key \notin present /\ key \notin stale => nodes'[s][key] = nodes[s][key]
             /\ key \in stale => nodes[s][key].status = "Active" /\ nodes[s][key] # None
  <2> DEFINE v == nodes[s][key]
  <2>1. v \in Version(key) \cup {None}
    BY <1>1, <1>2 DEF TypeOK
  <2>2. key \in stale => v # None /\ v.status = "Active" /\ key \notin present
                           /\ WithinTableScope(key, scan.scope)
    BY DEF Missing
  <2>3. key \in stale <=> /\ key \notin present /\ v # None /\ v.status = "Active"
                          /\ WithinTableScope(key, scan.scope)
    BY DEF Missing
  <2>4. /\ key \in present => nodes'[s][key] = [status |-> "Active",
                                              definition |-> scan.snapshot.nodes[key]]
        /\ key \in stale => nodes'[s][key] = [status |-> "Stale", definition |-> v.definition]
        /\ key \notin present /\ key \notin stale => nodes'[s][key] = v
    BY <1>4, <2>3, PublishedNode
  <2>5. key \in stale => v.definition \in DefinitionsOf(key)
    BY <2>1, <2>2 DEF Version
  <2>6. nodes'[s][key] \in Version(key) \cup {None}
    <3>1. CASE key \in present
      BY <1>4, <2>4, <3>1 DEF Version
    <3>2. CASE key \in stale
      BY <2>4, <2>5, <3>2 DEF Version
    <3>3. CASE key \notin present /\ key \notin stale
      BY <2>1, <2>4, <3>3
    <3> QED
      BY <3>1, <3>2, <3>3
  <2> HIDE DEF present, stale
  <2> QED
    BY <2>2, <2>4, <2>6
<1>8. DOMAIN nodes'[s] = StableKeys /\ DOMAIN nodes' = Sources
      /\ \A x \in Sources \ {s} : nodes'[x] = nodes[x]
  BY <1>1, <1>2, <1>3, SMTT(30) DEF TypeOK, Versions
<1>9. /\ search'[s] = {e \in search[s] : e[1] \notin present \cup stale}
                        \cup {<<key, scan.snapshot.nodes[key]>> : key \in present}
      /\ \A x \in Sources \ {s} : search'[x] = search[x]
      /\ DOMAIN search' = Sources
  BY <1>1, <1>2, <1>3 DEF TypeOK, SearchRecords
<1>10. search[s] = {<<key, nodes[s][key].definition>> :
                        key \in {k \in StableKeys : nodes[s][k] # None
                                              /\ nodes[s][k].status = "Active"}}
  BY <1>1, <1>2 DEF SearchMatches, CurrentStatus
<1>11. looks' \in Seq(Look) /\ Len(looks') \in 0..MaxLooks
  BY <1>1, <1>2, <1>3, <1>5, CatalogAssumption DEF look
<1>12. scanRuns' \in [Runs -> RunRow \cup {None}]
       /\ \A r \in Runs : scanRuns'[r] # None => scanRuns'[r].source \in Registered
  <2> HIDE DEF row
  <2>1. row.source \in Registered
    BY <1>2 DEF row
  <2> QED
    BY <1>1, <1>2, <1>3, <1>5, <2>1 DEF TypeOK, NothingWithoutSource
<1> HIDE DEF present, stale, look, row
<1>13. ScanOK'
  BY <1>3 DEF ScanOK, Idle
<1>14. search'[s] = {<<key, nodes'[s][key].definition>> :
                        key \in {k \in StableKeys : nodes'[s][k] # None
                                              /\ nodes'[s][k].status = "Active"}}
  <2> DEFINE active == {k \in StableKeys : nodes'[s][k] # None /\ nodes'[s][k].status = "Active"}
             records == {<<key, nodes'[s][key].definition>> : key \in active}
  <2>1. \A key \in present : nodes'[s][key] # None /\ nodes'[s][key].status = "Active"
                             /\ nodes'[s][key].definition = scan.snapshot.nodes[key]
    <3> TAKE key \in present
    <3>1. nodes'[s][key] = [status |-> "Active", definition |-> scan.snapshot.nodes[key]]
      BY <1>4, <1>7
    <3>2. nodes'[s][key] \in Version(key)
      BY <1>4, <3>1 DEF Version
    <3> QED
      BY <1>4, <3>1, <3>2, CatalogNoneAssumption
  <2>2. \A key \in StableKeys : key \in active <=>
            key \in present \/ /\ key \notin stale /\ nodes[s][key] # None
                               /\ nodes[s][key].status = "Active"
    <3> TAKE key \in StableKeys
    <3>1. CASE key \in present
      BY <2>1, <3>1
    <3>2. CASE key \in stale
      BY <1>6, <1>7, <3>2
    <3>3. CASE key \notin present /\ key \notin stale
      BY <1>7, <3>3
    <3> QED
      BY <3>1, <3>2, <3>3
  <2>3. \A key \in StableKeys : key \in active /\ key \notin present =>
            nodes'[s][key].definition = nodes[s][key].definition
    BY <1>7
  <2>4. active \subseteq StableKeys
    OBVIOUS
  <2> HIDE DEF active
  <2>5. ASSUME NEW e \in search'[s] PROVE e \in records
    <3>1. CASE e \in {<<key, scan.snapshot.nodes[key]>> : key \in present}
      <4>1. PICK key \in present : e = <<key, scan.snapshot.nodes[key]>>
        BY <3>1
      <4>2. key \in active /\ nodes'[s][key].definition = scan.snapshot.nodes[key]
        BY <1>4, <2>1, <2>2, <4>1
      <4> QED
        BY <4>1, <4>2
    <3>2. CASE e \in search[s] /\ e[1] \notin present \cup stale
      <4>1. PICK key \in StableKeys : /\ e = <<key, nodes[s][key].definition>>
                                      /\ nodes[s][key] # None
                                      /\ nodes[s][key].status = "Active"
        BY <1>10, <3>2
      <4>2. key \in active /\ key \notin present
        BY <2>2, <3>2, <4>1
      <4> QED
        BY <2>3, <4>1, <4>2
    <3> QED
      BY <1>9, <3>1, <3>2
  <2>6. ASSUME NEW e \in records PROVE e \in search'[s]
    <3>1. PICK key \in active : e = <<key, nodes'[s][key].definition>>
      BY DEF records
    <3>2. key \in StableKeys
      BY <2>4
    <3>3. CASE key \in present
      BY <1>9, <2>1, <3>1, <3>3
    <3>4. CASE key \notin present
      <4>1. e = <<key, nodes[s][key].definition>> /\ key \notin stale
            /\ nodes[s][key] # None /\ nodes[s][key].status = "Active"
        BY <2>2, <2>3, <3>1, <3>2, <3>4
      <4>2. e \in search[s] /\ e[1] = key
        BY <1>10, <3>2, <4>1
      <4> QED
        BY <1>9, <3>4, <4>1, <4>2
    <3> QED
      BY <3>3, <3>4
  <2> HIDE DEF records
  <2>7. search'[s] = records
    BY <2>5, <2>6
  <2> QED
    BY <2>7 DEF records, active
<1>15. SearchMatches'
  <2>1. \A x \in Sources \ {s} :
           search'[x] = {<<key, nodes'[x][key].definition>> :
                            key \in {k \in StableKeys : nodes'[x][k] # None
                                                  /\ nodes'[x][k].status = "Active"}}
    BY <1>1, <1>8, <1>9 DEF SearchMatches, CurrentStatus
  <2> QED
    BY <1>14, <2>1 DEF SearchMatches, CurrentStatus
<1>16. search' \in [Sources -> SUBSET (StableKeys \X (Definitions \cup {None}))]
  <2>1. {<<key, scan.snapshot.nodes[key]>> : key \in present}
            \subseteq StableKeys \X (Definitions \cup {None})
    BY <1>4 DEF DefinitionsOf
  <2>2. \A x \in Sources : search'[x] \subseteq StableKeys \X (Definitions \cup {None})
    BY <1>1, <1>9, <2>1 DEF TypeOK
  <2>3. search' = [x \in Sources |-> search'[x]]
    BY <1>1, <1>3 DEF TypeOK
  <2> QED
    BY <2>2, <2>3
<1>17. \A x \in Sources : /\ DOMAIN nodes'[x] = StableKeys
                          /\ \A key \in StableKeys : nodes'[x][key] \in Version(key) \cup {None}
  BY <1>1, <1>7, <1>8, ZenonT(60) DEF TypeOK
<1>18. TypeOK'
  BY <1>1, <1>3, <1>8, <1>11, <1>12, <1>13, <1>16, <1>17 DEF TypeOK, ScanOK
<1>19. NothingWithoutSource'
  <2>1. Registered' = Registered /\ referenced' = referenced
    BY <1>3 DEF Registered
  <2>2. \A x \in Sources, key \in StableKeys : nodes'[x][key] # None => x \in Registered
    BY <1>1, <1>2, <1>8 DEF NothingWithoutSource
  <2> QED
    BY <1>1, <1>12, <2>1, <2>2 DEF NothingWithoutSource
<1>20. RotationKept'
  BY <1>3 DEF CatalogInv, RotationKept, Registered
<1> QED
  BY <1>11, <1>13, <1>15, <1>18, <1>19, <1>20 DEF CatalogInv

\* The invariant is inductive.
LEMMA CatalogStepInv ==
    ASSUME CatalogInv, [Next]_catalogVars
    PROVE  CatalogInv'
<1>1. CASE Next
  <2>1. CASE \E s \in Sources, name \in Names, secret \in DSNs \cup {None} :
                CreateDataSource(s, name, secret)
    BY <2>1, CreateInv
  <2>2. CASE \E s \in Sources, name \in Names, secret \in DSNs \cup {None}, a \in Admins :
                ReadDataSource(a, s, name, secret)
    BY <2>2, ReadDataSourceInv
  <2>3. CASE \E a \in Admins : UpdateDataSource(a) \/ RefuseUpdate(a)
    BY <2>3, UpdateInv
  <2>4. CASE \E s \in Sources : DeleteDataSource(s)
    BY <2>4, DeleteInv
  <2>5. CASE \E s \in Sources, scope \in Scopes : StartScan(s, scope)
    BY <2>5, StartScanInv
  <2>6. CASE \E r \in Runs : BeginSchemaScan(r)
    BY <2>6, BeginSchemaScanInv
  <2>7. CASE ReadSource \/ ReadFails \/ PublicationFails
    BY <2>7, ReadInv
  <2>8. CASE Publish
    BY <2>8, PublishInv
  <2>9. CASE FailSchemaScan
    BY <2>9, FailSchemaScanInv
  <2>10. CASE Restart
    BY <2>10, ProcessEndsInv DEF Restart
  <2>11. CASE AlterSource
    <3>1. ScanOK'
      BY <2>11 DEF AlterSource, CatalogInv, ScanOK, scanVars, nodeVars
    <3> QED
      BY <2>11, <3>1, ScanStep
         DEF AlterSource, CatalogInv, TypeOK, NothingWithoutSource, registryVars, scanVars
  <2> QED
    BY <1>1, <2>1, <2>2, <2>3, <2>4, <2>5, <2>6, <2>7, <2>8, <2>9, <2>10, <2>11 DEF Next
<1>2. CASE UNCHANGED catalogVars
  BY <1>2, RunnerStep DEF catalogVars, CatalogInv, ScanOK, registryVars, scanVars, nodeVars
<1> QED
  BY <1>1, <1>2

-----------------------------------------------------------------------------
(* What the catalog promises of its registry and its index.                *)

\* The invariant holds.
THEOREM CatalogInvariantHolds == Spec => []CatalogInv
<1>1. Init => CatalogInv
  BY InitCatalogInv
<1>2. CatalogInv /\ [Next]_catalogVars => CatalogInv'
  BY CatalogStepInv
<1> QED
  BY <1>1, <1>2, PTL DEF Spec

\* Nodes, scan runs and the members of binding revisions belong to sources that
\* are registered, whatever was under way when a source was deleted
\* (data_source_delete.go, FailSchemaScan, Publish).
THEOREM NothingOutlivesItsSource == Spec => []NothingWithoutSource
<1>1. CatalogInv => NothingWithoutSource
  BY DEF CatalogInv
<1> QED
  BY <1>1, CatalogInvariantHolds, PTL

\* The connection string of a source is the one last given: the write of a rename
\* takes the secret from the row and not from the read it began with.
THEOREM RotationIsKept == Spec => []RotationKept
<1>1. CatalogInv => RotationKept
  BY DEF CatalogInv
<1> QED
  BY <1>1, CatalogInvariantHolds, PTL

\* The search index is the active part of the catalog, with the words of the
\* current versions, and what it finds are nodes readers are shown.
THEOREM SearchFindsTheCatalog == Spec => []SearchTellsCatalog
<1>1. ASSUME CatalogInv PROVE SearchTellsCatalog
  <2>1. SearchMatches
    BY <1>1 DEF CatalogInv
  <2>2. ASSUME NEW s \in Sources, NEW e \in search[s]
        PROVE  e[1] \in SearchCurrentNodes(s)
    <3>1. PICK key \in StableKeys : /\ e = <<key, nodes[s][key].definition>>
                                    /\ nodes[s][key] # None
                                    /\ CurrentStatus(s, key) = "Active"
      BY <2>1, <2>2 DEF SearchMatches
    <3>2. e[1] = key
      BY <3>1
    <3> QED
      BY <3>1, <3>2 DEF SearchCurrentNodes
  <2> QED
    BY <2>1, <2>2 DEF SearchTellsCatalog, SearchMatches
<1> QED
  BY <1>1, CatalogInvariantHolds, PTL

-----------------------------------------------------------------------------
(* What the catalog tells of the source.  The names of tables may not      *)
(* contain one another: with a table named like another one, a dot and     *)
(* more, an incremental scan takes the columns of the one for columns of   *)
(* the other.                                                              *)

\* The tables that foreign keys refer to are read when their names have no dot.
NoDots == DottedUnder = {}

\* What was read exists, and the publication tells of it; the catalog refuses a
\* column without its table, so the columns of views never get here.
LEMMA ReadExists ==
    ASSUME NoDots, NEW d \in Designs, NEW database \in Databases, NEW scope \in Scopes,
           ScannableScope(database, scope), NEW source,
           ValidSnapshot(ReadSnapshot(d, database, scope)),
           NEW key \in DOMAIN ReadSnapshot(d, database, scope).nodes
    PROVE  /\ Exists(d, database, key)
           /\ Tells([source |-> source, scope |-> scope,
                     database |-> database, design |-> d], key)
<1> DEFINE snapshot == ReadSnapshot(d, database, scope)
           keys  == ReadForeignKeys(d, database, scope)
           names == IF scope = {} THEN Tables ELSE ExpandedTables(scope, keys)
           look  == [source |-> source, scope |-> scope, database |-> database, design |-> d]
<1>1. IsDesign(d) /\ scope \subseteq Tables
  BY CatalogAssumption
<1>2. DOMAIN snapshot.nodes = {<<"Database", database>>, <<"Schema", database>>}
          \cup ReadTables(d, database, names) \cup ReadColumns(d, database, names)
  BY DEF ReadSnapshot, Scan, ScanTables, Snapshot
<1>3. ASSUME NEW t \in names, scope # {}
      PROVE  \/ t \in scope
             \/ \E f \in d.keys : /\ TableOf[SourceColumn[f]] \in scope
                                  /\ TableOf[TargetColumn[f]] = t
  BY <1>3 DEF ExpandedTables, ReadForeignKeys
<1>4. CASE key \in {<<"Database", database>>, <<"Schema", database>>}
  <2>1. Kind(key) \in {"Database", "Schema"} /\ key[2] = database
    BY <1>4 DEF Kind
  <2>2. Exists(d, database, key)
    BY <2>1 DEF Exists
  <2> QED
    BY <2>1, <2>2 DEF Tells
<1>5. CASE key \in ReadTables(d, database, names)
  <2>1. PICK t \in DOMAIN d.tables : /\ key = <<"Table", t>>
                                     /\ HomeOf[t] = database /\ t \in names
    BY <1>5 DEF ReadTables, InDatabase
  <2>2. Kind(key) = "Table" /\ key[2] = t
    BY <2>1 DEF Kind
  <2>3. Exists(d, database, key)
    BY <2>1, <2>2 DEF Exists
  <2>4. CASE scope = {}
    BY <2>3, <2>4 DEF Tells
  <2>5. CASE scope # {}
    BY <1>3, <2>1, <2>2, <2>3, <2>5 DEF Tells
  <2> QED
    BY <2>3, <2>4, <2>5
<1>6. CASE key \in ReadColumns(d, database, names)
  <2>1. PICK c \in DOMAIN d.columns : /\ key = <<"Column", c>>
                                      /\ HomeOf[TableOf[c]] = database /\ TableOf[c] \in names
    BY <1>6 DEF ReadColumns, InDatabase
  <2>2. Kind(key) = "Column" /\ key[2] = c
    BY <2>1 DEF Kind
  <2>3. <<"Table", TableOf[c]>> \in DOMAIN snapshot.nodes
    BY <2>2 DEF ValidSnapshot, Parent
  <2>4. PICK t \in DOMAIN d.tables : <<"Table", TableOf[c]>> = <<"Table", t>>
    BY <1>2, <2>3 DEF ReadTables, ReadColumns
  <2>5. Exists(d, database, key)
    BY <2>1, <2>2, <2>4 DEF Exists
  <2>6. CASE scope = {}
    BY <2>5, <2>6 DEF Tells
  <2>7. CASE scope # {}
    BY <1>3, <2>1, <2>2, <2>5, <2>7 DEF Tells
  <2> QED
    BY <2>5, <2>6, <2>7
<1> HIDE DEF names
<1> QED
  BY <1>2, <1>4, <1>5, <1>6

\* Everything that exists and that the publication tells of was read.
LEMMA ExistingIsRead ==
    ASSUME NoDots, NEW d \in Designs, NEW database \in Databases, NEW scope \in Scopes,
           ScannableScope(database, scope), NEW source, NEW key \in StableKeys,
           Exists(d, database, key),
           Tells([source |-> source, scope |-> scope,
                  database |-> database, design |-> d], key)
    PROVE  key \in DOMAIN ReadSnapshot(d, database, scope).nodes
<1> DEFINE snapshot == ReadSnapshot(d, database, scope)
           keys  == ReadForeignKeys(d, database, scope)
           names == IF scope = {} THEN Tables ELSE ExpandedTables(scope, keys)
<1>1. IsDesign(d) /\ scope \subseteq Tables
  BY CatalogAssumption
<1>2. DOMAIN snapshot.nodes = {<<"Database", database>>, <<"Schema", database>>}
          \cup ReadTables(d, database, names) \cup ReadColumns(d, database, names)
  BY DEF ReadSnapshot, Scan, ScanTables, Snapshot
<1>3. ASSUME NEW f \in d.keys, scope # {}, TableOf[SourceColumn[f]] \in scope,
             HomeOf[TableOf[TargetColumn[f]]] = database
      PROVE  TableOf[TargetColumn[f]] \in names
  BY <1>3 DEF ExpandedTables, ReadForeignKeys, ScannableScope, InDatabase, Dotted, NoDots
<1>4. scope # {} => scope \subseteq names
  BY DEF ExpandedTables
<1>5. scope = {} => names = Tables
  OBVIOUS
<1> HIDE DEF names
<1>6. CASE Kind(key) \in {"Database", "Schema"}
  <2>1. key[2] = database /\ key \in {"Database", "Schema"} \X Databases
    BY <1>6 DEF Exists, StableKeys, Kind
  <2> QED
    BY <1>2, <2>1
<1>7. CASE Kind(key) = "Table"
  <2>1. PICK t \in Tables : key = <<"Table", t>> /\ key[2] = t
    BY <1>7, KeyKinds
  <2>2. t \in DOMAIN d.tables /\ HomeOf[t] = database
    BY <1>7, <2>1 DEF Exists
  <2>3. t \in names
    <3>1. CASE scope = {}
      BY <1>5, <3>1
    <3>2. CASE scope # {}
      BY <1>3, <1>4, <1>7, <2>1, <2>2, <3>2 DEF Tells
    <3> QED
      BY <3>1, <3>2
  <2> QED
    BY <1>2, <2>1, <2>2, <2>3 DEF ReadTables, InDatabase
<1>8. CASE Kind(key) = "Column"
  <2>1. PICK c \in Columns : key = <<"Column", c>> /\ key[2] = c
    BY <1>8, KeyKinds
  <2>2. c \in DOMAIN d.columns /\ HomeOf[TableOf[c]] = database /\ TableOf[c] \in Tables
    BY <1>8, <2>1, ReaderAssumption DEF Exists
  <2>3. TableOf[c] \in names
    <3>1. CASE scope = {}
      BY <1>5, <2>2, <3>1
    <3>2. CASE scope # {}
      BY <1>3, <1>4, <1>8, <2>1, <2>2, <3>2 DEF Tells
    <3> QED
      BY <3>1, <3>2
  <2> QED
    BY <1>2, <2>1, <2>2, <2>3 DEF ReadColumns, InDatabase
<1> QED
  BY <1>6, <1>7, <1>8, KeyKinds

\* The catalog tells of each node what the last publication that told of it saw, and
\* there is a last one: the publications that tell of a node are finitely many.
ToldOK(s, key) ==
    /\ Telling(s, key) # {} => /\ Last(Telling(s, key)) \in Telling(s, key)
                               /\ \A j \in Telling(s, key) : j <= Last(Telling(s, key))
    /\ Seeing(s, key) # {} => /\ Last(Seeing(s, key)) \in Seeing(s, key)
                              /\ \A j \in Seeing(s, key) : j <= Last(Seeing(s, key))
    /\ IF Seeing(s, key) = {} THEN nodes[s][key] = None
       ELSE nodes[s][key] =
              [status |-> IF Last(Telling(s, key)) = Last(Seeing(s, key))
                            THEN "Active" ELSE "Stale",
               definition |-> Definition(looks[Last(Seeing(s, key))].design, key)]

CatalogTold == \A s \in Sources, key \in StableKeys : ToldOK(s, key)

\* What exists has a definition of its kind.
LEMMA SeenDefinition ==
    ASSUME NEW d \in Designs, NEW database, NEW key \in StableKeys, Exists(d, database, key)
    PROVE  Definition(d, key) \in DefinitionsOf(key)
<1>1. IsDesign(d)
  BY CatalogAssumption
<1> QED
  BY <1>1, KeyKinds DEF Exists, Definition, DefinitionsOf, IsDesign

\* A publication is the last of those that told of what it tells of.
LEMMA LastOfAppended ==
    ASSUME NEW n \in Nat, NEW I, I \subseteq 1..n
    PROVE  /\ Last(I \cup {n + 1}) = n + 1
           /\ \A j \in I \cup {n + 1} : j <= n + 1
<1>1. n + 1 \in I \cup {n + 1} /\ \A j \in I \cup {n + 1} : j <= n + 1
  OBVIOUS
<1>2. ASSUME NEW i \in I \cup {n + 1}, \A j \in I \cup {n + 1} : j <= i
      PROVE  i = n + 1
  <2>1. n + 1 <= i /\ i <= n + 1 /\ i \in Nat
    BY <1>1, <1>2
  <2> QED
    BY <2>1
<1> QED
  BY <1>1, <1>2 DEF Last

\* A publication keeps the earlier ones.
LEMMA LooksAppended ==
    ASSUME CatalogInv, Publish
    PROVE  LET n == Len(looks)
               look == [source |-> scan.source, scope |-> scan.scope,
                        database |-> scan.database, design |-> scan.design]
           IN  /\ n \in Nat
               /\ DOMAIN looks = 1..n
               /\ DOMAIN looks' = (1..n) \cup {n + 1}
               /\ looks'[n + 1] = look
               /\ \A i \in 1..n : looks'[i] = looks[i]
<1> DEFINE look == [source |-> scan.source, scope |-> scan.scope,
                    database |-> scan.database, design |-> scan.design]
<1>1. looks' = Append(looks, look) /\ looks \in Seq(Look) /\ look \in Look
  BY DEF Publish, CatalogInv, Look, ScanOK
<1> HIDE DEF look
<1> QED
  BY <1>1 DEF look

\* What a publication adds to what is told of a node.
LEMMA TellingGrows ==
    ASSUME CatalogInv, Publish, NEW s \in Sources, NEW key \in StableKeys
    PROVE  LET n == Len(looks)
               look == [source |-> scan.source, scope |-> scan.scope,
                        database |-> scan.database, design |-> scan.design]
               tells == s = scan.source /\ Tells(look, key)
               sees  == tells /\ Exists(scan.design, scan.database, key)
           IN  /\ Telling(s, key) \subseteq 1..n /\ Seeing(s, key) \subseteq 1..n
               /\ Telling(s, key)' = Telling(s, key) \cup (IF tells THEN {n + 1} ELSE {})
               /\ Seeing(s, key)' = Seeing(s, key) \cup (IF sees THEN {n + 1} ELSE {})
<1> DEFINE n == Len(looks)
           look == [source |-> scan.source, scope |-> scan.scope,
                    database |-> scan.database, design |-> scan.design]
           tells == s = scan.source /\ Tells(look, key)
           sees  == tells /\ Exists(scan.design, scan.database, key)
<1>1. /\ n \in Nat /\ DOMAIN looks = 1..n /\ DOMAIN looks' = (1..n) \cup {n + 1}
      /\ looks'[n + 1] = look /\ \A i \in 1..n : looks'[i] = looks[i]
  BY LooksAppended
<1>2. Telling(s, key)' = {i \in DOMAIN looks' : looks'[i].source = s /\ Tells(looks'[i], key)}
      /\ Telling(s, key) = {i \in DOMAIN looks : looks[i].source = s /\ Tells(looks[i], key)}
  BY DEF Telling, Tells
<1>3. Seeing(s, key)' = {i \in Telling(s, key)' :
                            Exists(looks'[i].design, looks'[i].database, key)}
      /\ Seeing(s, key) = {i \in Telling(s, key) :
                            Exists(looks[i].design, looks[i].database, key)}
  BY DEF Seeing, Exists
<1>4. look.source = scan.source /\ look.design = scan.design /\ look.database = scan.database
  OBVIOUS
<1> HIDE DEF n, look
<1>5. Telling(s, key) \subseteq 1..n /\ Seeing(s, key) \subseteq 1..n /\ n + 1 \notin 1..n
  BY <1>1, <1>2, <1>3
<1>6. Telling(s, key)' = Telling(s, key) \cup (IF tells THEN {n + 1} ELSE {})
  BY <1>1, <1>2, <1>4, <1>5
<1>7. Seeing(s, key)' = Seeing(s, key) \cup (IF sees THEN {n + 1} ELSE {})
  BY <1>1, <1>3, <1>4, <1>5, <1>6
<1> QED
  BY <1>5, <1>6, <1>7 DEF n, look

\* A publication writes what it tells.
LEMMA PublishTold ==
    ASSUME NoDots, CatalogInv, CatalogTold, Publish
    PROVE  CatalogTold'
<1> SUFFICES ASSUME NEW s \in Sources, NEW key \in StableKeys PROVE ToldOK(s, key)'
  BY DEF CatalogTold
<1> DEFINE n == Len(looks)
           look == [source |-> scan.source, scope |-> scan.scope,
                    database |-> scan.database, design |-> scan.design]
           T == Telling(s, key)
           S == Seeing(s, key)
           v == nodes[s][key]
           w == nodes'[s][key]
           present == DOMAIN scan.snapshot.nodes
<1>1. /\ scan.phase = "Read" /\ scan.source \in Sources /\ scan.scope \in Scopes
      /\ scan.design \in Designs /\ scan.database \in Databases
      /\ scan.snapshot = ReadSnapshot(scan.design, scan.database, scan.scope)
      /\ ScannableScope(scan.database, scan.scope) /\ ValidSnapshot(scan.snapshot)
  BY DEF CatalogInv, ScanOK, Publish, Publishable
<1>2. ToldOK(s, key)
  BY DEF CatalogTold
<1>3. /\ n \in Nat /\ looks'[n + 1] = look /\ \A i \in 1..n : looks'[i] = looks[i]
  BY LooksAppended
<1>4. T \subseteq 1..n /\ S \subseteq 1..n /\ S \subseteq T
  BY TellingGrows DEF Seeing
<1>5. s # scan.source => w = v
  BY DEF Publish, CatalogInv, TypeOK
<1>6. s = scan.source =>
         /\ key \in present => w = [status |-> "Active",
                                    definition |-> Definition(scan.design, key)]
         /\ key \notin present /\ v # None /\ v.status = "Active"
              /\ WithinTableScope(key, scan.scope)
              => w = [status |-> "Stale", definition |-> v.definition]
         /\ key \notin present
              /\ ~ (v # None /\ v.status = "Active" /\ WithinTableScope(key, scan.scope))
              => w = v
  BY PublishedNode
<1>7. key \in present <=> Tells(look, key) /\ Exists(scan.design, scan.database, key)
  BY <1>1, ReadExists, ExistingIsRead
<1>8. ~ Exists(scan.design, scan.database, key) =>
         (WithinTableScope(key, scan.scope) <=> Tells(look, key))
  BY DEF WithinTableScope, Tells, NoDots
<1>9. ~ Tells(look, key) => ~ WithinTableScope(key, scan.scope)
  BY DEF WithinTableScope, Tells, NoDots
<1>10. /\ T' = T \cup (IF s = scan.source /\ Tells(look, key) THEN {n + 1} ELSE {})
       /\ S' = S \cup (IF s = scan.source /\ Tells(look, key)
                          /\ Exists(scan.design, scan.database, key) THEN {n + 1} ELSE {})
  BY TellingGrows
<1>11. look.design = scan.design
  OBVIOUS
<1>12. /\ T # {} => Last(T) \in T /\ \A j \in T : j <= Last(T)
       /\ S # {} => Last(S) \in S /\ \A j \in S : j <= Last(S)
       /\ S = {} => v = None
       /\ S # {} => v = [status |-> IF Last(T) = Last(S) THEN "Active" ELSE "Stale",
                         definition |-> Definition(looks[Last(S)].design, key)]
  BY <1>2 DEF ToldOK
<1>13. S # {} => v # None
  <2> SUFFICES ASSUME S # {} PROVE v # None
    OBVIOUS
  <2> DEFINE i == Last(S)
             status == IF Last(T) = Last(S) THEN "Active" ELSE "Stale"
  <2>1. i \in S /\ v = [status |-> status, definition |-> Definition(looks[i].design, key)]
    BY <1>12
  <2>2. looks[i] \in Look /\ Exists(looks[i].design, looks[i].database, key)
    BY <2>1 DEF Seeing, Telling, CatalogInv
  <2>3. Definition(looks[i].design, key) \in DefinitionsOf(key)
    BY <2>2, SeenDefinition DEF Look
  <2>4. status \in {"Active", "Stale"}
    OBVIOUS
  <2> HIDE DEF status
  <2>5. v \in Version(key)
    BY <2>1, <2>3, <2>4 DEF Version
  <2> QED
    BY <2>5, CatalogNoneAssumption
<1>14. SUFFICES
         /\ T' # {} => Last(T)' \in T' /\ \A j \in T' : j <= Last(T)'
         /\ S' # {} => Last(S)' \in S' /\ \A j \in S' : j <= Last(S)'
         /\ S' = {} => w = None
         /\ S' # {} => w = [status |-> IF Last(T)' = Last(S)' THEN "Active" ELSE "Stale",
                            definition |-> Definition(looks'[Last(S)'].design, key)]
  BY DEF ToldOK, Definition
<1>15. /\ Last(T \cup {n + 1}) = n + 1 /\ \A j \in T \cup {n + 1} : j <= n + 1
       /\ Last(S \cup {n + 1}) = n + 1 /\ \A j \in S \cup {n + 1} : j <= n + 1
  BY <1>3, <1>4, LastOfAppended
<1>16. PICK T1 : T1 = T'
  OBVIOUS
<1>17. PICK S1 : S1 = S'
  OBVIOUS
<1>18. Last(T)' = Last(T1) /\ Last(S)' = Last(S1)
  BY <1>16, <1>17 DEF Last
<1> HIDE DEF n, look, T, S, v, w, present
<1>19. SUFFICES
         /\ T1 # {} => Last(T1) \in T1 /\ \A j \in T1 : j <= Last(T1)
         /\ S1 # {} => Last(S1) \in S1 /\ \A j \in S1 : j <= Last(S1)
         /\ S1 = {} => w = None
         /\ S1 # {} => w = [status |-> IF Last(T1) = Last(S1) THEN "Active" ELSE "Stale",
                            definition |-> Definition(looks'[Last(S1)].design, key)]
  BY <1>16, <1>17, <1>18
<1>20. CASE s = scan.source /\ Tells(look, key) /\ Exists(scan.design, scan.database, key)
  <2>1. T1 = T \cup {n + 1} /\ S1 = S \cup {n + 1}
    BY <1>10, <1>16, <1>17, <1>20
  <2>2. w = [status |-> "Active", definition |-> Definition(scan.design, key)]
    BY <1>6, <1>7, <1>20
  <2> QED
    BY <1>3, <1>11, <1>15, <2>1, <2>2
<1>21. CASE s = scan.source /\ Tells(look, key) /\ ~ Exists(scan.design, scan.database, key)
  <2>1. T1 = T \cup {n + 1} /\ S1 = S
    BY <1>10, <1>16, <1>17, <1>21
  <2>2. CASE S = {}
    <3>1. w = v
      BY <1>6, <1>7, <1>12, <1>21, <2>2
    <3> QED
      BY <1>12, <1>15, <2>1, <2>2, <3>1
  <2>3. CASE S # {}
    <3>1. Last(S) \in 1..n /\ Last(S) # n + 1 /\ looks'[Last(S)] = looks[Last(S)]
      <4>1. Last(S) \in S
        BY <1>12, <2>3
      <4>2. Last(S) \in 1..n
        BY <1>4, <4>1
      <4> QED
        BY <1>3, <4>2
    <3>2. v # None
      BY <1>13, <2>3
    <3>3. v.status = "Active" =>
            w = [status |-> "Stale", definition |-> v.definition]
      BY <1>6, <1>7, <1>8, <1>21, <3>2
    <3>4. v.status # "Active" => w = v
      BY <1>6, <1>7, <1>21
    <3>5. w = [status |-> "Stale", definition |-> Definition(looks[Last(S)].design, key)]
      BY <1>12, <2>3, <3>3, <3>4
    <3> QED
      BY <1>12, <1>15, <2>1, <2>3, <3>1, <3>5
  <2> QED
    BY <2>2, <2>3
<1>22. CASE ~ (s = scan.source /\ Tells(look, key))
  <2>1. T1 = T /\ S1 = S
    BY <1>10, <1>16, <1>17, <1>22
  <2>2. w = v
    BY <1>5, <1>6, <1>7, <1>9, <1>22
  <2>3. S # {} => looks'[Last(S)] = looks[Last(S)]
    BY <1>3, <1>4, <1>12
  <2> QED
    BY <1>12, <2>1, <2>2, <2>3
<1> QED
  BY <1>20, <1>21, <1>22

\* No other step changes the nodes or the publications.
LEMMA OthersTold ==
    ASSUME CatalogTold, [Next]_catalogVars, ~ Publish
    PROVE  CatalogTold'
<1>1. UNCHANGED <<nodes, looks>>
  BY DEF Next, catalogVars, nodeVars, CreateDataSource, ReadDataSource, UpdateDataSource,
         RefuseUpdate, DeleteDataSource, StartScan, BeginSchemaScan, ReadSource, ReadFails,
         PublicationFails, FailSchemaScan, Restart, ProcessEnds, AlterSource
<1> SUFFICES ASSUME NEW s \in Sources, NEW key \in StableKeys PROVE ToldOK(s, key)'
  BY DEF CatalogTold
<1>2. Telling(s, key)' = Telling(s, key)
  BY <1>1 DEF Telling, Tells
<1>3. Seeing(s, key)' = Seeing(s, key)
  BY <1>1, <1>2 DEF Seeing, Exists
<1>4. Last(Telling(s, key))' = Last(Telling(s, key)) /\ Last(Seeing(s, key))' = Last(Seeing(s, key))
  BY <1>2, <1>3 DEF Last
<1>5. ToldOK(s, key)
  BY DEF CatalogTold
<1> QED
  BY <1>1, <1>2, <1>3, <1>4, <1>5 DEF ToldOK, Definition

\* When no table's name is another one's with a dot and more, the catalog says of
\* every node what the last publication that told of it saw (Publish and the scans
\* before it: full ones and incremental ones, that failed or were cut off, that read
\* long before they published, under connection strings that changed).
THEOREM CatalogTellsTheSource ==
    ASSUME NoDots
    PROVE  Spec => []CatalogTellsSource
<1>1. Init => CatalogTold
  BY DEF Init, CatalogTold, ToldOK, Telling, Seeing
<1>2. CatalogInv /\ CatalogTold /\ [Next]_catalogVars => CatalogTold'
  BY PublishTold, OthersTold
<1>3. CatalogTold => CatalogTellsSource
  BY DEF CatalogTold, ToldOK, CatalogTellsSource
<1> QED
  BY <1>1, <1>2, <1>3, CatalogInvariantHolds, PTL DEF Spec

\* Without views and dotted names, a snapshot within the limits can be published: the
\* columns of an incremental scan have their tables, and its keys their columns.
THEOREM ReadsArePublishable ==
    ASSUME NoDots, \A d \in Designs : d.views = {}
    PROVE  Spec => []ReadIsPublishable
<1>1. ASSUME CatalogInv PROVE ReadIsPublishable
  <2> SUFFICES ASSUME scan.phase = "Read" PROVE ValidSnapshot(scan.snapshot)
    BY DEF ReadIsPublishable
  <2> DEFINE d == scan.design
             database == scan.database
             scope == scan.scope
             keys  == ReadForeignKeys(d, database, IF scope = {} THEN Tables ELSE scope)
             names == IF scope = {} THEN Tables ELSE ExpandedTables(scope, keys)
             read == DOMAIN scan.snapshot.nodes
  <2>1. /\ d \in Designs /\ database \in Databases /\ scope \in Scopes
        /\ scan.snapshot = ReadSnapshot(d, database, scope)
        /\ ScannableScope(database, scope) /\ WithinBudget(scan.snapshot)
    BY <1>1 DEF CatalogInv, ScanOK
  <2>2. IsDesign(d) /\ scope \subseteq Tables /\ d.views = {}
    BY <2>1, CatalogAssumption
  <2>3. /\ read = {<<"Database", database>>, <<"Schema", database>>}
                     \cup ReadTables(d, database, names) \cup ReadColumns(d, database, names)
        /\ scan.snapshot.keys = keys
    BY <2>1 DEF ReadSnapshot, Scan, ScanTables, Snapshot
  <2>4. \A c \in DOMAIN d.columns : c \in Columns /\ TableOf[c] \in DOMAIN d.tables
                                    /\ TableOf[c] \in Tables
    BY <2>2, ReaderAssumption DEF IsDesign
  <2>5. ASSUME NEW f \in keys
        PROVE  /\ SourceColumn[f] \in DOMAIN d.columns /\ TargetColumn[f] \in DOMAIN d.columns
               /\ SourceColumn[f] # TargetColumn[f]
               /\ HomeOf[TableOf[SourceColumn[f]]] = database
               /\ HomeOf[TableOf[TargetColumn[f]]] = database
               /\ scope # {} => TableOf[SourceColumn[f]] \in scope
    BY <2>2 DEF ReadForeignKeys, InDatabase, IsDesign
  <2>6. scope # {} => /\ scope \subseteq names
                      /\ \A f \in keys : TableOf[TargetColumn[f]] \in names
    BY DEF ExpandedTables, Dotted, NoDots
  <2>7. scope = {} => names = Tables
    OBVIOUS
  <2> HIDE DEF names, keys, read
  <2>8. ASSUME NEW key \in read
        PROVE  Kind(key) = "Database" \/ Parent(key) \in read
    <3>1. CASE key = <<"Database", database>>
      BY <3>1 DEF Kind
    <3>2. CASE key = <<"Schema", database>>
      BY <2>3, <3>2 DEF Kind, Parent
    <3>3. CASE key \in ReadTables(d, database, names)
      <4>1. PICK t \in DOMAIN d.tables : key = <<"Table", t>> /\ HomeOf[t] = database
        BY <3>3 DEF ReadTables, InDatabase
      <4>2. Parent(key) = <<"Schema", database>>
        BY <4>1 DEF Kind, Parent
      <4> QED
        BY <2>3, <4>2
    <3>4. CASE key \in ReadColumns(d, database, names)
      <4>1. PICK c \in DOMAIN d.columns : /\ key = <<"Column", c>>
                                          /\ HomeOf[TableOf[c]] = database
                                          /\ TableOf[c] \in names
        BY <3>4 DEF ReadColumns, InDatabase
      <4>2. Parent(key) = <<"Table", TableOf[c]>>
        BY <4>1 DEF Kind, Parent
      <4>3. <<"Table", TableOf[c]>> \in ReadTables(d, database, names)
        BY <2>4, <4>1 DEF ReadTables, InDatabase
      <4> QED
        BY <2>3, <4>2, <4>3
    <3> QED
      BY <2>3, <3>1, <3>2, <3>3, <3>4
  <2>9. ASSUME NEW f \in keys
        PROVE  /\ <<"Column", SourceColumn[f]>> \in read
               /\ <<"Column", TargetColumn[f]>> \in read
    <3>1. TableOf[SourceColumn[f]] \in names /\ TableOf[TargetColumn[f]] \in names
      BY <2>4, <2>5, <2>6, <2>7
    <3>2. /\ <<"Column", SourceColumn[f]>> \in ReadColumns(d, database, names)
          /\ <<"Column", TargetColumn[f]>> \in ReadColumns(d, database, names)
      BY <2>5, <3>1 DEF ReadColumns, InDatabase
    <3> QED
      BY <2>3, <3>2
  <2>10. read # {}
    BY <2>3
  <2> QED
    BY <2>1, <2>3, <2>5, <2>8, <2>9, <2>10 DEF ValidSnapshot, read
<1> QED
  BY <1>1, CatalogInvariantHolds, PTL

=============================================================================
