SPECIFICATION Spec
CONSTANTS
    db1 = db1
    db2 = db2
    t1 = t1
    t2 = t2
    c1 = c1
    c2 = c2
    f1 = f1
    int = int
    text = text
    dsn1 = dsn1
    dsn2 = dsn2
    None = None
    Databases = {db1, db2}
    Tables = {t1, t2}
    Columns = {c1, c2}
    HomeOf <- MCHomeOf
    TableOf <- MCTableOf
    ForeignKeys = {f1}
    SourceColumn <- MCSourceColumn
    TargetColumn <- MCTargetColumn
    Definitions = {int, text}
    MaximumSnapshotForeignKeys = 1
    DSNs = {dsn1, dsn2}
    DatabaseIn <- MCDatabaseIn
    DottedUnder <- MCNotDotted
    MaximumSnapshotNodes = 6
    Sources = {s1}
    Names = {n1}
    Environment = None
    Admins = {}
    Designs <- MCViews
    Scopes <- MCFullScope
    Runs = {u1}
    MaxLooks = 1
INVARIANTS
    ReadIsPublishable
CHECK_DEADLOCK FALSE
