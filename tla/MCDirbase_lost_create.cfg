CONSTANTS
    users = users
    posts = posts
    name = name
    t1 = t1
    t2 = t2
    t3 = t3
    t4 = t4
    NoItem = NoItem
    NoTable = NoTable
    NoTarget = NoTarget
    NoArc = NoArc
    NoEntry = NoEntry
    Unvalidated = Unvalidated
    Absent = Absent
    Garbage = Garbage
    SchemaFile = SchemaFile
    NoRequest = NoRequest
    NoValue = NoValue
    Resource = {users, posts}
    Column = {name}
    MaxId = 5
    MaxRevision = 4
    Task = {t1, t2, t3}
    Arc = {1, 2, 3, 4, 5, 6, 7, 8}
    Workload <- TwoPosts
    Faults <- NoFaults
    WatcherRunning = TRUE
    InitialDisk <- OneUser
    InitialSchema <- NoFolderSchema
    Edits <- NoEdits
SPECIFICATION Spec
INVARIANTS
    DistinctIds
