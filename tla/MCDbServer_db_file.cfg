SPECIFICATION FairSpec
CONSTANTS
    users = users
    posts = posts
    dbFile = dbFile
    t1 = t1
    t2 = t2
    t3 = t3
    Resource = {users, posts}
    Column = {}
    MaxId = 2
    NoItem = NoItem
    NoTable = NoTable
    NoTarget = NoTarget
    Task = {t1, t2, t3}
    Name = {users, posts, dbFile}
    Rank <- RankOf
    DbLock = dbFile
    Workload <- FileWorkload
    InitialFile <- OnlyUsers
    Faults <- AllFaults
    MaxCrashes = 1
    Absent = Absent
    NoEntry = NoEntry
    NoTask = NoTask
    NoRequest = NoRequest
INVARIANTS
    TypeOK
    WritersAlone
    WaitUpwards
PROPERTIES
    Linearizable
    RequestsAnswered
