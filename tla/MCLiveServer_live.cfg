SPECIFICATION LiveSpec
CONSTANTS
    TableOrder <- MCTableOrder
    RelationOrder <- MCRelationOrder
    Singular <- MCSingular
    ReferencePrefix <- MCReferencePrefix
    KeyCandidates <- MCKeyCandidates
    LiteralOf <- MCLiteralOf
    NumberText <- MCNumberText
    NamesOf <- MCNamesOf
    FieldName <- MCFieldName
    RelationStem <- MCRelationStem
    MixedArrays <- MCMixedArrays
    ObjectOf <- MCObjectOf
    Request <- MCRequest
    Edits <- MCEdits
    Transient <- MCTransient
    Folder <- MCFolder
    Overlays <- MCOverlays
    NoKey = NoKey
    NoKind = NoKind
    NoCheck = NoCheck
    NoTable = NoTable
    MergeError = MergeError
    IdColumn = "id"
    MaxNumber = 2
    MaxRows = 2
    MaxSaves = 1
    Client = {c1, c2}
    Cloned = "users"
    Fetch <- MCFetch
    NoFetch = NoFetch
    RemoteRows <- MCRemoteRows
    Reader = {g1}
    NotCached = NotCached
    LoadFailed = LoadFailed
    Capacity = 3
    StormLimit = 4
    Handler = {h1, h2}
    Watcher = watcher
    NoLock = NoLock
    MaxChanges = 2
SYMMETRY MCSymmetry
CHECK_DEADLOCK FALSE
INVARIANTS
    LiveTypeOK
    ClonedIdsDistinct
    StoredItemsFound
    CachedUnlessOvertaken
    ViewIsCurrent
