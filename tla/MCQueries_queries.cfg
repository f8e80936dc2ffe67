SPECIFICATION Spec
CONSTANTS
    NumberRank <- MCNumberRank
    TextRank <- MCTextRank
    TextMatch <- MCTextMatch
    NoType = NoType
    References <- MCReferences
    Types <- MCTypes
    Folders <- MCFolders
    Requests <- MCRequests
    PostTable = "users"
    NewRows <- MCNewRows
    MaxPerPage = 5
    MaxScanRows = 5
    MaxSelectedRows = 3
    ProbePaths <- MCProbePaths
    ProbeTexts <- MCProbeTexts
CHECK_DEADLOCK FALSE
INVARIANTS
    WalkVisitsOnce
    SortingIsSound
    FilteringIsSound
    JoinCommutes
    FieldsResolve
    LookupsAreJoins
