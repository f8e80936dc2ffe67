SPECIFICATION Spec
CONSTANTS
    TableOrder <- MCTableOrder
    RelationOrder <- MCRelationOrder
    Singular <- MCSingular
    ReferencePrefix <- MCReferencePrefix
    KeyCandidates <- MCKeyCandidates
    LiteralOf <- MCLiteralOf
    NumberText <- MCNumberText
    NamesOf <- MCNamesOf
    FieldName <- MCFieldName
    RelationStem <- MCRelationStem
    MixedArrays <- MCMixedArrays
    ObjectOf <- MCObjectOf
    Request <- MCRequest
    Edits <- MCEdits
    Transient <- MCTransient
    Folder <- MCFolder
    Overlays <- MCOverlays
    NoKey = NoKey
    NoKind = NoKind
    NoCheck = NoCheck
    NoTable = NoTable
    MergeError = MergeError
    IdColumn = "id"
    MaxNumber = 3
    MaxRows = 1
    MaxSaves = 1
CHECK_DEADLOCK FALSE
INVARIANTS
    IncrementalInference
    ManyToManyMirrored
    ReferencesResolve
    SavedSchemaIsEffective
    UniformRowsAdmitted
    UpdatedItemFound
    DeclaredKeysAddress
    GraphqlComplete
    GraphqlRowsFit
