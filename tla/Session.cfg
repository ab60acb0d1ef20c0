SPECIFICATION Spec
CONSTANTS
    app = app
    lib = lib
    table = table
    None = None
    Paths <- MCPaths
    Texts <- MCTexts
    SnapshotTexts <- MCSnapshots
    ImportChoices <- MCChoices
    InitialTexts <- MCInitialTexts
    InitialImports <- Chain
    Requests <- MCRequests
    MissingInstalls = FALSE
    MaxEdits = 2
    MaxBoundaryId = 8
    MaxTransaction = 2
INVARIANTS
    CachesCurrent
    PreparationsCurrent
    AnswersCurrent
CHECK_DEADLOCK FALSE
