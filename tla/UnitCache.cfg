SPECIFICATION Spec
CONSTANTS
    app = app
    lib = lib
    table = table
    None = None
    Paths <- MCPaths
    Texts <- CodeTexts
    SnapshotTexts <- NoSnapshots
    ImportChoices <- NoChoices
    InitialTexts <- MCInitialTexts
    InitialImports <- Chain
    Requests <- DevelopOnly
    MissingInstalls = FALSE
    MaxEdits = 1
    MaxBoundaryId = 8
    MaxTransaction = 3
INVARIANT UnitCacheEqual
CHECK_DEADLOCK FALSE
