SPECIFICATION MCSpec
CONSTANTS
    Parts = {"mcp", "calls", "memory"}
    Callers = {c1, c2}
    health = health
    MaxProcs = 2
    MaxCalls = 1
    Cap = 1
    Paths = {a, b}
    Cases <- TableCases
    Alias = "a"
    WireOf <- TableWireOf
    MaxPieces = 3
    MaxToolCalls = 2
    MaxNotes = 1
    Contents <- Texts
    WatcherSize <- OneLine
    ManagerSize <- Long
    HasVec = TRUE
    MaxEdits = 2
    MaxReindex = 1
    MaxEmbed = 1
    MaxFailed = 1
    Site <- TableSite
    None = None
SYMMETRY Symmetry
CHECK_DEADLOCK FALSE
INVARIANTS
    NoStrayServer
    NoEntryLeft
    DoneMeansWhole
    FallbackSound
    ResolveIsNearest
    IndexSound
PROPERTIES
    ReindexRestores
