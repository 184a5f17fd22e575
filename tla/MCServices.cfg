SPECIFICATION MCSpec
CONSTANTS
    Parts = {"store", "scripts", "telegram", "desktop"}
    Clients = {c1, c2}
    MaxExts = 2
    MaxOps = 3
    Cap = 2
    MaxUpdates = 2
    MaxCrashes = 1
    MaxFails = 1
    MaxUi = 1
    BusCap = 1
    MaxChats = 2
    MaxClicks = 1
    MaxEvents = 1
    Procs = {p1, p2}
    Ids = {i1, i2}
    Texts = {t1}
    MaxDays = 1
    None = None
CHECK_DEADLOCK FALSE
INVARIANTS
    HandledBeforeGone
    LoadingAccounted
    OneAnswerShown
PROPERTIES
    KeepsOthers
    OperationsReturn
    ReplacedEnds
    EveryUpdateHandled
