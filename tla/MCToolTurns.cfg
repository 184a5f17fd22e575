SPECIFICATION MCSpec
CONSTANTS
    Turns = {t1, t2, t3, t4, t5}
    Early = {t1, t2, t3}
    MaxCalls = 2
    MaxInFlight = 2
    Callers = {"http", "cli", "ingress"}
    SoftLimit = 2
    HardLimit = 5
    KeepLast = 3
SYMMETRY TurnSymmetry
CHECK_DEADLOCK FALSE
INVARIANTS
    ConsentConserved
    RunsOnce
    FlushOncePerCycle
    AnswersInOrder
    OrphansOnlyAtCut
