SPECIFICATION Spec
CONSTANTS
    Turns = {t1, t2}
    UiCap = 1
    Modes = {"polling", "webhook", "closed"}
CHECK_DEADLOCK FALSE
INVARIANTS
    PendingAccounted
    UiNeverContradicts
    LostOnlyWhenOverdue
PROPERTIES
    KeepsPromise
    RequestReturns
