SPECIFICATION Spec
CONSTANTS
    Reqs = {r1, r2}
    ChatIds = {s1, s2}
    OpenAiIds = {o1}
    MaxSessions = 1
    MaxAgents = 3
    saver = saver
    Nobody = Nobody
    NoAgent = NoAgent
SYMMETRY ReqSymmetry
INVARIANTS
    MapConsistent
    AnsweredIsDirty
    CyclesOnlyAtResult
