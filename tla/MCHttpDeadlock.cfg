SPECIFICATION FairSpec
CONSTANTS
    Reqs = {r1, r2}
    ChatIds = {s1}
    OpenAiIds = {o1}
    MaxSessions = 1
    MaxAgents = 3
    saver = saver
    Nobody = Nobody
    NoAgent = NoAgent
PROPERTY SaveCompletes
