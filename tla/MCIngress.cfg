SPECIFICATION Spec
CONSTANTS
    Owner = owner
    Users = {user}
    Jobs = {job}
    KnownJobs = {job}
    ScriptSources = {}
    Noisy = {user}
    Payloads <- MCPayloads
    BusCap = 1
    MaxDebounce = 1
    MaxChars = 3
    MaxMsgs = 3
CHECK_DEADLOCK FALSE
INVARIANTS
    Conserved
    UntrustedConfined
    SourceOrder
PROPERTIES
    Delivered
    BurstHandedOut
