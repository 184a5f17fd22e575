SPECIFICATION Spec
CONSTANTS
    Http = {h1, h2}
    Cli = {c1, c2}
    Bare = {i1}
    hb = hb
    Daemon = daemon
    Nobody = Nobody
INVARIANTS
    TypeOK
    MutualExclusion
    LocksAccounted
    PidFileHonest
PROPERTIES
    HeartbeatYields
    LockWaitEnds
