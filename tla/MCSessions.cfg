SPECIFICATION Spec
CONSTANTS
    Chats = {k1}
    Tasks = {t1, t2}
    Clis = {c1}
    saver = saver
    MaxMsgs = 2
    MaxIds = 2
    MaxObjs = 2
    Nobody = Nobody
SYMMETRY TaskSymmetry
CHECK_DEADLOCK FALSE
INVARIANTS
    OneSessionPerChat
    CleanIsOnDisk
