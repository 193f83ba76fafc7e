SPECIFICATION Spec
CONSTANTS
    Conns = {c1, c2, c3}
    Peers = {p, q}
    CacheSize = 1
    MaxMsgs = 0
    MaxPresence = 0
    Deletes = FALSE
    Nobody = Nobody
SYMMETRY Symmetry
INVARIANTS
    LeaveMeansGone
CHECK_DEADLOCK FALSE
