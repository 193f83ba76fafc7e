SPECIFICATION Spec
CONSTANTS
    Conns = {c1, c2}
    Peers = {p, q}
    CacheSize = 1
    MaxMsgs = 2
    MaxPresence = 1
    Deletes = TRUE
    Nobody = Nobody
SYMMETRY Symmetry
INVARIANTS
    HistoryIsRecent
    NothingSkipped
    MembersAreTold
    SenderOrder
    LeaveIsLast
CHECK_DEADLOCK FALSE
