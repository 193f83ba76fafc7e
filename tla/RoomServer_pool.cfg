SPECIFICATION Spec
CONSTANTS
    Conns = {c1}
    Reqs = {q1, q2}
    RoomIds = {r1}
    Tokens = {t1, t2}
    MaxChallengeId = 2
    Faults = {}
    MaxParticipants = 1
    MaxParticipantsCap = 3
    OpenFactor = 1
    PasswordFactor = 2
    TotalRoomsCap = 0
    IdleTtl = 0
    MaxTime = 0
    MaxCrashes = 0
    NoRoom = NoRoom
    NoToken = NoToken
SYMMETRY Symmetry
INVARIANTS
    PoolIsHardCap
