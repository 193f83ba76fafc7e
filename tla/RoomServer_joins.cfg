SPECIFICATION Spec
CONSTANTS
    Conns = {c1, c2}
    Reqs = {q1}
    RoomIds = {r1}
    Tokens = {t1, t2}
    MaxChallengeId = 2
    Faults = {"token", "insert", "activate", "create", "delete"}
    MaxParticipants = 2
    MaxParticipantsCap = 3
    OpenFactor = 1
    PasswordFactor = 2
    TotalRoomsCap = 0
    IdleTtl = 0
    MaxTime = 1
    MaxCrashes = 1
    NoRoom = NoRoom
    NoToken = NoToken
SYMMETRY Symmetry
INVARIANTS
    OneTokenPerChallenge
    OneGuessPerChallenge
    NoOrphanRows
    PoolBeforeActivation
