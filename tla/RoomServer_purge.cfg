SPECIFICATION FairSpec
CONSTANTS
    Conns = {c1}
    Reqs = {q1}
    RoomIds = {r1}
    Tokens = {t1}
    MaxChallengeId = 1
    Faults = {"token", "insert", "activate", "create", "commit", "consume"}
    MaxParticipants = 1
    MaxParticipantsCap = 3
    OpenFactor = 1
    PasswordFactor = 2
    TotalRoomsCap = 0
    IdleTtl = 0
    MaxTime = 2
    MaxCrashes = 1
    NoRoom = NoRoom
    NoToken = NoToken
PROPERTIES
    IdleRoomsArePurged
