SPECIFICATION Spec
CONSTANTS
    Conns = {c1}
    Reqs = {q1, q2}
    RoomIds = {r1, r2}
    Tokens = {t1, t2}
    MaxChallengeId = 2
    Faults = {"token"}
    MaxParticipants = 1
    MaxParticipantsCap = 3
    OpenFactor = 1
    PasswordFactor = 2
    TotalRoomsCap = 1
    IdleTtl = 0
    MaxTime = 1
    MaxCrashes = 0
    NoRoom = NoRoom
    NoToken = NoToken
SYMMETRY Symmetry
INVARIANTS
    TokensAreEarned
    JoinedHoldsToken
    DeleteIsAuthorised
    RoomsCapOvershoot
PROPERTY ImplementsContract
