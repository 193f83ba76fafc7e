SPECIFICATION FairSpec
CONSTANTS
    Tabs = {a}
    PasswordRoom = TRUE
    Slots = {1, 2}
    MaxStale = 2
    MaxOutages = 2
INVARIANTS
    PromptIsUsable
    ShownJoinedIsConnected
PROPERTIES
    KeyIsTested
    DeletedIsFinal
    LostSessionsComeBack
CHECK_DEADLOCK FALSE
