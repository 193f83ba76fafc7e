SPECIFICATION Spec
CONSTANTS
    Tabs = {a, b}
    PasswordRoom = TRUE
    Slots = {1}
    MaxStale = 1
    MaxOutages = 0
INVARIANTS
    StoredKeyIsRight
CHECK_DEADLOCK FALSE
