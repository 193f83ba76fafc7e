SPECIFICATION Spec
CONSTANTS
    Conns = {c1, c2, c3}
    NWorkers = 2
    Timeout = 1
    MaxTime = 2
    MaxId = 2
INVARIANTS DeadlinesAreCurrent EndedIsReleased NothingOutlivesMain
PROPERTIES SignalEnds
CHECK_DEADLOCK FALSE
