\* Two connections on one or two io threads, the purge thread, and two data
\* frames: both can join, or one can join and have a message relayed.
SPECIFICATION Spec
CONSTANTS
    Conns = {c1, c2}
    IoThreads = {t1, t2}
    Purger = purger
    MaxFrames = 2
SYMMETRY Symmetry
INVARIANTS PendingKeepsAlive OwnCallsReachLive LeavesOnce FreedIsForgotten
CHECK_DEADLOCK FALSE
