SPECIFICATION BusSpec
CONSTANTS
    NSlaves = 2
    AlStates = {4, 8}
    Counts = {1, 2}
    Watched = 2
    WatchedAl = 8
CHECK_DEADLOCK FALSE
INVARIANTS HeartbeatHonest RestConsistent
PROPERTIES LossShown
