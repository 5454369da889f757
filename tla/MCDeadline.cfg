SPECIFICATION DeadlineSpec
CONSTANTS
    Period = 3
    Horizon = 24
CHECK_DEADLOCK FALSE
INVARIANTS PhaseKept LedgerBalances
PROPERTIES NearestSlot
