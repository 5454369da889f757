SPECIFICATION Spec
CONSTANTS
    NSlaves = 2
    Reference = 2
    Timeout = 7
    MaxLag = 1
    Horizon = 14
INVARIANTS AllOrNothing SettledBeforeTouch ActivatedInBudget PhaseSeeded
PROPERTIES InitializeEnds
