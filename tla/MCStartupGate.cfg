SPECIFICATION Spec
CONSTANTS
    a = a
    b = b
    Slaves = {a, b}
    NChecks = 2
    SlaveOf <- MCSlaveOf
    OpTimeout = 15
    RequestTimeout = 2
    MaxLate = 1
INVARIANTS NoEarlyOutput StartupBudget
PROPERTIES GateSound GateSettled StartupEnds StopEnds
