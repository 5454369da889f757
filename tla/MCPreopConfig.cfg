SPECIFICATION Spec
CONSTANTS
    Checks <- MCChecks
    InitWrites <- MCInitWrites
    Fixed <- MCFixed
    PowerUp <- MCPowerUp
    MaxAttempts = 2
    MaxFaults = 1
INVARIANTS SuccessConfigured OrderedWrites NoHomemadeFailure InitOnce
PROPERTIES ConfigurationEnds
