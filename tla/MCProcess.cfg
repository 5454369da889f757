SPECIFICATION Spec
CONSTANTS
    Words = {1, 2}
    MaxWindows = 3
    MaxFaulty = 3
INVARIANTS DrainedAtExit FaultsAccounted ReadyMeansServed NothingReleasedInUse
PROPERTIES IsChannel SignalEnds CyclesEnd
