SPECIFICATION Spec
CONSTANTS
    NPdos = 2
    MaxEdits = 3
CHECK_DEADLOCK FALSE
INVARIANTS FileWhole FailureIsClean
PROPERTIES EarlyEditsKept WritebackEnds
