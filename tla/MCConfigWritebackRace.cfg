SPECIFICATION Spec
CONSTANTS
    NPdos = 2
    MaxEdits = 1
CHECK_DEADLOCK FALSE
PROPERTIES ReplacesSnapshot
