SPECIFICATION Spec
CONSTANTS
    Words = {1}
    MaxWindows = 1
    MaxFaulty = 1
PROPERTIES MasterFirst
