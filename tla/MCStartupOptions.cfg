SPECIFICATION Spec
CONSTANTS
    CommandLines <- MCCommandLines
    Files <- MCFiles
    Number <- MCNumber
    MinPeriod = 1
    UintMax = 15
    NsPerUs = 4
    CpuSetSize = 2
CHECK_DEADLOCK FALSE
INVARIANTS StartsAsAsked
