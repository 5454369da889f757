SPECIFICATION Spec
CONSTANTS
    Objects <- MCObjects
    Indexes = {1, 2}
    MaxSlaves = 2
    Sources <- MCSources
    Device <- MCDevice
    Identity <- MCIdentity
    MaxVars = 3
    MaxImage = 6
CHECK_DEADLOCK FALSE
INVARIANTS VariablesAreTheirObjects VerifiedIsPublished
