SPECIFICATION Spec
CONSTANT MaxCalls = 4
CHECK_DEADLOCK FALSE
INVARIANTS OkMeansFresh ResetOncePerTicket
PROPERTIES AcceptedIsApplied CommandAnswered
