SPECIFICATION Spec
CONSTANTS
    MaxReq = 4
    MaxPkts = 2
    MaxWire = 2
    Responses <- SmallResponses
    Faults = {"abandon"}
    DiscardOnCancelErr = FALSE
INVARIANT HalfSentFailsCleanly
