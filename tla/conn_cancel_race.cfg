SPECIFICATION Spec
CONSTANTS
    MaxReq = 3
    MaxPkts = 2
    MaxWire = 2
    Responses <- SmallResponses
    Faults = {"cancel", "unread"}
    DiscardOnCancelErr = FALSE
INVARIANT ResponseCorrelation
