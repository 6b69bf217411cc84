SPECIFICATION FairSpec
CONSTANTS
    MaxReq = 2
    MaxPkts = 2
    MaxWire = 2
    Responses <- SmallResponses
    Faults = {"encode"}
    DiscardOnCancelErr = FALSE
PROPERTY CallReturns
CHECK_DEADLOCK FALSE
