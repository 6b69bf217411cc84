SPECIFICATION FairSpec
CONSTANTS
    MaxReq = 4
    MaxPkts = 2
    MaxWire = 2
    Responses <- SmallResponses
    Faults = {"cancel", "drop", "unread", "timeout", "close"}
    DiscardOnCancelErr = TRUE
INVARIANT ResponseCorrelation
INVARIANT CancelOkIsClean
PROPERTY CallReturns
