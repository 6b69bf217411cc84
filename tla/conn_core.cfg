SPECIFICATION Spec
CONSTANTS
    MaxReq = 4
    MaxPkts = 2
    MaxWire = 2
    Responses <- SmallResponses
    Faults = {"drop", "split", "unread", "timeout", "encode", "close"}
    DiscardOnCancelErr = FALSE
INVARIANT TypeOK
INVARIANT OneInFlight
INVARIANT NoMisparse
