SPECIFICATION Spec
CONSTANTS
    MaxReq = 4
    MaxPkts = 2
    MaxWire = 2
    Responses <- SmallResponses
    Faults = {"cancel", "drop", "split", "unread", "timeout", "encode", "close"}
    DiscardOnCancelErr = FALSE
INVARIANT MessagesContiguous
INVARIANT HalfSentFailsCleanly
INVARIANT TimedOutNotReused
