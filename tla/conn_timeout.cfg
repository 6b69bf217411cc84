SPECIFICATION TimedSpec
CONSTANTS
    MaxReq = 4
    MaxPkts = 2
    MaxWire = 2
    Responses <- SmallResponses
    Faults = {"timeout", "cancel", "abandon", "close"}
    DiscardOnCancelErr = FALSE
INVARIANT DescriptorFresh
PROPERTY ReadBounded
