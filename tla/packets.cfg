SPECIFICATION FairSpec
CONSTANTS
    HeaderBytes = 2
    MinSize = 4
    MaxSize = 5
    FirstSize = 4
    Sizes = {2, 4, 5, 9}
    LengthMod = 16
    SendSizes = {1, 3}
    LoginSizes = {4}
    RowSizes = {1, 4}
    MaxMsgs = 2
    MaxRows = 3
    MaxPayload = 10
    MayAbandon = FALSE
INVARIANT BufferIsFresh
INVARIANT PacketsFit
PROPERTY IsMessageChannel
PROPERTY MessagesArrive
CHECK_DEADLOCK FALSE
