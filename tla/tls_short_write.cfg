SPECIFICATION WrapperSpec
CONSTANTS
    HeaderBytes = 3
    LengthMax = 7
    Flights <- SmallFlights
    RawBytes = 2
    Faults = {"tail"}
INVARIANT FlushedMeansSent
CHECK_DEADLOCK FALSE
