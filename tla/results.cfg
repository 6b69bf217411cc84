SPECIFICATION Spec
CONSTANTS
    Metas = {"a", "b"}
    AltIds = {1}
    Tokens <- MCTokens
    MaxTokens = 4
    MaxCalls = 2
INVARIANTS
    DecodedWithOwnMetadata
    ItemsFaithful
    ErrorReported
    ResultFaithful
PROPERTY
    ColumnsAnswer
CHECK_DEADLOCK FALSE
