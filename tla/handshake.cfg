SPECIFICATION FairSpec
CONSTANTS
    Configs <- MCConfigs
    Responses <- MCResponses
INVARIANTS
    DemandedEncryption
    SidesAgree
    OutcomeFaithful
    WaitsIfTold
PROPERTY
    ConnectEnds
