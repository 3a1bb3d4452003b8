CONSTANTS
    None = None
    NoAlias = None
    NotB32 = NotB32
    Text = Text
    Dash = Dash
    PayloadLen = 2
    I128_MAX = 4
    U32_MAX = 4
    U64_MAX = 4
    Line <- AllLines
    SlipLine <- Whole
SPECIFICATION CSpec
INVARIANTS
    SlipNeverRuns
    RequestFitsCommand
    EndpointMatchesPassphrase
    SecretSource
CHECK_DEADLOCK FALSE
