CONSTANTS
    Self = self
    None = None
    alice = alice
    bob = bob
    token = token
    k1 = k1
    k2 = k2
    c1 = c1
    c2 = c2
    Address = {self, alice, bob, token}
    Signer = {alice}
    Key = {k1}
    OperatorKey = {k1}
    FirstPolicy <- UncappedPolicy
    Config <- AgentConfig
    Batch = {}
    MaxTime = 2
    MaxRevision = 2
    MAX_WINDOW_ENTRIES = 2
    I128_MAX = 4
    U32_MAX = 4
    MAX_AUTH_CONTEXTS = 2
    MAX_POLICY_ASSETS = 2
    MAX_POLICY_PROTOCOLS = 2
    MAX_RECIPIENT_ENTRIES = 2
    MAX_ASSET_CAP_ENTRIES = 2
    MAX_WINDOW_SECS = 5
    MAX_DMS_GRACE_SECS = 5
    Client = {c1, c2}
    Job <- TwoJobs
    NonceSpan = 1
    SigTtl = 0
    PollLimit = 2
SPECIFICATION TSpec
INVARIANTS
    TTypeOK
    VerdictMatchesLedger
    
    BroadcastIsNamed
    ReplayOnlyWithinLedger
    TransferFootprintCovers
PROPERTIES
    EveryRunEnds
CHECK_DEADLOCK FALSE
