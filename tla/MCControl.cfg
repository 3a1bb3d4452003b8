CONSTANTS
    Self = self
    None = None
    alice = alice
    bob = bob
    carol = carol
    token = token
    coin = coin
    dex = dex
    Address = {self, alice, bob, carol, token, coin, dex}
    Signer = {self, alice, bob, carol}
    Key = {k1, k2}
    Config <- GraceConfig
    Batch <- SelfBatch
    MaxTime = 6
    MaxRevision = 3
    MAX_WINDOW_ENTRIES = 2
    I128_MAX = 4
    U32_MAX = 4
    MAX_AUTH_CONTEXTS = 2
    MAX_POLICY_ASSETS = 2
    MAX_POLICY_PROTOCOLS = 2
    MAX_RECIPIENT_ENTRIES = 2
    MAX_ASSET_CAP_ENTRIES = 2
    MAX_WINDOW_SECS = 5
    MAX_DMS_GRACE_SECS = 5
SPECIFICATION Spec
INVARIANTS
    
    ProposalIsToAnother
    AccountNeverItsOwnAdmin
PROPERTIES
    OnlyAdminRevives
    BlockedAgentIsPowerless
    RevisionIsJoinKey
