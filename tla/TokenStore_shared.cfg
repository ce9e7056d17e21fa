\* Two holders of one persistent store; the configured token is not one that
\* validate_token_format accepts, as nothing checks it.
CONSTANTS
    Clients = {c1, c2}
    Tokens = {t1, t2}
    BadTokens = {cfg}
    ConfigToken = cfg
    Persists = TRUE
    None = None
    Torn = Torn

SPECIFICATION FairSpec

INVARIANTS
    TypeOK
    PersistedTokenIsWhole

PROPERTIES
    DiskFollowsMemory
    AckedRotationIsDurable
    ImplementsDurableToken
    LockIsReleased
