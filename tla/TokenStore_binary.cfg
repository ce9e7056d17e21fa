\* The store main builds: HeartbeatClient::new gives it no persist_path.
CONSTANTS
    Clients = {c1}
    Tokens = {t1, t2}
    BadTokens = {cfg}
    ConfigToken = cfg
    Persists = FALSE
    None = None
    Torn = Torn

SPECIFICATION Spec

PROPERTIES
    AckedRotationIsDurable
