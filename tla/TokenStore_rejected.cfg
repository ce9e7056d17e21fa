\* One holder of a persistent store: what an error of maybe_rotate leaves behind.
CONSTANTS
    Clients = {c1}
    Tokens = {t1, t2}
    BadTokens = {cfg}
    ConfigToken = cfg
    Persists = TRUE
    None = None
    Torn = Torn

SPECIFICATION Spec

PROPERTIES
    RejectedRotationKeepsToken
