\* Two holders of one store are sent the same token.
CONSTANTS
    Clients = {c1, c2}
    Tokens = {t1, t2}
    BadTokens = {cfg}
    ConfigToken = cfg
    Persists = TRUE
    None = None
    Torn = Torn

SPECIFICATION Spec

PROPERTIES
    NoopRotationsAreSkipped
