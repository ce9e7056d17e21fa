\* One holder is sent the current token again and again after a failed write.
CONSTANTS
    Clients = {c1}
    Tokens = {t1, t2}
    BadTokens = {cfg}
    ConfigToken = cfg
    Persists = TRUE
    None = None
    Torn = Torn

SPECIFICATION RedeliverySpec

PROPERTIES
    CurrentTokenReachesDisk
