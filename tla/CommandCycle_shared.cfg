\* Two tasks send heartbeats with clones of one store.
CONSTANTS
    Senders = {hb1, hb2}
    Workers = {}
    Commands = {}
    Repeated = {}
    Configured = TRUE
    MaxToken = 3
    MaxStarts = 0
    MaxLate = 0
    None = None

SPECIFICATION Spec

PROPERTIES
    TokenNeverGoesBack
