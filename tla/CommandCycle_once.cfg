\* A sender and two workers share the token; the server hands out one command
\* once, the other until it has a result.
CONSTANTS
    Senders = {hb}
    Workers = {w1, w2}
    Commands = {c1, c2}
    Repeated = {c2}
    Configured = TRUE
    MaxToken = 2
    MaxStarts = 1
    MaxLate = 1
    None = None

SPECIFICATION Spec

SYMMETRY WorkerSymmetry

INVARIANTS
    TypeOK
    NeverLockedOut
    RunsOnce

PROPERTIES
    TokenNeverGoesBack
    ImplementsCommandLife
