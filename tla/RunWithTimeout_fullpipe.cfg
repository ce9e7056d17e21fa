\* Commands whose output may not fit in a pipe.
CONSTANTS
    PipeCap = 1
    MaxOutput = 2
    MaxTimeout = 2
    PollInterval = 2
    MaxLag = 1
    KillTime = 1

SPECIFICATION Spec

INVARIANTS
    EveryFastCommandCompletes

\* A call ends.
CHECK_DEADLOCK FALSE
