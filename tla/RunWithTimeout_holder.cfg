\* Commands that may leave a process behind.
CONSTANTS
    PipeCap = 1
    MaxOutput = 2
    MaxTimeout = 2
    PollInterval = 2
    MaxLag = 1
    KillTime = 1

SPECIFICATION FairSpec

PROPERTIES
    TimeoutIsEnforced

\* A call ends.
CHECK_DEADLOCK FALSE
