\* Every kind of command: output below, at and above the capacity of a pipe.
\* A timeout may be zero, shorter than a poll interval, or a whole one.
CONSTANTS
    PipeCap = 1
    MaxOutput = 2
    MaxTimeout = 3
    PollInterval = 2
    MaxLag = 1
    KillTime = 1

SPECIFICATION FairSpec

INVARIANTS
    TypeOK
    NoChildIsLeft
    OutputIsComplete
    FinishedInTimeIsNotTimedOut
    ReturnsSoonAfterTimeout
    FastCommandCompletes

PROPERTIES
    ImplementsTimedCall
    EveryStepCounts
    RunReturns

\* A call ends.
CHECK_DEADLOCK FALSE
