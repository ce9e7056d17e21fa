\* The whole life of the agent, with a server that answers, refuses or never
\* answers.
CONSTANTS
    Interval = 3
    Horizon = 40

SPECIFICATION FairSpec

INVARIANTS
    TypeOK
    HealthStopsInTime
    ProcessStopsInTime
    RequestsAreTimely

PROPERTIES
    RequestsAreSpaced
    HeartbeatsContinue
    ShutdownCompletes

\* The process exits.
CHECK_DEADLOCK FALSE
