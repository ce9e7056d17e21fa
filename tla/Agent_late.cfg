\* What the heartbeat task does after the shutdown flag is set.
CONSTANTS
    Interval = 3
    Horizon = 40

SPECIFICATION Spec

PROPERTIES
    NoHeartbeatAfterShutdown

\* The process exits.
CHECK_DEADLOCK FALSE
