\* Tools come and go while they are probed.
CONSTANTS
    Flags = {"--server-url", "--heartbeat-interval"}
    Variables = {"HEARTBEAT_INTERVAL"}
    WellKnown <- MCTools
    Hanging = {"docker"}
    MaxChanges = 2
    None = None

SPECIFICATION FairSpec

INVARIANTS
    TypeOK
    StableToolsAreListed

PROPERTIES
    StartupCompletes

\* What follows is not part of this module.
CHECK_DEADLOCK FALSE
