\* The command line of README.md.
CONSTANTS
    Flags = {"--server-url", "--api-key"}
    Variables = {}
    WellKnown <- MCTools
    Hanging = {}
    MaxChanges = 0
    None = None

SPECIFICATION Spec

INVARIANTS
    DocumentedFlagsStart

\* What follows is not part of this module.
CHECK_DEADLOCK FALSE
