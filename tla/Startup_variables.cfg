\* The variables of README.md.
CONSTANTS
    Flags = {}
    Variables = {"SIGOPS_SERVER_URL", "SIGOPS_API_KEY"}
    WellKnown <- MCTools
    Hanging = {}
    MaxChanges = 0
    None = None

SPECIFICATION Spec

INVARIANTS
    DocumentedVariablesAreRead

\* What follows is not part of this module.
CHECK_DEADLOCK FALSE
