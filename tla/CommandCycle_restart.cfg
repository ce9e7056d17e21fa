\* One heartbeat task, as in main, and a restart.
CONSTANTS
    Senders = {hb}
    Workers = {}
    Commands = {}
    Repeated = {}
    Configured = TRUE
    MaxToken = 2
    MaxStarts = 1
    MaxLate = 0
    None = None

SPECIFICATION Spec

PROPERTIES
    RotationSurvivesRestart
