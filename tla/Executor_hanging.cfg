\* The program of a restart does not end.
CONSTANTS
    Codes = {"000", "200", "404"}
    Zero = "000"
    Successes = {"200"}
    Text = {"text"}
    Newline = "newline"
    Space = "space"
    Garbled = "garbled"
    Replaced = "replaced"
    MaxBody = 2
    Decimals <- MCDecimals
    Float <- MCFloat
    Seconds <- MCSeconds
    None = None

SPECIFICATION FairSpec

PROPERTIES
    EveryTaskEnds

\* execute_task returns.
CHECK_DEADLOCK FALSE
