\* curl is killed by somebody else.
CONSTANTS
    Codes = {"000", "200", "404"}
    Zero = "000"
    Successes = {"200"}
    Text = {"text"}
    Newline = "newline"
    Space = "space"
    Garbled = "garbled"
    Replaced = "replaced"
    MaxBody = 2
    Decimals <- MCDecimals
    Float <- MCFloat
    Seconds <- MCSeconds
    None = None

SPECIFICATION Spec

INVARIANTS
    LastLineIsStatus

\* execute_task returns.
CHECK_DEADLOCK FALSE
