\* Every tool, program and end of a program.
CONSTANTS
    Codes = {"000", "200", "404"}
    Zero = "000"
    Successes = {"200"}
    Text = {"text"}
    Newline = "newline"
    Space = "space"
    Garbled = "garbled"
    Replaced = "replaced"
    MaxBody = 2
    Decimals <- MCDecimals
    Float <- MCFloat
    Seconds <- MCSeconds
    None = None

SPECIFICATION FairSpec

INVARIANTS
    TypeOK
    HttpReportsResponse
    SlackOkMeansAccepted
    ComparisonsNeverReverse
    WaitIsHonoured

PROPERTIES
    ToolsEnd

\* execute_task returns.
CHECK_DEADLOCK FALSE
