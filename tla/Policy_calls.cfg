\* Every policy, call and value of $HOME.
CONSTANTS
    Fragments = {"/", "~", "..", ";", "&", "bin", "cat", "rm", "root", "srv", "home", "u", ".ssh", "tmp"}
    Slash = "/"
    Tilde = "~"
    Dots = ".."
    Metacharacters = {";", "&"}
    Commands <- MCCommands
    Arguments <- MCArguments
    MaxArguments = 2
    WhiteLists <- MCWhiteLists
    DenyLists <- MCDenyLists
    Directories <- MCDirectories
    Timeouts = {30, 1}
    Homes <- MCHomes
    DefaultWhiteList <- MCDefaultWhiteList
    DefaultDenyList <- MCDefaultDenyList
    DefaultTimeout = 30
    None = None
    NotText = NotText

SPECIFICATION Spec

INVARIANTS
    TypeOK
    NothingDeniedRuns

\* run returns.
CHECK_DEADLOCK FALSE
