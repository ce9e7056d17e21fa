\* What the tasks are doing when the process exits, with the default interval.
CONSTANTS
    Interval = 30
    Horizon = 40

SPECIFICATION Spec

INVARIANTS
    TasksFinish

\* The process exits.
CHECK_DEADLOCK FALSE
