SPECIFICATION FairSpec
CONSTANTS
    Header = 2
    Body = 2
    MaxLogins = 3
INVARIANTS
    Whole
    InStep
PROPERTIES
    Completion
\* The client ends.
CHECK_DEADLOCK FALSE
