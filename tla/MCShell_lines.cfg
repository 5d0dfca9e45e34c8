SPECIFICATION FairSpec
CONSTANTS
    Lines <- TheLines
    Commands <- TheCommands
    Depth <- TheDepth
    Strings <- TheStrings
    MaxLines = 3
    Names <- TheNames
    Cap = 1
    Pids <- ThePids
    Pipes <- ThePipes
INVARIANTS
    Result
    EndsClosed
PROPERTIES
    Completion
\* The shell stops at the prompt, when it is left and when a program is stuck.
CHECK_DEADLOCK FALSE
