SPECIFICATION Spec
CONSTANTS
    LETTERS_COUNT = 4
    Wirings <- TheWirings
    Keys <- TheKeys
    Plains <- ThePlains
INVARIANTS
    Positions
PROPERTIES
    Decodes
\* enigma returns at the end of the text.
CHECK_DEADLOCK FALSE
