SPECIFICATION Spec
CONSTANTS
    Alphabet <- TheAlphabet
    Evals <- TheEvals
    Macros <- TheMacros
    Bindings <- TheBindings
    defaultContext <- TheContext
    MaxSteps = 4
PROPERTIES
    Sound
\* A renaming that never ends, the bound on steps, and a missing pattern.
CHECK_DEADLOCK FALSE
