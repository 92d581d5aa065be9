CONSTANTS
    MaxBuffered <- MCMaxBuffered
    MaxUnits <- MCMaxUnits
    NestedNames = TRUE
SPECIFICATION Spec
INVARIANTS
    NeverPanics
