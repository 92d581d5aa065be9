CONSTANTS
    MaxBuffered <- MCMaxBuffered
    MaxUnits <- MCMaxUnits
    NestedNames = FALSE
SPECIFICATION Spec
INVARIANTS
    RewrittenAsPromised
    SuccessIsWhole
